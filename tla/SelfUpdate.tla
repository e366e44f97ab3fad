----------------------------- MODULE SelfUpdate -----------------------------
(***************************************************************************)
(* mkube-update replaces the container of mkube (replaceContainer of       *)
(* cmd/mkube-update), and has its own replaced by mkube, through the       *)
(* update API of pkg/provider.  Each is a process in a container that the  *)
(* other one stops, removes and makes again.  RouterOS carries a stop out  *)
(* some time after it was asked for, and until then the process may go on. *)
(* ImageUpdater has the polls and the tarballs.                            *)
(***************************************************************************)
EXTENDS Naturals

CONSTANTS
  MaxPushes2,       \* bound: pushes of one of the two images
  MaxSelfFaults     \* bound: calls that fail, requests that time out, reboots
ASSUME SelfAssumption == MaxPushes2 \in Nat /\ MaxSelfFaults \in Nat

Pair == {"mkube", "updater"}

VARIABLES
  box,          \* box[c]: the state of c's container
  upd,          \* mkube-update: what it does next
  srv,          \* mkube's replaceContainer: what it does next
  cancelled,    \* is the context of the request to mkube over?
  fresh,        \* the repositories with a digest that a poll will find changed
  gaveUp,       \* did mkube-update end because bootstrap failed?
  pushes2, selfFaults

selfVars == <<box, upd, srv, cancelled, fresh, gaveUp, pushes2, selfFaults>>

Replaces == {"wait", "remove", "create", "start"}
SelfTypeOK ==
  /\ box \in [Pair -> {"up", "stopping", "stopped", "gone"}]
  /\ upd \in {"dead", "bootstrap", "startNew", "idle", "asking"} \cup Replaces
  /\ srv \in {"idle", "look"} \cup Replaces
  /\ cancelled \in BOOLEAN /\ fresh \subseteq Pair /\ gaveUp \in BOOLEAN
  /\ pushes2 \in 0 .. MaxPushes2 /\ selfFaults \in 0 .. MaxSelfFaults

SelfFault == selfFaults < MaxSelfFaults /\ selfFaults' = selfFaults + 1
SelfWorks == UNCHANGED selfFaults
Working(c) == box[c] = "up"
Becomes(c, state) == box' = [box EXCEPT ![c] = state]

-----------------------------------------------------------------------------
(* mkube-update.  A SIGTERM cancels its context, and with it every call it makes. *)

Updater(from, to) ==
  /\ box["updater"] = "up" /\ upd = from /\ upd' = to
  /\ UNCHANGED <<srv, pushes2>>
\* bootstrap: a container that runs is left, one that is stopped is started, and one that
\* is missing is made.  A failure ends the process.
Bootstrap ==
  \/ /\ Updater("bootstrap", "idle") /\ box["mkube"] \in {"up", "stopping"} /\ UNCHANGED box
     /\ SelfWorks /\ UNCHANGED <<cancelled, fresh, gaveUp>>
  \/ /\ Updater("bootstrap", "startNew") /\ box["mkube"] \in {"stopped", "gone"}
     /\ Becomes("mkube", "stopped") /\ SelfWorks /\ UNCHANGED <<cancelled, fresh, gaveUp>>
  \/ /\ Updater("startNew", "idle") /\ Becomes("mkube", "up") /\ SelfWorks
     /\ UNCHANGED <<cancelled, fresh, gaveUp>>
BootstrapFails ==
  /\ upd \in {"bootstrap", "startNew"} /\ Updater(upd, "dead") /\ SelfFault
  /\ Becomes("updater", "stopped") /\ gaveUp' = TRUE /\ UNCHANGED <<cancelled, fresh>>

\* poll, for a container that runs, and for one that an earlier attempt has left stopped;
\* one that an earlier attempt has left removed is not found.
ReplaceMkube ==
  /\ "mkube" \in fresh /\ box["mkube"] # "gone"
  /\ IF box["mkube"] = "stopped" THEN Updater("idle", "remove") /\ UNCHANGED box
     ELSE Updater("idle", "wait") /\ Becomes("mkube", "stopping")
  /\ SelfWorks /\ UNCHANGED <<cancelled, fresh, gaveUp>>
ReplaceGoesOn ==
  /\ \/ Updater("wait", "remove") /\ box["mkube"] = "stopped" /\ UNCHANGED <<box, fresh>>
     \/ Updater("remove", "create") /\ Becomes("mkube", "gone") /\ UNCHANGED fresh
     \/ Updater("create", "start") /\ Becomes("mkube", "stopped") /\ UNCHANGED fresh
     \/ Updater("start", "idle") /\ Becomes("mkube", "up") /\ fresh' = fresh \ {"mkube"}
  /\ SelfWorks /\ UNCHANGED <<cancelled, gaveUp>>
\* Mutant of ReplaceBreaksOff: the new digest stays.
ReplaceNotRetried ==
  /\ upd \in Replaces /\ Updater(upd, "idle") /\ SelfFault /\ fresh' = fresh \ {"mkube"}
  /\ UNCHANGED <<box, cancelled, gaveUp>>
\* The digest of before comes back, and the next poll tries again.
ReplaceBreaksOff ==
  /\ upd \in Replaces /\ Updater(upd, "idle") /\ SelfFault
  /\ UNCHANGED <<box, cancelled, fresh, gaveUp>>

\* Mutant of requestSelfUpdate: it does not wait for the answer.
requestAndGoOn ==
  /\ "updater" \in fresh /\ box["updater"] = "up" /\ upd = "idle" /\ UNCHANGED upd
  /\ Working("mkube") /\ srv = "idle" /\ srv' = "look"
  /\ cancelled' = FALSE /\ fresh' = fresh \ {"updater"}
  /\ SelfWorks /\ UNCHANGED <<box, gaveUp, pushes2>>
\* The client waits for the answer, and no longer than its timeout.  A mkube that is being
\* stopped takes no new connection.
requestSelfUpdate ==
  /\ "updater" \in fresh /\ box["updater"] = "up" /\ upd = "idle" /\ upd' = "asking"
  /\ Working("mkube") /\ srv = "idle" /\ srv' = "look"
  /\ cancelled' = FALSE /\ SelfWorks /\ UNCHANGED <<box, fresh, gaveUp, pushes2>>
RequestTimesOut ==
  /\ Updater("asking", "idle") /\ cancelled' = TRUE /\ SelfFault
  /\ UNCHANGED <<box, fresh, gaveUp>>

-----------------------------------------------------------------------------
(* mkube: RunUpdateAPI.  replaceContainer works with the context of the request, which ends *)
(* with the connection: a stop of the client may end the very work that stops it.           *)

Server(from, to) ==
  /\ box["mkube"] \in {"up", "stopping"} /\ srv = from /\ srv' = to
  /\ UNCHANGED <<fresh, gaveUp, pushes2>>
replaceContainer ==
  /\ ~cancelled /\ SelfWorks /\ UNCHANGED <<cancelled, upd>>
  /\ \/ Server("look", "wait") /\ box["updater"] = "up" /\ Becomes("updater", "stopping")
     \/ Server("look", "remove") /\ box["updater"] = "stopped" /\ UNCHANGED box
     \/ Server("wait", "remove") /\ box["updater"] = "stopped" /\ UNCHANGED box
     \/ Server("remove", "create") /\ Becomes("updater", "gone")
     \/ Server("create", "start") /\ Becomes("updater", "stopped")
UpdaterStarts ==
  /\ ~cancelled /\ srv = "start" /\ srv' = "idle" /\ box["mkube"] \in {"up", "stopping"}
  /\ Becomes("updater", "up") /\ upd' = "bootstrap" /\ fresh' = {}
  /\ SelfWorks /\ UNCHANGED <<cancelled, gaveUp, pushes2>>
\* A call fails, or its context is over; a client that waits gets the error.
replaceContainerFails ==
  /\ srv # "idle" /\ Server(srv, "idle")
  /\ ((cancelled /\ SelfWorks) \/ (~cancelled /\ SelfFault))
  /\ upd' = IF upd = "asking" THEN "idle" ELSE upd
  /\ UNCHANGED <<box, cancelled>>

-----------------------------------------------------------------------------
(* RouterOS, and the registry. *)

\* The stop of mkube-update closes the connection; whether mkube still sees that in time
\* is open.
Stops(c) ==
  /\ box[c] = "stopping" /\ Becomes(c, "stopped")
  /\ IF c = "mkube"
       THEN srv' = "idle" /\ upd' = (IF upd = "asking" THEN "idle" ELSE upd) /\ UNCHANGED cancelled
       ELSE upd' = "dead" /\ cancelled' \in {cancelled, TRUE} /\ UNCHANGED srv
  /\ SelfWorks /\ UNCHANGED <<fresh, gaveUp, pushes2>>
\* Both are made with start-on-boot.
Reboot ==
  /\ SelfFault
  /\ box' = [c \in Pair |-> IF box[c] = "gone" THEN "gone" ELSE "up"]
  /\ upd' = (IF box["updater"] = "gone" THEN "dead" ELSE "bootstrap")
  /\ srv' = "idle" /\ cancelled' = TRUE /\ fresh' = {} /\ gaveUp' = FALSE
  /\ UNCHANGED pushes2
\* A push that mkube-update finds when it polls; one that started since takes it as known.
PushImage(c) ==
  /\ pushes2 < MaxPushes2 /\ pushes2' = pushes2 + 1 /\ upd # "dead"
  /\ fresh' = fresh \cup {c}
  /\ SelfWorks /\ UNCHANGED <<box, upd, srv, cancelled, gaveUp>>

SelfInit ==
  /\ box \in [Pair -> {"up", "gone"}] /\ box["updater"] = "up"
  /\ upd = "bootstrap" /\ srv = "idle" /\ cancelled = TRUE
  /\ fresh = {} /\ gaveUp = FALSE /\ pushes2 = 0 /\ selfFaults = 0
UpdaterStep ==
  Bootstrap \/ ReplaceMkube \/ ReplaceGoesOn \/ requestSelfUpdate
ServerStep == replaceContainer \/ UpdaterStarts \/ (cancelled /\ replaceContainerFails)
SelfNext ==
  \/ UpdaterStep \/ BootstrapFails \/ ReplaceBreaksOff \/ RequestTimesOut
  \/ replaceContainer \/ UpdaterStarts \/ replaceContainerFails
  \/ (\E c \in Pair : Stops(c) \/ PushImage(c)) \/ Reboot
SelfFairness ==
  /\ WF_selfVars(UpdaterStep) /\ WF_selfVars(ServerStep) /\ WF_selfVars(\E c \in Pair : Stops(c))
SelfSpec == SelfInit /\ [][SelfNext]_selfVars /\ SelfFairness

-----------------------------------------------------------------------------
(* Properties. *)

\* One of the two is always there to make the other again: neither stops the other while it
\* is being stopped or is down itself, whatever calls fail, unless mkube-update has ended
\* because it could not bootstrap mkube.
OneStays == Working("mkube") \/ Working("updater") \/ gaveUp
\* A mkube that is stopped or missing when mkube-update starts comes up, and one that is
\* stopped while mkube-update runs comes up or is found removed, once calls succeed.
MkubeReturns ==
  (box["mkube"] \in {"stopped", "stopping"} /\ Working("updater"))
    ~> (box["mkube"] \in {"up", "gone"} \/ ~Working("updater"))
=============================================================================
