----------------------------- MODULE ImageUpdater -----------------------------
(***************************************************************************)
(* mkube-update (cmd/mkube-update/main.go): one watch over one repository. *)
(* Each poll asks the registry for the digest; when it differs from the    *)
(* last one seen the target containers are replaced, one after the other,  *)
(* each from a tarball staged before the container is stopped.  A digest   *)
(* is a number, and a push always brings a new one.  When the registry     *)
(* does not answer the tarball is pulled from GHCR, whose image is the     *)
(* registry's or an older one.  Self-updates are left out.                 *)
(***************************************************************************)
EXTENDS Naturals

CONSTANTS
  Targets,        \* bound: the watch names the containers 1..Targets
  MaxDigests,     \* bound: pushes, the first included
  MaxUpdFaults    \* bound: failed calls and restarts of the updater
ASSUME UpdAssumption == {Targets, MaxDigests} \subseteq Nat \ {0} /\ MaxUpdFaults \in Nat

VARIABLES
  replacing,      \* WatchEntry.Rolling, with more than one target
  newest,         \* the digest in the registry
  known,          \* u.digests[repo], 0 when there is none
  target,         \* the containers: state and image
  updating,       \* the poll: step, digest before it, target, staged image
  fellBack,       \* targets given GHCR's image since a new digest was last recorded
  skipped,        \* targets passed over as "not found" since then
  updFaults

marks == <<fellBack, skipped>>
updVars == <<replacing, newest, known, target, updating, fellBack, skipped, updFaults>>

Polled == [at |-> "idle", prev |-> 0, t |-> 1, staged |-> 0]

UpdTypeOK ==
  /\ replacing \in BOOLEAN /\ newest \in 1..MaxDigests /\ known \in 0..MaxDigests
  /\ target \in [1..Targets -> [state : {"up", "stopped", "gone"}, image : 1..MaxDigests]]
  /\ updating \in [at : {"idle", "stage", "stop", "remove", "create", "start"},
                   prev : 0..MaxDigests, t : 1..Targets, staged : 0..MaxDigests]
  /\ fellBack \subseteq 1..Targets /\ skipped \subseteq 1..Targets
  /\ updFaults \in 0..MaxUpdFaults

UpdInit ==
  /\ replacing \in BOOLEAN /\ (replacing => Targets > 1) /\ newest = 1 /\ known = 0
  /\ target = [t \in 1..Targets |-> [state |-> "up", image |-> 1]]
  /\ updating = Polled /\ fellBack = {} /\ skipped = {} /\ updFaults = 0

UpdFault == updFaults < MaxUpdFaults /\ updFaults' = updFaults + 1

Push ==
  /\ newest < MaxDigests /\ newest' = newest + 1
  /\ UNCHANGED <<replacing, known, target, updating, marks, updFaults>>

\* poll: the first digest is only recorded; a new one is recorded before the
\* containers are replaced.
PollDigest ==
  /\ updating.at = "idle"
  /\ known' = newest
  /\ IF known \in {0, newest}
       THEN updating' = Polled /\ UNCHANGED marks
       ELSE /\ updating' = [Polled EXCEPT !.at = "stage", !.prev = known]
            /\ fellBack' = {} /\ skipped' = {}
  /\ UNCHANGED <<replacing, newest, target, updFaults>>

NextTarget ==
  updating' = IF updating.t = Targets THEN Polled
              ELSE [updating EXCEPT !.at = "stage", !.t = @ + 1, !.staged = 0]

\* Mutant of ReplaceFails: the digest is kept.
ReplaceForgotten ==
  /\ updating' = Polled /\ UNCHANGED known

\* The old digest comes back so that the next poll retries; a replacing watch
\* stops here.
ReplaceFails ==
  /\ known' = updating.prev
  /\ IF replacing THEN updating' = Polled ELSE NextTarget

\* A replacing watch passes over a target on any error that says "not found", and keeps
\* the digest.
Skip ==
  /\ replacing
  /\ NextTarget /\ skipped' = skipped \cup {updating.t}
  /\ UNCHANGED <<known, fellBack>>

\* replaceContainer: the target is there and its tarball holds image i.
Staged(i) ==
  /\ target[updating.t].state # "gone"
  /\ updating' = [updating EXCEPT !.at = "stop", !.staged = i]
  /\ UNCHANGED <<replacing, newest, known, target, skipped>>

\* The registry's image is staged, or the target is not there.
StageTarball ==
  /\ updating.at = "stage"
  /\ \/ Staged(newest) /\ UNCHANGED fellBack
     \/ /\ target[updating.t].state = "gone"
        /\ Skip \/ (~replacing /\ ReplaceFails /\ UNCHANGED marks)
        /\ UNCHANGED <<replacing, newest, target>>
  /\ UNCHANGED updFaults

\* prePullTarball: the registry's pull fails and GHCR's image is staged instead. The digest
\* stays the registry's.
StageFallback ==
  /\ updating.at = "stage" /\ UpdFault
  /\ \E i \in 1..newest : Staged(i)
  /\ fellBack' = fellBack \cup {updating.t}

Advance(from, to, box) ==
  /\ updating.at = from
  /\ target' = [target EXCEPT ![updating.t] = box]
  /\ updating' = [updating EXCEPT !.at = to]
  /\ UNCHANGED <<replacing, newest, known, marks, updFaults>>

StopTarget == Advance("stop", "remove", [target[updating.t] EXCEPT !.state = "stopped"])
RemoveTarget == Advance("remove", "create", [target[updating.t] EXCEPT !.state = "gone"])
CreateTarget == Advance("create", "start", [state |-> "stopped", image |-> updating.staged])

StartTarget ==
  /\ updating.at = "start"
  /\ target' = [target EXCEPT ![updating.t].state = "up"]
  /\ NextTarget
  /\ UNCHANGED <<replacing, newest, known, marks, updFaults>>

\* Any call of replaceContainer may fail, with "not found" too (of the image, the container
\* or what it refers to), and leaves the container as it is: running, stopped, or gone.
CallRefused ==
  /\ updating.at # "idle" /\ UpdFault
  /\ Skip \/ (ReplaceFails /\ UNCHANGED marks)
  /\ UNCHANGED <<replacing, newest, target>>

\* The updater restarts: it knows no digest.
RestartUpdater ==
  /\ UpdFault /\ known' = 0 /\ updating' = Polled
  /\ UNCHANGED <<replacing, newest, target, marks>>

UpdStep ==
  PollDigest \/ StageTarball \/ StopTarget \/ RemoveTarget \/ CreateTarget \/ StartTarget

UpdNext == Push \/ UpdStep \/ StageFallback \/ CallRefused \/ RestartUpdater

UpdSpec == UpdInit /\ [][UpdNext]_updVars /\ WF_updVars(UpdStep)

\* A push the updater has not seen reaches every container that still exists, at whatever
\* step earlier attempts failed, unless a newer push comes, the updater restarts, or the
\* attempt that kept the new digest staged the container's image from GHCR or passed the
\* container over as not found (poll and replaceContainer). With a container gone for good
\* a watch that does not replace one by one never keeps the digest: every poll replaces the
\* others again.
PushReachesTargets ==
  \A d \in 1..MaxDigests :
    (newest = d /\ known \notin {0, d})
      ~> (newest # d \/ known = 0
          \/ /\ updating.at = "idle"
             /\ known = d \/ \E t \in 1..Targets : target[t].state = "gone"
             /\ \A t \in (1..Targets) \ (fellBack \cup skipped) :
                   target[t].state = "gone" \/ target[t].image = d)
=============================================================================
