---------------------------- MODULE ImageRollout ----------------------------
(***************************************************************************)
(* How a pushed image reaches the pods that run it: the image cache of     *)
(* pkg/storage/manager.go, the push events, the image checks of reconcile  *)
(* (steps 3a and 3c) and the redeploy request.  One tagged image           *)
(* reference; its contents are numbered in the order in which they are     *)
(* pushed.                                                                 *)
(*                                                                         *)
(* The reconcile loop and the goroutine of a redeploy use the cache, whose *)
(* mutex is held over the calls to the registry; the registry moves        *)
(* meanwhile.                                                              *)
(***************************************************************************)
EXTENDS Naturals

CONSTANTS
  AutoPods,       \* the pods with image policy auto that run the image
  MaxPushes,      \* contents pushed, the first included
  MaxRedeploys,   \* redeploy requests
  MaxPullFaults,  \* pulls that fail
  Undisturbed     \* has mkube run since it created the pods, and does every event arrive?

ASSUME RolloutAssumption == /\ MaxPushes \in Nat \ {0}
                            /\ {MaxRedeploys, MaxPullFaults} \subseteq Nat

VARIABLES
  latest,       \* what the registry holds
  digest,       \* the digest in the cache (m.images), 0: no entry
  tarball,      \* the content of the tarball, 0: no file
  running,      \* running[p]: the content p's container was created from
  notified,     \* is a push event waiting?
  rewritten,    \* do the pods name the image by an address that rewriteLocalhost changes?
  rolling,      \* what each thread does
  asked,        \* history: what the registry held at the last redeploy request
  redeploys,
  pullFaults

cacheVars == <<digest, tarball>>
requestVars == <<asked, redeploys>>
restVars == <<rewritten, pullFaults>>
rolloutVars == <<latest, cacheVars, running, notified, rolling, requestVars, restVars>>

Rollers == {"reconcile", "redeploy"}
\* A thread: its step, the pods it has still to update, the digest it has looked up.
Resting == [step |-> "rest", pods |-> {}, digest |-> 0]
RolloutTypeOK ==
  /\ {latest, digest, tarball, asked} \subseteq 0 .. MaxPushes
  /\ running \in [AutoPods -> 0 .. MaxPushes] /\ {notified, rewritten} \subseteq BOOLEAN
  /\ rolling \in [Rollers -> [step : {"rest", "refresh", "update", "pulled"},
                              pods : SUBSET AutoPods, digest : 0 .. MaxPushes]]
  /\ redeploys \in 0 .. MaxRedeploys /\ pullFaults \in 0 .. MaxPullFaults

\* The mutex of the storage manager.
CacheFree == \A t \in Rollers : rolling[t].step \notin {"refresh", "pulled"}

-----------------------------------------------------------------------------
\* podman push: the event may be dropped when its channel is full.
PushImage ==
  /\ latest < MaxPushes /\ latest' = latest + 1
  /\ notified' \in {TRUE} \cup (IF Undisturbed THEN {} ELSE {notified})
  /\ UNCHANGED <<cacheVars, running, rolling, requestVars, restVars>>

ClearImageDigestByRepo ==
  /\ notified /\ rolling["reconcile"] = Resting /\ CacheFree
  /\ notified' = FALSE /\ digest' = 0 /\ tarball' = 0
  /\ UNCHANGED <<latest, running, rolling, requestVars, restVars>>

\* The check of a cycle looks the digest up ...
CheckDigest ==
  /\ rolling["reconcile"] = Resting /\ CacheFree
  /\ rolling' = [rolling EXCEPT !["reconcile"] =
                   [step |-> "refresh", pods |-> {}, digest |-> latest]]
  /\ UNCHANGED <<latest, cacheVars, running, notified, requestVars, restVars>>

\* ... and pulls when it is not the one of the cache.  The first pod visited asks and learns
\* nothing, because the outer variable "changed" is shadowed; the others are stale if there
\* was an entry.  Pods being redeployed are left out.
Stales(others) == IF digest # 0 THEN others \ rolling["redeploy"].pods ELSE {}
RefreshImage ==
  LET seen == rolling["reconcile"].digest IN
  /\ rolling["reconcile"].step = "refresh"
  /\ IF digest = seen THEN UNCHANGED cacheVars
     ELSE digest' = seen /\ tarball' = latest
  /\ \E first \in AutoPods :
       LET stale == IF digest = seen THEN {} ELSE Stales(AutoPods \ {first}) IN
       rolling' = [rolling EXCEPT !["reconcile"] =
                     IF stale = {} THEN Resting
                     ELSE [step |-> "update", pods |-> stale, digest |-> 0]]
  /\ UNCHANGED <<latest, running, notified, requestVars, restVars>>

\* A redeploy marks its pods and drops the cache entry and the tarball of the reference that
\* the pods name.  The cache keeps them by the rewritten reference: those of a pod that names
\* the registry by another of its addresses stay.
Redeploys(clears) ==
  /\ rolling["redeploy"] = Resting /\ CacheFree /\ redeploys < MaxRedeploys
  /\ IF clears THEN digest' = 0 /\ tarball' = 0 ELSE UNCHANGED cacheVars
  /\ rolling' = [rolling EXCEPT !["redeploy"] =
                   [step |-> "update", pods |-> AutoPods, digest |-> 0]]
  /\ asked' = latest /\ redeploys' = redeploys + 1
  /\ UNCHANGED <<latest, running, notified, restVars>>
\* Mutant of RedeployRequest: the entry stays.
RedeployCached == Redeploys(FALSE)
RedeployRequest == Redeploys(~rewritten)

\* Updating a pod begins with EnsureImage: the tarball of the session, or a new one, whose
\* digest is looked up after the pull.
Updated(t, p) ==
  rolling' = [rolling EXCEPT ![t].pods = @ \ {p},
                ![t].step = IF rolling[t].pods = {p} THEN "rest" ELSE "update"]
SessionHit(t, p) ==
  /\ rolling[t].step = "update" /\ p \in rolling[t].pods /\ CacheFree
  /\ digest # 0 /\ tarball # 0
  /\ running' = [running EXCEPT ![p] = tarball] /\ Updated(t, p)
  /\ UNCHANGED <<latest, cacheVars, notified, requestVars, restVars>>
PullImage(t) ==
  /\ rolling[t].step = "update" /\ CacheFree /\ (digest = 0 \/ tarball = 0)
  /\ tarball' = latest
  /\ rolling' = [rolling EXCEPT ![t].step = "pulled"]
  /\ UNCHANGED <<latest, digest, running, notified, requestVars, restVars>>
EnsureImage(t, p) ==
  /\ rolling[t].step = "pulled" /\ p \in rolling[t].pods
  /\ digest' = latest
  /\ running' = [running EXCEPT ![p] = tarball] /\ Updated(t, p)
  /\ UNCHANGED <<latest, tarball, notified, requestVars, restVars>>

\* A pull that fails has removed the old tarball; its pod is given up.
PullFails(t, p) ==
  /\ pullFaults < MaxPullFaults /\ pullFaults' = pullFaults + 1
  /\ rolling[t].step = "update" /\ p \in rolling[t].pods /\ CacheFree
  /\ (digest = 0 \/ tarball = 0) /\ tarball' = 0 /\ Updated(t, p)
  /\ UNCHANGED <<latest, digest, running, notified, requestVars, rewritten>>
RefreshFails ==
  /\ pullFaults < MaxPullFaults /\ pullFaults' = pullFaults + 1
  /\ rolling["reconcile"].step = "refresh" /\ digest # rolling["reconcile"].digest
  /\ tarball' = 0 /\ rolling' = [rolling EXCEPT !["reconcile"] = Resting]
  /\ UNCHANGED <<latest, digest, running, notified, requestVars, rewritten>>

\* The rollout halts behind a pod that does not come to life.
HaltRollout(t) ==
  /\ rolling[t].step = "update" /\ rolling[t].pods # AutoPods
  /\ rolling' = [rolling EXCEPT ![t] = Resting]
  /\ UNCHANGED <<latest, cacheVars, running, notified, requestVars, restVars>>

RolloutInit ==
  /\ latest = 1 /\ running = [p \in AutoPods |-> 1]
  /\ digest \in (IF Undisturbed THEN {1} ELSE {0, 1}) /\ tarball = digest
  /\ notified = FALSE /\ rewritten \in BOOLEAN
  /\ rolling = [t \in Rollers |-> Resting] /\ asked = 0 /\ redeploys = 0 /\ pullFaults = 0
CheckNext == ClearImageDigestByRepo \/ CheckDigest \/ RefreshImage
UpdateAny(t) == PullImage(t) \/ HaltRollout(t)
                \/ \E p \in AutoPods : SessionHit(t, p) \/ EnsureImage(t, p)
RolloutNext ==
  \/ PushImage \/ CheckNext \/ RedeployRequest \/ RefreshFails
  \/ \E t \in Rollers, p \in AutoPods : PullFails(t, p)
  \/ \E t \in Rollers : UpdateAny(t)
\* The loop goes on, and its select does not pass over an event for ever.
RolloutFairness ==
  /\ WF_rolloutVars(CheckNext) /\ SF_rolloutVars(ClearImageDigestByRepo)
  /\ \A t \in Rollers : WF_rolloutVars(UpdateAny(t))
RolloutSpec == RolloutInit /\ [][RolloutNext]_rolloutVars /\ RolloutFairness

-----------------------------------------------------------------------------
(* Properties. *)

\* A pod that a redeploy has replaced runs what the registry held when the redeploy was
\* asked for, or something newer, whatever the reconcile loop did to the cache meanwhile:
\* where the pods name the image by the reference that the cache keeps.
RedeployIsFresh ==
  [][\A p \in AutoPods :
       ~rewritten /\ rolling["redeploy"].step # "rest"
         /\ p \in rolling["redeploy"].pods /\ p \notin rolling'["redeploy"].pods
         => running'[p] >= asked \/ running' = running]_rolloutVars

\* What the reconcile loop promises: pods with image policy auto come to run what is
\* pushed.
PushReachesPods == <>[](\A p \in AutoPods : running[p] = latest)
=============================================================================
