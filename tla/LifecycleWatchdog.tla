-------------------------- MODULE LifecycleWatchdog --------------------------
(***************************************************************************)
(* The watchdog of pkg/lifecycle/manager.go and one container it watches:  *)
(* keepalive, startup, liveness and readiness probes (or the older health  *)
(* check), restarts with a cooldown and a limit, and the callback that     *)
(* makes the provider delete the pod and create it again.                  *)
(*                                                                         *)
(* checkAll holds the manager's mutex, so a tick is one action.  Of time   *)
(* only this is kept: whether the cooldown since the last restart is over. *)
(* A probe is due at every tick.                                           *)
(***************************************************************************)
EXTENDS Naturals

CONSTANTS
  MaxRestarts,       \* maxRestarts
  Threshold,         \* failures in a row before a probe counts as failed
  MaxFaults          \* how often the container may stop, hang or refuse to start

ASSUME WatchAssumption == MaxRestarts \in Nat \ {0} /\ Threshold \in Nat \ {0}
                          /\ MaxFaults \in Nat

VARIABLES
  unit,      \* the registered unit, or NoUnit
  runs,      \* does the container run?
  works,     \* does it answer probes while it runs?
  cooled,    \* is the cooldown over?
  callback,  \* OnFailed has been called and not done its work
  portFails, \* podHealthFailures: checks in a row that found no port open
  mishaps

watchVars == <<unit, runs, works, cooled, callback, portFails, mishaps>>

NoUnit == [status |-> "none"]
Checks == {"probes", "legacy"}
Unit(check, policy, startup) ==
  [status |-> "running", check |-> check, policy |-> policy, startup |-> startup,
   complete |-> ~startup, restarts |-> 0, fails |-> 0, healthy |-> TRUE, ready |-> TRUE,
   unready |-> 0]
Units == [status : {"running", "restarting", "stopped", "failed"}, check : Checks,
          policy : {"Always", "Never"}, startup : BOOLEAN, complete : BOOLEAN,
          restarts : 0 .. MaxRestarts, fails : 0 .. Threshold - 1, healthy : BOOLEAN,
          ready : BOOLEAN, unready : 0 .. Threshold]

WatchTypeOK ==
  /\ unit \in Units \cup {NoUnit}
  /\ {runs, works, cooled, callback} \subseteq BOOLEAN
  /\ portFails \in 0 .. Threshold - 1 /\ mishaps \in 0 .. MaxFaults

-----------------------------------------------------------------------------
(* One tick, as a sequence of states [u, runs, cooled, call]: the unit, whether the    *)
(* container runs, the cooldown, whether OnFailed is called.                           *)

\* The counter of restarts is not read beyond the limit.
Counted(u) == IF u.restarts < MaxRestarts THEN u.restarts + 1 ELSE u.restarts
Begin == [u |-> unit, runs |-> runs, cooled |-> cooled, call |-> callback]
\* A start may be refused.
Starts == {TRUE} \cup (IF mishaps < MaxFaults THEN {FALSE} ELSE {})

KeepAlive(s, ok) ==
  IF s.runs \/ s.u.status = "failed" \/ ~s.cooled \/ ~ok THEN s
  ELSE [s EXCEPT !.u.restarts = Counted(s.u), !.u.status = "running",
                 !.runs = TRUE, !.cooled = FALSE]

\* Mutant of RestartUnit: the callback is called only when the unit first fails.
RestartCallsOnce(s, ok) ==
  IF s.u.restarts >= MaxRestarts
    THEN [s EXCEPT !.u.status = "failed", !.call = s.u.status # "failed" \/ @]
  ELSE IF ~s.cooled THEN s
  ELSE [s EXCEPT !.u.status = "restarting", !.u.restarts = @ + 1, !.runs = ok,
                 !.cooled = FALSE]
RestartUnit(s, ok) ==
  IF s.u.restarts >= MaxRestarts THEN [s EXCEPT !.u.status = "failed", !.call = TRUE]
  ELSE IF ~s.cooled THEN s
  ELSE [s EXCEPT !.u.status = "restarting", !.u.restarts = @ + 1, !.runs = ok,
                 !.cooled = FALSE]

Unhealthy(s, ok) ==
  IF s.u.policy = "Always" THEN RestartUnit(s, ok) ELSE [s EXCEPT !.u.status = "stopped"]

Passes(s) == s.runs /\ works

StartupProbe(s, ok) ==
  IF Passes(s) THEN [s EXCEPT !.u.fails = 0, !.u.complete = TRUE]
  ELSE IF s.u.fails + 1 < Threshold THEN [s EXCEPT !.u.fails = @ + 1]
  ELSE [RestartUnit(s, ok) EXCEPT !.u.fails = 0, !.u.complete = FALSE]

LivenessProbe(s, ok) ==
  IF Passes(s) THEN [s EXCEPT !.u.fails = 0, !.u.healthy = TRUE,
                              !.u.status = IF s.u.healthy THEN @ ELSE "running"]
  ELSE IF s.u.fails + 1 < Threshold THEN [s EXCEPT !.u.fails = @ + 1]
  ELSE [Unhealthy([s EXCEPT !.u.healthy = FALSE], ok) EXCEPT !.u.fails = 0]

\* The older check acts when the state changes, not while it lasts.
LegacyCheck(s, ok) ==
  LET t == [s EXCEPT !.u.healthy = Passes(s)] IN
  IF s.u.healthy /\ ~Passes(s) THEN Unhealthy(t, ok)
  ELSE IF ~s.u.healthy /\ Passes(s) THEN [t EXCEPT !.u.status = "running"] ELSE t

ReadinessProbe(s) ==
  IF Passes(s) THEN [s EXCEPT !.u.unready = 0, !.u.ready = TRUE]
  ELSE [s EXCEPT !.u.unready = IF @ < Threshold THEN @ + 1 ELSE @,
                 !.u.ready = @ /\ s.u.unready + 1 < Threshold]

\* checkAll, for one unit; ok: would a start succeed?
Checked(ok) ==
  LET s == KeepAlive(Begin, ok) IN
  IF ~s.u.complete THEN StartupProbe(s, ok)
  ELSE IF s.u.check = "legacy" THEN LegacyCheck(s, ok)
  ELSE ReadinessProbe(LivenessProbe(s, ok))

-----------------------------------------------------------------------------
Register(check, policy, startup) ==
  /\ unit = NoUnit
  /\ unit' = Unit(check, policy, startup)
  /\ runs' = TRUE /\ works' = TRUE /\ cooled' = TRUE
  /\ UNCHANGED <<callback, portFails, mishaps>>

Unregister ==
  /\ unit # NoUnit
  /\ unit' = NoUnit /\ runs' = FALSE
  /\ UNCHANGED <<works, cooled, callback, portFails, mishaps>>

CheckAll ==
  /\ unit # NoUnit
  /\ \E ok \in Starts :
       /\ unit' = Checked(ok).u /\ runs' = Checked(ok).runs
       /\ cooled' = Checked(ok).cooled /\ callback' = Checked(ok).call
       /\ mishaps' = IF ok THEN mishaps ELSE mishaps + 1
  /\ UNCHANGED <<works, portFails>>

\* handleLifecycleFailed: the pod is deleted, which unregisters the unit, and created, or
\* no tracked pod owns the container.
OnFailed ==
  /\ callback /\ callback' = FALSE
  /\ \/ /\ unit # NoUnit
        /\ unit' = Unit(unit.check, unit.policy, unit.startup)
        /\ runs' = TRUE /\ works' = TRUE /\ cooled' = TRUE
        /\ UNCHANGED mishaps
     \/ /\ unit # NoUnit => mishaps < MaxFaults
        /\ mishaps' = IF unit = NoUnit THEN mishaps ELSE mishaps + 1
        /\ UNCHANGED <<unit, runs, works, cooled>>
  /\ UNCHANGED portFails

\* The cycle of the provider looks at the ports of the containers that run, and restarts one
\* that has none open behind the back of the watchdog.
checkPodPortHealth ==
  /\ unit # NoUnit /\ runs
  /\ LET dead == ~works /\ portFails + 1 = Threshold IN
     /\ portFails' = IF works \/ dead THEN 0 ELSE portFails + 1
     /\ \/ UNCHANGED <<runs, mishaps>>
        \/ dead /\ mishaps < MaxFaults /\ runs' \in BOOLEAN /\ mishaps' = mishaps + 1
  /\ UNCHANGED <<unit, works, cooled, callback>>

\* The container stops, hangs, or comes round by itself; time passes.
Mishap ==
  /\ mishaps < MaxFaults /\ mishaps' = mishaps + 1 /\ runs
  /\ \/ runs' = FALSE /\ UNCHANGED works
     \/ works /\ works' = FALSE /\ UNCHANGED runs
  /\ UNCHANGED <<unit, cooled, callback, portFails>>
Recovers ==
  /\ ~works /\ works' = TRUE
  /\ UNCHANGED <<unit, runs, cooled, callback, portFails, mishaps>>
CoolDown ==
  /\ ~cooled /\ cooled' = TRUE
  /\ UNCHANGED <<unit, runs, works, callback, portFails, mishaps>>

WatchInit ==
  /\ unit = NoUnit /\ runs = FALSE /\ works = TRUE /\ cooled = TRUE
  /\ callback = FALSE /\ portFails = 0 /\ mishaps = 0
WatchNext ==
  \/ \E check \in Checks, policy \in {"Always", "Never"}, startup \in BOOLEAN :
       Register(check, policy, startup)
  \/ Unregister \/ CheckAll \/ checkPodPortHealth \/ OnFailed \/ Mishap \/ Recovers \/ CoolDown

-----------------------------------------------------------------------------
(* Properties. *)

\* A probed container that never answers again is handed to the callback, over and over
\* until the pod has been made anew, whatever failed on the way.
HungIsReplaced ==
  (unit # NoUnit /\ unit.check = "probes" /\ unit.policy = "Always" /\ ~works)
    ~> (works \/ unit = NoUnit)
=============================================================================
