---------------------------- MODULE JobScheduling ----------------------------
(***************************************************************************)
(* The bare-metal job subsystem of the provider, as it stands in memory:   *)
(* the Job, HostReservation, JobRunner and BareMetalHost maps, the HTTP    *)
(* handlers that change them, the scheduler tick and the agents on the     *)
(* booted hosts.                                                           *)
(*                                                                         *)
(* Every handler runs under the provider mutex (api.go WrapHandler) and is *)
(* one action.  The tick holds the mutex from its first step to its last   *)
(* (job_scheduler.go:29-32); it is a sequence of actions, one per visited  *)
(* job or runner, and no handler is enabled until it has ended.            *)
(*                                                                         *)
(* Wall-clock time is reduced to what the tick asks of it: late[j] says    *)
(* which of the three deadlines of job j have passed.                      *)
(***************************************************************************)
EXTENDS Naturals, FiniteSets

CONSTANTS
  Jobs, Hosts, Reservations, Runners, Pools,   \* names of the objects
  NoJob, NoHost, NoRunner,                     \* the empty string in a reference field
  JobPool,        \* spec.pool of each job
  Priority,       \* spec.priority of each job
  Limited,        \* jobs with spec.timeout > 0
  RunnerPool,     \* spec.pool of each runner
  MaxConcurrent,  \* spec.maxConcurrent of each runner, 0 = unlimited
  Overflow,       \* runners with spec.allowOverflow
  PowersOff,      \* runners with spec.idleTimeout > 0 whose policy is not Retain
  Scheduled       \* runners with a spec.schedule

ASSUME NamesAssumption ==
  /\ NoJob \notin Jobs /\ NoHost \notin Hosts /\ NoRunner \notin Runners
ASSUME SpecsAssumption ==
  /\ JobPool \in [Jobs -> Pools]
  /\ Priority \in [Jobs -> Nat]
  /\ Limited \subseteq Jobs
  /\ RunnerPool \in [Runners -> Pools]
  /\ MaxConcurrent \in [Runners -> Nat]
  /\ Overflow \subseteq Runners /\ PowersOff \subseteq Runners /\ Scheduled \subseteq Runners

VARIABLES
  phase, bmhRef, runnerRef,   \* status of each job, phase "Absent" when there is none
  late,                       \* deadlines of each job that have passed
  hrHost, hrPool, activeJob,  \* each reservation, hrHost = NoHost when there is none
  runner,                     \* status.phase of each runner, or "Absent"
  hosts, online,              \* BareMetalHosts present, and those with spec.online
  polling, executing,         \* hosts whose agent asks for work; job each agent runs
  tick, todo                  \* step the scheduler is in; pending jobs not yet visited

jobVars   == <<phase, bmhRef, runnerRef>>
hrVars    == <<hrHost, hrPool, activeJob>>
hostVars  == <<hosts, online>>
agentVars == <<polling, executing>>
tickVars  == <<tick, todo>>
vars == <<jobVars, late, hrVars, runner, hostVars, agentVars, tickVars>>

Busy     == {"Provisioning", "Running"}
Terminal == {"Completed", "Failed", "TimedOut", "Cancelled"}
Phases   == {"Absent", "Pending"} \cup Busy \cup Terminal
Deadlines == {"created", "run", "beat"}
TickSteps == {"off", "schedule", "provisioning", "running", "heartbeat", "idle", "online"}

TypeOK ==
  /\ phase \in [Jobs -> Phases]
  /\ bmhRef \in [Jobs -> Hosts \cup {NoHost}]
  /\ runnerRef \in [Jobs -> Runners \cup {NoRunner}]
  /\ late \in [Jobs -> SUBSET Deadlines]
  /\ hrHost \in [Reservations -> Hosts \cup {NoHost}]
  /\ hrPool \in [Reservations -> Pools]
  /\ activeJob \in [Reservations -> Jobs \cup {NoJob}]
  /\ runner \in [Runners -> {"Absent", "Active", "Suspended"}]
  /\ hosts \in SUBSET Hosts
  /\ online \in SUBSET Hosts
  /\ polling \in SUBSET Hosts
  /\ executing \in [Hosts -> Jobs \cup {NoJob}]
  /\ tick \in TickSteps
  /\ todo \in SUBSET Jobs

-----------------------------------------------------------------------------
(* State functions the handlers and the tick share. *)

BusyJobs == {j \in Jobs : phase[j] \in Busy}
JobsOn(h, phases) == {j \in Jobs : bmhRef[j] = h /\ phase[j] \in phases}
Reserved(p) == {r \in Reservations : hrHost[r] # NoHost /\ hrPool[r] = p}

\* Mutant of FreeHosts: the activeJob test is dropped.
FreeHostsAnyReserved(p) == {hrHost[r] : r \in Reserved(p)}

\* Reserved hosts of a pool with no active job.  Only the create handler sets a
\* reservation's phase, to Active, so that test of the code is always true.
FreeHosts(p) == {hrHost[r] : r \in {q \in Reserved(p) : activeJob[q] = NoJob}}

\* Overflow hosts: every BareMetalHost that no reservation names.
UnreservedHosts == hosts \ {hrHost[r] : r \in Reservations}

AvailableHosts(p, rn) ==
  IF FreeHosts(p) # {} \/ rn \notin Overflow THEN FreeHosts(p) ELSE UnreservedHosts

ActiveInPool(p) == {j \in BusyJobs : JobPool[j] = p}
\* Mutant of AtLimit: > for >=.
AtLimitOffByOne(rn) ==
  /\ MaxConcurrent[rn] > 0
  /\ Cardinality(ActiveInPool(RunnerPool[rn])) > MaxConcurrent[rn]

AtLimit(rn) ==
  /\ MaxConcurrent[rn] > 0
  /\ Cardinality(ActiveInPool(RunnerPool[rn])) >= MaxConcurrent[rn]

\* Runners that may serve job j; the code takes the first in map order: any one.
RunnersFor(j) == {rn \in Runners : runner[rn] = "Active" /\ RunnerPool[rn] = JobPool[j]}

\* Mutant of Released: the reservation is not given back.
ReleasedNever(j) == activeJob

\* activeJob after releaseJobHost(j).
Released(j) ==
  [r \in Reservations |->
     IF bmhRef[j] # NoHost /\ hrHost[r] = bmhRef[j] /\ activeJob[r] = j
     THEN NoJob ELSE activeJob[r]]

\* A job ends: its phase is set, its reservation released, its deadlines are of
\* no further interest (no code reads the times of a finished job's deadlines).
Finish(j, outcome) ==
  /\ phase' = [phase EXCEPT ![j] = outcome]
  /\ activeJob' = Released(j)
  /\ late' = [late EXCEPT ![j] = {}]
  /\ UNCHANGED <<bmhRef, runnerRef, hrHost, hrPool, runner, hostVars>>

-----------------------------------------------------------------------------
(* Job handlers. *)

Unlocked == tick = "off"

\* Mutant of CreateJob: a finished job of the same name is overwritten.
CreateJobOverEnded(j) ==
  /\ Unlocked
  /\ phase[j] \in Terminal \cup {"Absent"}
  /\ \E rn \in Runners : runner[rn] # "Absent" /\ RunnerPool[rn] = JobPool[j]
  /\ phase' = [phase EXCEPT ![j] = "Pending"]
  /\ bmhRef' = [bmhRef EXCEPT ![j] = NoHost]
  /\ runnerRef' = [runnerRef EXCEPT ![j] = NoRunner]
  /\ UNCHANGED <<late, hrVars, runner, hostVars, agentVars, tickVars>>

CreateJob(j) ==
  /\ Unlocked
  /\ phase[j] = "Absent"
  /\ \E rn \in Runners : runner[rn] # "Absent" /\ RunnerPool[rn] = JobPool[j]
  /\ phase' = [phase EXCEPT ![j] = "Pending"]
  /\ bmhRef' = [bmhRef EXCEPT ![j] = NoHost]
  /\ runnerRef' = [runnerRef EXCEPT ![j] = NoRunner]
  /\ UNCHANGED <<late, hrVars, runner, hostVars, agentVars, tickVars>>

\* Mutant of CancelJob: a job that has ended is cancelled again.
CancelJobEnded(j) ==
  /\ Unlocked
  /\ phase[j] # "Absent"
  /\ Finish(j, "Cancelled")
  /\ UNCHANGED <<agentVars, tickVars>>

CancelJob(j) ==
  /\ Unlocked
  /\ phase[j] \notin Terminal \cup {"Absent"}
  /\ Finish(j, "Cancelled")
  /\ UNCHANGED <<agentVars, tickVars>>

DeleteJob(j) ==
  /\ Unlocked
  /\ phase[j] \notin Busy \cup {"Absent"}
  /\ phase' = [phase EXCEPT ![j] = "Absent"]
  /\ bmhRef' = [bmhRef EXCEPT ![j] = NoHost]
  /\ runnerRef' = [runnerRef EXCEPT ![j] = NoRunner]
  /\ late' = [late EXCEPT ![j] = {}]
  /\ UNCHANGED <<hrVars, runner, hostVars, agentVars, tickVars>>

-----------------------------------------------------------------------------
(* Reservation, runner and host handlers. *)

CreateReservation(r, h, p) ==
  /\ Unlocked
  /\ hrHost[r] = NoHost
  /\ h \in hosts
  /\ \A q \in Reservations : hrHost[q] # h
  /\ hrHost' = [hrHost EXCEPT ![r] = h]
  /\ hrPool' = [hrPool EXCEPT ![r] = p]
  /\ activeJob' = [activeJob EXCEPT ![r] = NoJob]
  /\ UNCHANGED <<jobVars, late, runner, hostVars, agentVars, tickVars>>

\* Mutant of DeleteReservation: the reservation of a running job may go.
DeleteReservationInUse(r) ==
  /\ Unlocked
  /\ hrHost[r] # NoHost
  /\ hrHost' = [hrHost EXCEPT ![r] = NoHost]
  /\ activeJob' = [activeJob EXCEPT ![r] = NoJob]
  /\ UNCHANGED <<jobVars, late, hrPool, runner, hostVars, agentVars, tickVars>>

DeleteReservation(r) ==
  /\ Unlocked
  /\ hrHost[r] # NoHost
  /\ activeJob[r] = NoJob
  /\ hrHost' = [hrHost EXCEPT ![r] = NoHost]
  /\ UNCHANGED <<jobVars, late, hrPool, activeJob, runner, hostVars, agentVars, tickVars>>

\* Create, or set status.phase with PUT or PATCH.
SetRunner(rn, ph) ==
  /\ Unlocked
  /\ runner[rn] # ph
  /\ runner[rn] = "Absent" => ph = "Active"
  /\ runner' = [runner EXCEPT ![rn] = ph]
  /\ UNCHANGED <<jobVars, late, hrVars, hostVars, agentVars, tickVars>>

DeleteRunner(rn) ==
  /\ Unlocked
  /\ runner[rn] # "Absent"
  /\ \A j \in BusyJobs : runnerRef[j] # rn
  /\ runner' = [runner EXCEPT ![rn] = "Absent"]
  /\ UNCHANGED <<jobVars, late, hrVars, hostVars, agentVars, tickVars>>

CreateHost(h) ==
  /\ Unlocked
  /\ h \notin hosts
  /\ hosts' = hosts \cup {h}
  /\ UNCHANGED <<jobVars, late, hrVars, runner, online, agentVars, tickVars>>

\* Neither jobs nor reservations are consulted.
DeleteHost(h) ==
  /\ Unlocked
  /\ h \in hosts
  /\ hosts' = hosts \ {h}
  /\ online' = online \ {h}
  /\ UNCHANGED <<jobVars, late, hrVars, runner, agentVars, tickVars>>

-----------------------------------------------------------------------------
(* The scheduler tick. *)

BeginTick ==
  /\ tick = "off"
  /\ tick' = "schedule"
  /\ todo' = {j \in Jobs : phase[j] = "Pending"}
  /\ UNCHANGED <<jobVars, late, hrVars, runner, hostVars, agentVars>>

\* Mutant of NextInQueue: the queue is not sorted.
NextUnsorted(j) == j \in todo

\* Pending jobs are visited by descending priority.  Equal priorities are
\* ordered by creation time, left open here: any order.
NextInQueue(j) == j \in todo /\ \A k \in todo : Priority[k] <= Priority[j]

\* Mutant of Schedule: the job counts as running as soon as it has a host.
ScheduleRunning(j, rn, h) ==
  /\ phase' = [phase EXCEPT ![j] = "Running"]
  /\ bmhRef' = [bmhRef EXCEPT ![j] = h]
  /\ runnerRef' = [runnerRef EXCEPT ![j] = rn]
  /\ activeJob' = [r \in Reservations |-> IF hrHost[r] = h THEN j ELSE activeJob[r]]
  /\ online' = online \cup ({h} \cap hosts)
  /\ UNCHANGED <<late, hrHost, hrPool, runner, hosts>>

\* Phase "Scheduling" is set and overwritten within this step.
Schedule(j, rn, h) ==
  /\ phase' = [phase EXCEPT ![j] = "Provisioning"]
  /\ bmhRef' = [bmhRef EXCEPT ![j] = h]
  /\ runnerRef' = [runnerRef EXCEPT ![j] = rn]
  /\ activeJob' = [r \in Reservations |-> IF hrHost[r] = h THEN j ELSE activeJob[r]]
  /\ online' = online \cup ({h} \cap hosts)
  /\ UNCHANGED <<late, hrHost, hrPool, runner, hosts>>

PassOver(j) == UNCHANGED <<jobVars, late, hrVars, runner, hostVars>>

\* One iteration of the loop over the pending jobs.
VisitPending(j) ==
  /\ tick = "schedule"
  /\ NextInQueue(j)
  /\ todo' = todo \ {j}
  /\ \/ RunnersFor(j) = {} /\ PassOver(j)
     \/ \E rn \in RunnersFor(j) :
          \/ (AtLimit(rn) \/ AvailableHosts(JobPool[j], rn) = {}) /\ PassOver(j)
          \/ ~AtLimit(rn) /\ \E h \in AvailableHosts(JobPool[j], rn) : Schedule(j, rn, h)
  /\ UNCHANGED <<tick, agentVars>>

ProvisioningOver(j) == phase[j] = "Provisioning" /\ "created" \in late[j]
RunningOver(j)      == phase[j] = "Running" /\ j \in Limited /\ "run" \in late[j]
HeartbeatOver(j)    == phase[j] = "Running" /\ "beat" \in late[j]

FailProvisioning(j) ==
  /\ tick = "provisioning"
  /\ ProvisioningOver(j)
  /\ Finish(j, "Failed")
  /\ UNCHANGED <<agentVars, tickVars>>

TimeOutRunning(j) ==
  /\ tick = "running"
  /\ RunningOver(j)
  /\ Finish(j, "TimedOut")
  /\ UNCHANGED <<agentVars, tickVars>>

FailHeartbeat(j) ==
  /\ tick = "heartbeat"
  /\ HeartbeatOver(j)
  /\ Finish(j, "Failed")
  /\ UNCHANGED <<agentVars, tickVars>>

\* A pool is idle when no job of it is pending or active and one has finished;
\* whether idleTimeout has since elapsed is the clock's choice.
IdlePool(p) ==
  /\ \A j \in Jobs : JobPool[j] = p => phase[j] \in Terminal \cup {"Absent"}
  /\ \E j \in Jobs : JobPool[j] = p /\ phase[j] \in Terminal

PowerOffIdle(rn) ==
  /\ tick = "idle"
  /\ runner[rn] # "Absent" /\ rn \in PowersOff
  /\ IdlePool(RunnerPool[rn])
  /\ online \cap FreeHosts(RunnerPool[rn]) # {}
  /\ online' = online \ FreeHosts(RunnerPool[rn])
  /\ UNCHANGED <<jobVars, late, hrVars, runner, hosts, agentVars, tickVars>>

\* The runner's work hours have begun: the calendar's choice.
PowerOnScheduled(rn) ==
  /\ tick = "online"
  /\ runner[rn] # "Absent" /\ rn \in Scheduled
  /\ online' = online \cup (FreeHosts(RunnerPool[rn]) \cap hosts)
  /\ online' # online
  /\ UNCHANGED <<jobVars, late, hrVars, runner, hosts, agentVars, tickVars>>

\* The tick moves on when the current loop has nothing left to visit.
Advance ==
  /\ \/ tick = "schedule" /\ todo = {} /\ tick' = "provisioning"
     \/ tick = "provisioning" /\ (\A j \in Jobs : ~ProvisioningOver(j)) /\ tick' = "running"
     \/ tick = "running" /\ (\A j \in Jobs : ~RunningOver(j)) /\ tick' = "heartbeat"
     \/ tick = "heartbeat" /\ (\A j \in Jobs : ~HeartbeatOver(j)) /\ tick' = "idle"
     \/ tick = "idle" /\ tick' = "online"
     \/ tick = "online" /\ tick' = "off"
  /\ UNCHANGED <<jobVars, late, hrVars, runner, hostVars, agentVars, todo>>

-----------------------------------------------------------------------------
(* Agents.  A host is identified to the handlers by its source address.    *)
(* An agent polls, runs the one script it is given, reports and exits; the *)
(* next agent on that host is started by the next boot.                    *)

\* The host boots, or reboots: what ran on it is gone.
Boot(h) ==
  /\ h \in online
  /\ polling' = polling \cup {h}
  /\ executing' = [executing EXCEPT ![h] = NoJob]
  /\ UNCHANGED <<jobVars, late, hrVars, runner, hostVars, tickVars>>

\* The agent is gone: it gave up polling, its host lost power, its script ended
\* and the report was lost or refused.
AgentGone(h) ==
  /\ h \in polling \/ executing[h] # NoJob
  /\ polling' = polling \ {h}
  /\ executing' = [executing EXCEPT ![h] = NoJob]
  /\ UNCHANGED <<jobVars, late, hrVars, runner, hostVars, tickVars>>

\* GET agent/work: the agent is handed a busy job of its host, and a job that was
\* provisioning is running from then on.  The answer may be lost on its way.
AgentWork(h, j) ==
  /\ Unlocked
  /\ h \in polling /\ h \in hosts
  /\ j \in JobsOn(h, Busy)
  /\ phase' = [phase EXCEPT ![j] = "Running"]
  /\ late' = IF phase[j] = "Provisioning" THEN [late EXCEPT ![j] = {}] ELSE late
  /\ \/ /\ polling' = polling \ {h}
        /\ executing' = [executing EXCEPT ![h] = j]
     \/ UNCHANGED agentVars
  /\ UNCHANGED <<bmhRef, runnerRef, hrVars, runner, hostVars, tickVars>>

\* POST agent/heartbeat and POST agent/logs renew the heartbeat of a running job
\* of the calling host.
AgentHeartbeat(h, j) ==
  /\ Unlocked
  /\ executing[h] # NoJob /\ h \in hosts
  /\ j \in JobsOn(h, {"Running"})
  /\ "beat" \in late[j]
  /\ late' = [late EXCEPT ![j] = @ \ {"beat"}]
  /\ UNCHANGED <<jobVars, hrVars, runner, hostVars, agentVars, tickVars>>

\* POST agent/complete ends a running job of the calling host.
AgentComplete(h, j, outcome) ==
  /\ Unlocked
  /\ executing[h] # NoJob /\ h \in hosts
  /\ j \in JobsOn(h, {"Running"})
  /\ Finish(j, outcome)
  /\ executing' = [executing EXCEPT ![h] = NoJob]
  /\ UNCHANGED <<polling, tickVars>>

\* Time passes: a deadline of job j goes by.  Creation matters until the job runs,
\* the other two while it runs.
Expire(j, d) ==
  /\ d \notin late[j]
  /\ \/ d = "created" /\ phase[j] \in {"Pending", "Provisioning"}
     \/ d = "run" /\ phase[j] = "Running" /\ j \in Limited
     \/ d = "beat" /\ phase[j] = "Running"
  /\ late' = [late EXCEPT ![j] = @ \cup {d}]
  /\ UNCHANGED <<jobVars, hrVars, runner, hostVars, agentVars, tickVars>>

-----------------------------------------------------------------------------
(* The subsystem starts, or restarts, with any configuration the handlers  *)
(* can have built, and no jobs.                                            *)
Init ==
  /\ phase = [j \in Jobs |-> "Absent"]
  /\ bmhRef = [j \in Jobs |-> NoHost]
  /\ runnerRef = [j \in Jobs |-> NoRunner]
  /\ late = [j \in Jobs |-> {}]
  /\ hosts \in SUBSET Hosts
  /\ hrHost \in [Reservations -> hosts \cup {NoHost}]
  /\ \A r, q \in Reservations : r # q /\ hrHost[r] = hrHost[q] => hrHost[r] = NoHost
  /\ hrPool \in [Reservations -> Pools]
  /\ activeJob = [r \in Reservations |-> NoJob]
  /\ runner \in [Runners -> {"Absent", "Active"}]
  /\ online = {}
  /\ polling = {}
  /\ executing = [h \in Hosts |-> NoJob]
  /\ tick = "off"
  /\ todo = {}

JobNext == \E j \in Jobs : CreateJob(j) \/ CancelJob(j) \/ DeleteJob(j)

AdminNext ==
  \/ \E r \in Reservations : \/ DeleteReservation(r)
                             \/ \E h \in Hosts, p \in Pools : CreateReservation(r, h, p)
  \/ \E rn \in Runners : \/ DeleteRunner(rn)
                         \/ \E ph \in {"Active", "Suspended"} : SetRunner(rn, ph)
  \/ \E h \in Hosts : CreateHost(h) \/ DeleteHost(h)

TickNext ==
  \/ BeginTick
  \/ \E j \in Jobs : \/ VisitPending(j) \/ FailProvisioning(j)
                     \/ TimeOutRunning(j) \/ FailHeartbeat(j)
  \/ \E rn \in Runners : PowerOffIdle(rn) \/ PowerOnScheduled(rn)
  \/ Advance

AgentNext ==
  \E h \in Hosts :
    \/ Boot(h) \/ AgentGone(h)
    \/ \E j \in Jobs : \/ AgentWork(h, j) \/ AgentHeartbeat(h, j)
                       \/ \E o \in {"Completed", "Failed"} : AgentComplete(h, j, o)

TimeNext == \E j \in Jobs, d \in Deadlines : Expire(j, d)

ServiceNext == JobNext \/ TickNext \/ AgentNext \/ TimeNext
Next == ServiceNext \/ AdminNext

Spec == Init /\ [][Next]_vars

-----------------------------------------------------------------------------
(* Safety.                                                                 *)

(* "Claims a BMH for a pool - prevents double-booking" (README.md:422).  When
   no runner may overflow, no host serves two jobs at once, whatever is
   created, cancelled, deleted or timed out in between. *)
HostExclusive ==
  \A j, k \in BusyJobs : j # k => bmhRef[j] # bmhRef[k]

(* status.activeJob is the "currently running job key" (hostreservation_crd.go:42):
   a reservation that names a job is the reservation of that job's host, and the job
   still runs there.  Otherwise the host is never given out again and the
   reservation cannot be deleted. *)
LeaseBacked ==
  \A r \in Reservations :
    activeJob[r] # NoJob =>
      /\ activeJob[r] \in BusyJobs
      /\ hrHost[r] = bmhRef[activeJob[r]]

(* Without overflow the converse holds: the host of every busy job is reserved
   in its name, so that the next tick does not hand it out. *)
BusyIsLeased ==
  \A j \in BusyJobs :
    \E r \in Reservations : hrHost[r] = bmhRef[j] /\ activeJob[r] = j

(* maxConcurrent: the busy jobs of a pool never exceed the limit of the runner
   that the youngest of them was admitted by, although any of several runners
   may admit a job and runners come and go. *)
PoolLimit ==
  \A p \in Pools :
    ActiveInPool(p) # {} =>
      \E j \in ActiveInPool(p) :
        LET limit == MaxConcurrent[runnerRef[j]]
        IN limit = 0 \/ Cardinality(ActiveInPool(p)) <= limit

(* A runner with busy jobs is not deleted (jobrunner_crd.go:385-395), and serves only
   its own pool: a busy job always has its runner to be counted against. *)
BusyHasRunner ==
  \A j \in BusyJobs :
    /\ runnerRef[j] \in Runners
    /\ runner[runnerRef[j]] # "Absent"
    /\ RunnerPool[runnerRef[j]] = JobPool[j]

(* The handlers know an agent by its address only (job_crd.go:508-530).  A running
   job of a host whose agent runs a script is the job that script belongs to: a
   report is never credited to a later job of the same host. *)
ReportsOwnJob ==
  \A h \in Hosts :
    executing[h] # NoJob => JobsOn(h, {"Running"}) \subseteq {executing[h]}

(* Priority: in a pool that one runner serves, no tick starts a job and leaves a
   job of higher priority waiting. *)
SoleRunner(j) == \A rn, rm \in RunnersFor(j) : rn = rm
NoOvertaking ==
  [][\A j, k \in Jobs :
       /\ phase[j] = "Pending" /\ phase'[j] = "Provisioning"
       /\ JobPool[k] = JobPool[j] /\ SoleRunner(j)
       /\ phase[k] = "Pending"
       => Priority[k] <= Priority[j]]_vars

(* The tick never powers off a host that a job is using: only an operator who
   deletes the host can.  checkIdleRunners looks at the jobs of the pool, not at
   those of the host, and a host moves from pool to pool with its reservations.
   This holds where no runner overflows, whatever the pools; with overflow, the
   host that a job took may be reserved for another pool and goes off with it. *)
PowerOffSafe ==
  [][\A h \in online \ online' : h \in hosts' => JobsOn(h, Busy) = {}]_vars

-----------------------------------------------------------------------------
(* Liveness.  The tick runs every ten seconds as long as the process lives,   *)
(* every loop in it is finite, and the clock does not stop.                   *)
Fairness ==
  /\ WF_vars(TickNext)
  /\ \A j \in Jobs, d \in {"created", "run"} : WF_vars(Expire(j, d))

FairSpec == Spec /\ Fairness

(* A job with a timeout gives its reservation back, whatever becomes of the agent,
   the host or the runner. *)
LeaseEnds ==
  \A j \in Limited, r \in Reservations : activeJob[r] = j ~> activeJob[r] # j

(* The one job of highest priority leaves the queue of a pool that keeps a reserved
   host and its runners active, however many jobs come and go behind it. *)
InService(p) ==
  /\ Reserved(p) # {}
  /\ \A rn \in Runners : RunnerPool[rn] = p => runner[rn] = "Active"
TopPriorityServed ==
  \A j \in Jobs :
    (\A k \in Jobs \ {j} : JobPool[k] = JobPool[j] => Priority[k] < Priority[j])
    => ([]InService(JobPool[j]) => (phase[j] = "Pending" ~> phase[j] # "Pending"))
=============================================================================
