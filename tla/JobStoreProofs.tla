---------------------------- MODULE JobStoreProofs ----------------------------
(***************************************************************************)
(* Machine-checked safety of the job subsystem over its store, crashes     *)
(* between any two writes included.  A crash rolls the jobs back to what   *)
(* the store holds while the reservations may be ahead of them, so that    *)
(* of the core invariant no more than the types and the tick's queue is    *)
(* left to rely on.                                                        *)
(***************************************************************************)
EXTENDS JobStore, JobSchedulingProofs

USE NamesAssumption, SpecsAssumption DEF jobVars, hrVars, hostVars, agentVars, tickVars

BusyIn(ph) == {j \in Jobs : ph[j] \in Busy}

\* PoolLimit is not inductive: when the job that vouches for a pool ends, another one must,
\* with the limit of its own runner.  What is kept is that in every set of busy jobs of one
\* pool there is one whose runner would allow as many.
Vouched(ph, ref) ==
  \A p \in Pools : \A S \in SUBSET {j \in BusyIn(ph) : JobPool[j] = p} :
    S # {} => \E j \in S : MaxConcurrent[ref[j]] = 0 \/ Cardinality(S) <= MaxConcurrent[ref[j]]

LimitInv ==
  /\ IsFiniteSet(BusyIn(phase)) /\ Vouched(phase, runnerRef)
  /\ IsFiniteSet(BusyIn(disk.phase)) /\ Vouched(disk.phase, disk.runnerRef)

DiskTypeOK ==
  disk \in [phase : [Jobs -> Phases], bmhRef : [Jobs -> Hosts \cup {NoHost}],
            runnerRef : [Jobs -> Runners \cup {NoRunner}],
            activeJob : [Reservations -> Jobs \cup {NoJob}], online : SUBSET Hosts]

\* What is recorded as ended has ended, and at most been deleted since.
DiskEnded ==
  \A j \in Jobs : disk.phase[j] \in Terminal => phase[j] \in Terminal \cup {"Absent"}

StoreInv == TypeOK /\ DiskTypeOK /\ TodoPending /\ LimitInv /\ DiskEnded

-----------------------------------------------------------------------------
\* A busy job fewer takes nothing from the others; the tick admits one more only below the
\* limit of its runner.
LEMMA VouchedStep ==
  ASSUME TypeOK, TodoPending, IsFiniteSet(BusyIn(phase)), Vouched(phase, runnerRef), [Next]_vars
  PROVE  IsFiniteSet(BusyIn(phase)') /\ Vouched(phase, runnerRef)'
  <1>1. BusyIn(phase) = BusyJobs /\ BusyIn(phase)' = BusyJobs'
    BY DEF BusyIn, BusyJobs
  <1>2. CASE BusyJobs' \subseteq BusyJobs /\ \A j \in BusyJobs' : runnerRef'[j] = runnerRef[j]
    <2>1. IsFiniteSet(BusyIn(phase)')
      BY <1>1, <1>2, FS_Subset
    <2>2. \A p \in Pools : \A S \in SUBSET {j \in BusyJobs' : JobPool[j] = p} :
            S \in SUBSET {j \in BusyJobs : JobPool[j] = p}
            /\ \A j \in S : runnerRef'[j] = runnerRef[j]
      BY <1>2
    <2>3. Vouched(phase, runnerRef)'
      <3> SUFFICES ASSUME NEW p \in Pools, NEW S \in SUBSET {j \in BusyJobs' : JobPool[j] = p},
                          S # {}
                   PROVE  \E j \in S : MaxConcurrent[runnerRef'[j]] = 0
                                         \/ Cardinality(S) <= MaxConcurrent[runnerRef'[j]]
        BY <1>1 DEF Vouched
      <3>1. S \in SUBSET {j \in BusyIn(phase) : JobPool[j] = p}
        BY <1>1, <2>2
      <3>2. PICK j \in S : MaxConcurrent[runnerRef[j]] = 0
                             \/ Cardinality(S) <= MaxConcurrent[runnerRef[j]]
        BY <3>1 DEF Vouched
      <3>3. runnerRef'[j] = runnerRef[j]
        BY <1>2, <3>2
      <3> QED
        BY <3>2, <3>3
    <2> QED
      BY <2>1, <2>3
  <1>3. ASSUME NEW j \in Jobs \ BusyJobs, NEW rn \in RunnersFor(j), ~AtLimit(rn),
               BusyJobs' = BusyJobs \cup {j}, runnerRef' = [runnerRef EXCEPT ![j] = rn]
        PROVE  IsFiniteSet(BusyIn(phase)') /\ Vouched(phase, runnerRef)'
    <2>1. IsFiniteSet(BusyJobs) /\ IsFiniteSet(BusyJobs')
      BY <1>1, <1>3, FS_AddElement
    <2>2. rn \in Runners /\ RunnerPool[rn] = JobPool[j] /\ runnerRef'[j] = rn
      BY <1>3 DEF RunnersFor, TypeOK
    <2>3. ASSUME NEW p \in Pools, NEW S \in SUBSET {i \in BusyJobs' : JobPool[i] = p}, S # {}
          PROVE  \E i \in S : MaxConcurrent[runnerRef'[i]] = 0
                                \/ Cardinality(S) <= MaxConcurrent[runnerRef'[i]]
      <3>1. CASE j \notin S
        <4>1. S \in SUBSET {i \in BusyJobs : JobPool[i] = p}
          BY <1>3, <3>1
        <4>2. \A i \in S : runnerRef'[i] = runnerRef[i]
          BY <1>3, <3>1, <4>1
        <4> QED
          BY <1>1, <2>3, <4>1, <4>2 DEF Vouched
      <3>2. CASE j \in S
        <4> DEFINE pool == ActiveInPool(JobPool[j])
        <4>1. pool \in SUBSET BusyJobs /\ S \in SUBSET (pool \cup {j}) /\ j \notin pool
          BY <1>3, <3>2 DEF ActiveInPool
        <4> HIDE DEF pool
        <4>2. IsFiniteSet(pool) /\ Cardinality(pool) \in Nat
          BY <2>1, <4>1, FS_Subset, FS_CardinalityType
        <4>3. IsFiniteSet(pool \cup {j}) /\ Cardinality(pool \cup {j}) = Cardinality(pool) + 1
          BY <4>1, <4>2, FS_AddElement
        <4>4. Cardinality(S) <= Cardinality(pool) + 1 /\ Cardinality(S) \in Nat
          BY <4>1, <4>3, FS_Subset, FS_CardinalityType
        <4>5. MaxConcurrent[rn] \in Nat
              /\ (MaxConcurrent[rn] = 0 \/ Cardinality(pool) < MaxConcurrent[rn])
          BY <1>3, <2>2, <4>2 DEF AtLimit, pool
        <4> QED
          BY <2>2, <3>2, <4>2, <4>4, <4>5
      <3> QED
        BY <3>1, <3>2
    <2> QED
      BY <1>1, <2>1, <2>3 DEF Vouched
  <1> QED
    BY <1>2, <1>3, BusyStep

LEMMA StoreInitInv == StoreInit => StoreInv
  <1> SUFFICES ASSUME StoreInit PROVE StoreInv
    OBVIOUS
  <1>1. TypeOK
    BY TypeInit DEF StoreInit
  <1>2. disk.phase = phase /\ disk.runnerRef = runnerRef /\ DiskTypeOK
    BY <1>1 DEF StoreInit, Memory, TypeOK, DiskTypeOK
  <1>3. BusyIn(phase) = {}
    BY DEF StoreInit, Init, BusyIn, Busy
  <1>4. LimitInv
    BY <1>2, <1>3, FS_EmptySet DEF LimitInv, Vouched
  <1>5. TodoPending /\ DiskEnded
    BY <1>2 DEF StoreInit, Init, TodoPending, DiskEnded
  <1> QED
    BY <1>1, <1>2, <1>4, <1>5 DEF StoreInv

\* A step of the program, from a memory that is all written.
LEMMA StepInv ==
  ASSUME StoreInv, Step
  PROVE  StoreInv'
  <1> USE DEF StoreInv
  <1>1. TypeOK' /\ TodoPending'
    BY TypeNext, TodoNext DEF Step
  <1>2. disk' = disk /\ disk.phase = phase
    BY DEF Step, Clean, Memory
  <1>3. LimitInv'
    <2>1. IsFiniteSet(BusyIn(phase)') /\ Vouched(phase, runnerRef)'
      BY VouchedStep DEF Step, LimitInv
    <2> QED
      BY <1>2, <2>1 DEF LimitInv, BusyIn, Vouched
  <1>4. DiskEnded'
    BY <1>2, EndedStep DEF Step, DiskEnded
  <1> QED
    BY <1>1, <1>2, <1>3, <1>4 DEF DiskTypeOK

\* The writes that follow it, in their order.
LEMMA PersistInv ==
  ASSUME StoreInv, PersistReservations \/ PersistHosts \/ PersistJobs
  PROVE  StoreInv'
  <1> USE DEF StoreInv
  <1>1. UNCHANGED vars
    BY DEF PersistReservations, PersistHosts, PersistJobs
  <1>2. TypeOK' /\ TodoPending'
    BY <1>1 DEF vars, TypeOK, TodoPending
  <1>3. DiskTypeOK'
    BY DEF PersistReservations, PersistHosts, PersistJobs, Memory, TypeOK, DiskTypeOK
  <1>4. \/ disk'.phase = disk.phase /\ disk'.runnerRef = disk.runnerRef
        \/ disk'.phase = phase /\ disk'.runnerRef = runnerRef
    BY DEF PersistReservations, PersistHosts, PersistJobs, Memory, DiskTypeOK
  <1>5. BusyIn(phase)' = BusyIn(phase) /\ (Vouched(phase, runnerRef)' <=> Vouched(phase, runnerRef))
    BY <1>1 DEF vars, BusyIn, Vouched
  <1>6. CASE disk'.phase = disk.phase /\ disk'.runnerRef = disk.runnerRef
    <2>1. BusyIn(disk.phase)' = BusyIn(disk.phase)
          /\ (Vouched(disk.phase, disk.runnerRef)' <=> Vouched(disk.phase, disk.runnerRef))
      BY <1>6 DEF BusyIn, Vouched
    <2>2. LimitInv'
      BY <1>5, <2>1 DEF LimitInv
    <2>3. DiskEnded'
      BY <1>1, <1>6 DEF vars, DiskEnded
    <2> QED
      BY <1>2, <1>3, <2>2, <2>3
  <1>7. CASE disk'.phase = phase /\ disk'.runnerRef = runnerRef
    <2>1. BusyIn(disk.phase)' = BusyIn(phase)
          /\ (Vouched(disk.phase, disk.runnerRef)' <=> Vouched(phase, runnerRef))
      BY <1>7 DEF BusyIn, Vouched
    <2>2. LimitInv'
      BY <1>5, <2>1 DEF LimitInv
    <2>3. DiskEnded'
      BY <1>1, <1>7 DEF vars, DiskEnded
    <2> QED
      BY <1>2, <1>3, <2>2, <2>3
  <1> QED
    BY <1>4, <1>6, <1>7

LEMMA CrashInv ==
  ASSUME StoreInv, Crash
  PROVE  StoreInv'
  <1> USE DEF StoreInv
  <1>1. /\ phase' = disk.phase /\ runnerRef' = disk.runnerRef
        /\ disk'.phase = disk.phase /\ disk'.runnerRef = disk.runnerRef
    BY DEF Crash, DiskTypeOK
  <1>2. TypeOK' /\ DiskTypeOK'
    BY DEF Crash, TypeOK, DiskTypeOK, TickSteps
  <1>3. TodoPending'
    BY DEF Crash, TodoPending
  <1>4. LimitInv' /\ DiskEnded'
    BY <1>1 DEF LimitInv, BusyIn, Vouched, DiskEnded
  <1> QED
    BY <1>2, <1>3, <1>4

LEMMA StoreInvariant == StoreSpec => []StoreInv
  <1>1. StoreInv /\ [StoreNext]_storeVars => StoreInv'
    <2> SUFFICES ASSUME StoreInv, [StoreNext]_storeVars PROVE StoreInv'
      OBVIOUS
    <2>1. CASE UNCHANGED storeVars
      <3>1. TypeOK' /\ DiskTypeOK'
        BY <2>1 DEF storeVars, vars, StoreInv, TypeOK, DiskTypeOK
      <3>2. LimitInv'
        BY <2>1 DEF storeVars, vars, StoreInv, LimitInv, BusyIn, Vouched
      <3>3. TodoPending' /\ DiskEnded'
        BY <2>1 DEF storeVars, vars, StoreInv, TodoPending, DiskEnded
      <3> QED
        BY <2>1, <3>1, <3>2, <3>3 DEF StoreInv
    <2> QED
      BY <2>1, StepInv, PersistInv, CrashInv DEF StoreNext
  <1> QED
    BY <1>1, StoreInitInv, PTL DEF StoreSpec

-----------------------------------------------------------------------------
(* No pool has more busy jobs than one of them was admitted under, whichever runners admit
   and go, whichever jobs end first, and whatever a crash rolls back. *)
THEOREM PoolLimitTheorem == StoreSpec => []PoolLimit
  <1>1. StoreInv => PoolLimit
    <2> SUFFICES ASSUME StoreInv, NEW p \in Pools, ActiveInPool(p) # {}
                 PROVE  \E j \in ActiveInPool(p) :
                          MaxConcurrent[runnerRef[j]] = 0
                            \/ Cardinality(ActiveInPool(p)) <= MaxConcurrent[runnerRef[j]]
      BY DEF PoolLimit
    <2>1. ActiveInPool(p) = {j \in BusyIn(phase) : JobPool[j] = p}
      BY DEF ActiveInPool, BusyJobs, BusyIn
    <2> QED
      BY <2>1 DEF StoreInv, LimitInv, Vouched
  <1> QED
    BY <1>1, StoreInvariant, PTL

(* A job that is recorded as ended never runs again: no crash brings it back, for nothing
   but its deletion is ever written over it. *)
THEOREM EndedStaysTheorem == StoreSpec => EndedStaysEnded
  <1>1. StoreInv /\ [StoreNext]_storeVars =>
          \A j \in Jobs :
            disk.phase[j] \in Terminal => disk'.phase[j] \in Terminal \cup {"Absent"}
    <2> SUFFICES ASSUME StoreInv, [StoreNext]_storeVars
                 PROVE  disk'.phase = disk.phase \/ disk'.phase = phase
      BY DEF StoreInv, DiskEnded
    <2> QED
      BY DEF StoreNext, Step, PersistReservations, PersistHosts, PersistJobs, Crash, Memory,
             storeVars, StoreInv, DiskTypeOK
  <1> QED
    BY <1>1, StoreInvariant, PTL DEF StoreSpec, EndedStaysEnded
-----------------------------------------------------------------------------
(* What a crash leaves of the references between jobs, runners and reservations. *)

\* The runners change only by an operator's request, which spares those of busy jobs.
LEMMA RunnersStep ==
  ASSUME TypeOK, [Next]_vars, NEW j \in BusyJobs,
         runnerRef[j] \in Runners, runner[runnerRef[j]] # "Absent"
  PROVE  runner'[runnerRef[j]] # "Absent"
  <1>1. CASE runner' = runner
    BY <1>1
  <1>2. ASSUME NEW rn \in Runners, DeleteRunner(rn) PROVE runner'[runnerRef[j]] # "Absent"
    BY <1>2 DEF DeleteRunner, TypeOK
  <1>3. ASSUME NEW rn \in Runners, NEW ph \in {"Active", "Suspended"}, SetRunner(rn, ph)
        PROVE  runner'[runnerRef[j]] # "Absent"
    BY <1>3 DEF SetRunner, TypeOK
  <1>4. CASE JobNext \/ TimeNext \/ UNCHANGED vars
    BY <1>1, <1>4 DEF JobNext, TimeNext, CreateJob, CancelJob, DeleteJob, Finish, Expire, vars
  <1>5. CASE TickNext
    BY <1>1, <1>5 DEF TickNext, BeginTick, VisitPending, PassOver, Schedule, FailProvisioning,
                      TimeOutRunning, FailHeartbeat, Finish, PowerOffIdle, PowerOnScheduled,
                      Advance
  <1>6. CASE AgentNext
    BY <1>1, <1>6 DEF AgentNext, Boot, AgentGone, AgentWork, AgentHeartbeat, AgentComplete,
                      Finish
  <1>7. CASE AdminNext
    BY <1>1, <1>2, <1>3, <1>7 DEF AdminNext, CreateReservation, DeleteReservation, CreateHost,
                                  DeleteHost
  <1> QED
    BY <1>4, <1>5, <1>6, <1>7 DEF Next, ServiceNext

LEMMA BusyHasRunnerStep ==
  ASSUME TypeOK, TodoPending, BusyHasRunner, [Next]_vars
  PROVE  BusyHasRunner'
  <1>1. CASE BusyJobs' \subseteq BusyJobs /\ \A j \in BusyJobs' : runnerRef'[j] = runnerRef[j]
    BY <1>1, RunnersStep DEF BusyHasRunner
  <1>2. CASE JobIsScheduled
    <2>1. PICK j \in todo : \E rn \in RunnersFor(j) :
            phase[j] = "Pending" /\ \E h : Schedule(j, rn, h)
      BY <1>2 DEF JobIsScheduled
    <2>2. PICK rn \in RunnersFor(j) : \E h : Schedule(j, rn, h)
      BY <2>1
    <2>3. j \in Jobs \ BusyJobs /\ rn \in Runners /\ runner[rn] # "Absent"
          /\ RunnerPool[rn] = JobPool[j]
      BY <2>1, <2>2 DEF TypeOK, BusyJobs, Busy, RunnersFor
    <2>4. /\ BusyJobs' = BusyJobs \cup {j}
          /\ runnerRef' = [runnerRef EXCEPT ![j] = rn] /\ runner' = runner
      BY <2>2, <2>3 DEF Schedule, TypeOK, BusyJobs, Busy
    <2> QED
      BY <2>3, <2>4 DEF BusyHasRunner, TypeOK
  <1> QED
    BY <1>1, <1>2, BusyStep

\* A reservation is given to a job only while it has none, and one host has one reservation.
LEMMA LeaseStep ==
  ASSUME TypeOK, TodoPending, OneReservationPerHost, [Next]_vars
  PROVE  /\ OneReservationPerHost'
         /\ \A r \in Reservations : activeJob[r] # NoJob => activeJob'[r] \in {NoJob, activeJob[r]}
  <1> DEFINE Kept == \A r \in Reservations :
                       activeJob[r] # NoJob => activeJob'[r] \in {NoJob, activeJob[r]}
  <1>1. ASSUME UNCHANGED <<hrHost, activeJob>> PROVE OneReservationPerHost' /\ Kept
    BY <1>1 DEF OneReservationPerHost
  <1>2. ASSUME NEW j \in Jobs, NEW o \in Terminal, Finish(j, o)
        PROVE  OneReservationPerHost' /\ Kept
    BY <1>2 DEF Finish, Released, OneReservationPerHost
  <1>3. ASSUME NEW j \in Jobs, VisitPending(j) PROVE OneReservationPerHost' /\ Kept
    <2>1. CASE PassOver(j)
      BY <1>1, <2>1 DEF PassOver
    <2>2. ASSUME NEW rn \in RunnersFor(j), NEW h \in AvailableHosts(JobPool[j], rn),
                 Schedule(j, rn, h)
          PROVE  OneReservationPerHost' /\ Kept
      <3>1. hrHost' = hrHost
            /\ \A r \in Reservations : activeJob'[r] = IF hrHost[r] = h THEN j ELSE activeJob[r]
        BY <2>2 DEF Schedule
      <3>2. \A r \in Reservations : hrHost[r] = h => activeJob[r] = NoJob
        BY AvailableHasNoJob DEF RunnersFor
      <3> QED
        BY <3>1, <3>2 DEF OneReservationPerHost
    <2> QED
      BY <1>3, <2>1, <2>2 DEF VisitPending
  <1>4. ASSUME NEW r \in Reservations, NEW h \in Hosts, NEW p \in Pools,
               CreateReservation(r, h, p)
        PROVE  OneReservationPerHost' /\ Kept
    BY <1>4 DEF CreateReservation, OneReservationPerHost, TypeOK
  <1>5. ASSUME NEW r \in Reservations, DeleteReservation(r)
        PROVE  OneReservationPerHost' /\ Kept
    BY <1>5 DEF DeleteReservation, OneReservationPerHost, TypeOK
  <1>6. CASE AdminNext
    BY <1>1, <1>4, <1>5, <1>6 DEF AdminNext, DeleteRunner, SetRunner, CreateHost, DeleteHost
  <1>7. ASSUME NEW j \in Jobs,
               CancelJob(j) \/ FailProvisioning(j) \/ TimeOutRunning(j) \/ FailHeartbeat(j)
        PROVE  OneReservationPerHost' /\ Kept
    BY <1>2, <1>7 DEF CancelJob, FailProvisioning, TimeOutRunning, FailHeartbeat, Terminal
  <1>8. CASE JobNext
    BY <1>1, <1>7, <1>8 DEF JobNext, CreateJob, DeleteJob
  <1>9. CASE TickNext
    BY <1>1, <1>3, <1>7, <1>9 DEF TickNext, BeginTick, PowerOffIdle, PowerOnScheduled, Advance
  <1>10. ASSUME NEW h \in Hosts, NEW j \in Jobs, NEW o \in {"Completed", "Failed"},
                AgentComplete(h, j, o)
         PROVE  OneReservationPerHost' /\ Kept
    BY <1>2, <1>10 DEF AgentComplete, Terminal
  <1>11. CASE AgentNext
    BY <1>1, <1>10, <1>11 DEF AgentNext, Boot, AgentGone, AgentWork, AgentHeartbeat
  <1>12. CASE TimeNext \/ UNCHANGED vars
    BY <1>1, <1>12 DEF TimeNext, Expire, vars
  <1> QED
    BY <1>6, <1>8, <1>9, <1>11, <1>12 DEF Next, ServiceNext

\* What the store says of the busy jobs' runners, should a crash make it the memory.
DiskHasRunner ==
  \A j \in BusyIn(disk.phase) :
    /\ disk.runnerRef[j] \in Runners
    /\ runner[disk.runnerRef[j]] # "Absent"
    /\ RunnerPool[disk.runnerRef[j]] = JobPool[j]

\* A reservation and its record may differ by a job taken or given back, never by one job
\* for another.
DiskLease ==
  \A r \in Reservations :
    \/ disk.activeJob[r] = NoJob \/ activeJob[r] = NoJob
    \/ disk.activeJob[r] = activeJob[r]

ReferencesInv == StoreInv /\ BusyHasRunner /\ DiskHasRunner /\ OneReservationPerHost /\ DiskLease

NotPassedOn ==
  \A r \in Reservations : activeJob[r] # NoJob => activeJob'[r] \in {NoJob, activeJob[r]}

LEMMA ReferencesNext ==
  ASSUME ReferencesInv, [StoreNext]_storeVars
  PROVE  BusyHasRunner' /\ DiskHasRunner' /\ OneReservationPerHost' /\ DiskLease' /\ NotPassedOn
  <1> USE DEF ReferencesInv, StoreInv
  <1>1. CASE Step
    <2>1. /\ disk' = disk /\ disk.phase = phase /\ disk.runnerRef = runnerRef
          /\ disk.activeJob = activeJob
      BY <1>1 DEF Step, Clean, Memory
    <2>2. BusyHasRunner' /\ OneReservationPerHost' /\ NotPassedOn
      BY <1>1, BusyHasRunnerStep, LeaseStep DEF Step, NotPassedOn
    <2>3. DiskHasRunner'
      <3>1. \A j \in BusyJobs : runner'[runnerRef[j]] # "Absent"
        BY <1>1, RunnersStep DEF Step, BusyHasRunner
      <3> QED
        BY <2>1, <3>1 DEF DiskHasRunner, BusyIn, BusyJobs
    <2>4. DiskLease'
      BY <2>1, <2>2 DEF DiskLease, NotPassedOn
    <2> QED
      BY <2>2, <2>3, <2>4
  <1>2. CASE PersistReservations \/ PersistHosts \/ PersistJobs
    <2>1. UNCHANGED vars
      BY <1>2 DEF PersistReservations, PersistHosts, PersistJobs
    <2>2. BusyHasRunner' /\ OneReservationPerHost' /\ NotPassedOn
      BY <2>1 DEF vars, BusyHasRunner, BusyJobs, OneReservationPerHost, NotPassedOn
    <2>3. \/ disk'.phase = disk.phase /\ disk'.runnerRef = disk.runnerRef
          \/ disk'.phase = phase /\ disk'.runnerRef = runnerRef
      BY <1>2 DEF PersistReservations, PersistHosts, PersistJobs, Memory, DiskTypeOK
    <2>4. DiskHasRunner'
      <3>1. CASE disk'.phase = disk.phase /\ disk'.runnerRef = disk.runnerRef
        BY <2>1, <3>1 DEF vars, DiskHasRunner, BusyIn
      <3>2. CASE disk'.phase = phase /\ disk'.runnerRef = runnerRef
        BY <2>1, <3>2 DEF vars, DiskHasRunner, BusyHasRunner, BusyIn, BusyJobs
      <3> QED
        BY <2>3, <3>1, <3>2
    <2>5. disk'.activeJob = activeJob \/ disk'.activeJob = disk.activeJob
      BY <1>2 DEF PersistReservations, PersistHosts, PersistJobs, Memory, DiskTypeOK
    <2>6. DiskLease'
      BY <2>1, <2>5 DEF vars, DiskLease
    <2> QED
      BY <2>2, <2>4, <2>6
  <1>3. CASE Crash
    <2>1. /\ phase' = disk.phase /\ runnerRef' = disk.runnerRef /\ activeJob' = disk.activeJob
          /\ disk'.phase = disk.phase /\ disk'.runnerRef = disk.runnerRef
          /\ disk'.activeJob = disk.activeJob /\ UNCHANGED <<hrHost, runner>>
      BY <1>3 DEF Crash, DiskTypeOK
    <2>2. BusyHasRunner' /\ DiskHasRunner'
      BY <2>1 DEF BusyHasRunner, DiskHasRunner, BusyIn, BusyJobs
    <2>3. OneReservationPerHost' /\ DiskLease' /\ NotPassedOn
      BY <2>1 DEF OneReservationPerHost, DiskLease, NotPassedOn
    <2> QED
      BY <2>2, <2>3
  <1>4. CASE UNCHANGED storeVars
    BY <1>4 DEF storeVars, vars, BusyHasRunner, BusyJobs, DiskHasRunner, BusyIn,
                OneReservationPerHost, DiskLease, NotPassedOn
  <1> QED
    BY <1>1, <1>2, <1>3, <1>4 DEF StoreNext

LEMMA ReferencesInvariant == StoreSpec => []ReferencesInv
  <1>1. StoreInit => ReferencesInv
    <2> SUFFICES ASSUME StoreInit PROVE ReferencesInv
      OBVIOUS
    <2>1. BusyHasRunner /\ OneReservationPerHost
      BY CoreInit DEF StoreInit, CoreInv
    <2>2. DiskHasRunner /\ DiskLease
      BY <2>1 DEF StoreInit, Memory, BusyHasRunner, DiskHasRunner, BusyIn, BusyJobs, DiskLease
    <2> QED
      BY <2>1, <2>2, StoreInitInv DEF ReferencesInv
  <1>2. ReferencesInv /\ [StoreNext]_storeVars /\ StoreInv' => ReferencesInv'
    BY ReferencesNext DEF ReferencesInv
  <1> QED
    BY <1>1, <1>2, StoreInvariant, PTL DEF StoreSpec

(* A busy job's runner is never deleted from under it, not even when the job had ended in
   memory and a crash brings it back: until the end is stored no handler runs. *)
THEOREM BusyHasRunnerStored == StoreSpec => []BusyHasRunner
  BY ReferencesInvariant, PTL DEF ReferencesInv

(* A reservation passes from one job to another only by way of no job: whatever a crash
   leaves of a half-written scheduling, a host reserved in the name of one job is not given
   to the next until that name is taken off. *)
LeaseNotPassedOn == [][NotPassedOn]_storeVars
THEOREM LeaseNotPassedOnTheorem == StoreSpec => LeaseNotPassedOn
  <1>1. ReferencesInv /\ [StoreNext]_storeVars => NotPassedOn
    BY ReferencesNext
  <1> QED
    BY <1>1, ReferencesInvariant, PTL DEF StoreSpec, LeaseNotPassedOn
=============================================================================
