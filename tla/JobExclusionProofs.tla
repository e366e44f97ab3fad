--------------------------- MODULE JobExclusionProofs ---------------------------
(***************************************************************************)
(* When no runner may overflow: hosts are exclusive, reports are credited  *)
(* to the job they come from, and JobScheduling implements HostLease.      *)
(***************************************************************************)
EXTENDS JobSchedulingProofs, JobLease

\* The inductive invariant: every busy job is the active job of its host's
\* reservation, and what an agent executes is what runs on its host.
ExclusiveInv == CoreInv /\ BusyIsLeased /\ ReportsOwnJob

USE NamesAssumption, SpecsAssumption DEF jobVars, hrVars, hostVars, agentVars, tickVars

LEMMA LeasedIsExclusive ==
  ASSUME CoreInv, BusyIsLeased
  PROVE  HostExclusive
  <1> SUFFICES ASSUME NEW j \in BusyJobs, NEW k \in BusyJobs, j # k, bmhRef[j] = bmhRef[k]
               PROVE  FALSE
    BY DEF HostExclusive
  <1>1. PICK r \in Reservations : hrHost[r] = bmhRef[j] /\ activeJob[r] = j
    BY DEF BusyIsLeased
  <1>2. PICK q \in Reservations : hrHost[q] = bmhRef[k] /\ activeJob[q] = k
    BY DEF BusyIsLeased
  <1>3. bmhRef[j] # NoHost
    BY DEF CoreInv, BusyHasHost
  <1> QED
    BY <1>1, <1>2, <1>3 DEF CoreInv, OneReservationPerHost

\* Without overflow a host that may be chosen has a reservation.
LEMMA AvailableIsReserved ==
  ASSUME CoreInv, Overflow = {}, NEW p \in Pools, NEW rn \in Runners,
         NEW h \in AvailableHosts(p, rn)
  PROVE  \E r \in Reservations : hrHost[r] = h
  BY FreeHostsFacts DEF CoreInv, AvailableHosts

\* A step that keeps the references of the jobs that stay busy, makes no job busy and
\* takes no reservation from them keeps them leased.
LEMMA KeepsLeases ==
  ASSUME BusyIsLeased, BusyJobs' \subseteq BusyJobs,
         \A j \in BusyJobs' : bmhRef'[j] = bmhRef[j],
         \A j \in BusyJobs', r \in Reservations :
           hrHost[r] = bmhRef[j] /\ activeJob[r] = j
             => hrHost'[r] = hrHost[r] /\ activeJob'[r] = j
  PROVE  BusyIsLeased'
  BY DEF BusyIsLeased

LEMMA FinishLeased ==
  ASSUME CoreInv, BusyIsLeased, NEW j \in Jobs, NEW o \in Terminal, Finish(j, o)
  PROVE  BusyIsLeased'
  <1>1. BusyJobs' = BusyJobs \ {j}
    BY DEF CoreInv, TypeOK, Finish, BusyJobs, Busy, Terminal
  <1> QED
    BY <1>1, KeepsLeases DEF Finish, Released

LEMMA ScheduleLeased ==
  ASSUME CoreInv, BusyIsLeased, Overflow = {}, NEW j \in Jobs, NEW rn \in RunnersFor(j),
         NEW h \in AvailableHosts(JobPool[j], rn), Schedule(j, rn, h)
  PROVE  BusyIsLeased'
  <1>0. rn \in Runners /\ JobPool[j] \in Pools
    BY DEF RunnersFor
  <1>1. BusyJobs' = BusyJobs \cup {j}
    BY DEF CoreInv, TypeOK, Schedule, BusyJobs, Busy
  <1>2. /\ hrHost' = hrHost
        /\ bmhRef' = [bmhRef EXCEPT ![j] = h]
        /\ \A r \in Reservations :
             activeJob'[r] = IF hrHost[r] = h THEN j ELSE activeJob[r]
    BY DEF Schedule
  <1>3. \E r \in Reservations : hrHost'[r] = bmhRef'[j] /\ activeJob'[r] = j
    BY <1>0, <1>2, AvailableIsReserved DEF CoreInv, TypeOK
  <1>4. ASSUME NEW k \in BusyJobs, k # j
        PROVE  \E r \in Reservations : hrHost'[r] = bmhRef'[k] /\ activeJob'[r] = k
    <2>1. PICK r \in Reservations : hrHost[r] = bmhRef[k] /\ activeJob[r] = k
      BY DEF BusyIsLeased
    <2>2. k \in Jobs /\ k # NoJob
      BY DEF BusyJobs
    <2>3. hrHost[r] # h
      BY <1>0, <2>1, <2>2, AvailableHasNoJob DEF CoreInv
    <2> QED
      BY <1>2, <1>4, <2>1, <2>2, <2>3 DEF CoreInv, TypeOK
  <1> QED
    BY <1>1, <1>3, <1>4 DEF BusyIsLeased

LEMMA LeasedNext ==
  ASSUME CoreInv, BusyIsLeased, Overflow = {}, [Next]_vars
  PROVE  BusyIsLeased'
  <1>1. ASSUME UNCHANGED <<jobVars, hrHost, activeJob>> PROVE BusyIsLeased'
    BY <1>1 DEF BusyIsLeased, BusyJobs
  <1>2. ASSUME NEW j \in Jobs, CreateJob(j) \/ DeleteJob(j) PROVE BusyIsLeased'
    <2>1. BusyJobs' = BusyJobs /\ j \notin BusyJobs
      BY <1>2 DEF CoreInv, TypeOK, CreateJob, DeleteJob, BusyJobs, Busy
    <2> QED
      BY <1>2, <2>1, KeepsLeases DEF CreateJob, DeleteJob, CoreInv, TypeOK, BusyJobs
  <1>3. ASSUME NEW j \in Jobs, CancelJob(j) \/ FailProvisioning(j) \/ TimeOutRunning(j)
                               \/ FailHeartbeat(j)
        PROVE  BusyIsLeased'
    BY <1>3, FinishLeased
       DEF CancelJob, FailProvisioning, TimeOutRunning, FailHeartbeat, Terminal
  <1>4. ASSUME NEW r \in Reservations, NEW h \in Hosts, NEW p \in Pools,
               CreateReservation(r, h, p)
        PROVE  BusyIsLeased'
    <2>1. BusyJobs' = BusyJobs /\ UNCHANGED bmhRef
      BY <1>4 DEF CreateReservation, BusyJobs
    <2>2. \A j \in BusyJobs : hrHost[r] # bmhRef[j]
      BY <1>4 DEF CreateReservation, CoreInv, BusyHasHost
    <2> QED
      BY <1>4, <2>1, <2>2, KeepsLeases DEF CreateReservation, CoreInv, TypeOK
  <1>5. ASSUME NEW r \in Reservations, DeleteReservation(r) PROVE BusyIsLeased'
    <2>1. BusyJobs' = BusyJobs /\ UNCHANGED bmhRef
      BY <1>5 DEF DeleteReservation, BusyJobs
    <2>2. \A j \in BusyJobs : activeJob[r] # j
      BY <1>5 DEF DeleteReservation, BusyJobs
    <2> QED
      BY <1>5, <2>1, <2>2, KeepsLeases DEF DeleteReservation, CoreInv, TypeOK
  <1>6. ASSUME NEW j \in Jobs, VisitPending(j) PROVE BusyIsLeased'
    BY <1>1, <1>6, ScheduleLeased DEF VisitPending, PassOver
  <1>7. ASSUME NEW h \in Hosts, NEW j \in Jobs, AgentWork(h, j) PROVE BusyIsLeased'
    <2>1. BusyJobs' = BusyJobs
      BY <1>7 DEF AgentWork, JobsOn, BusyJobs, Busy, CoreInv, TypeOK
    <2> QED
      BY <1>7, <2>1, KeepsLeases DEF AgentWork
  <1>8. ASSUME NEW h \in Hosts, NEW j \in Jobs, NEW o \in {"Completed", "Failed"},
               AgentComplete(h, j, o)
        PROVE  BusyIsLeased'
    BY <1>8, FinishLeased DEF AgentComplete, Terminal
  <1>9. ASSUME NEW rn \in Runners,
               \/ DeleteRunner(rn) \/ SetRunner(rn, "Active") \/ SetRunner(rn, "Suspended")
               \/ PowerOffIdle(rn) \/ PowerOnScheduled(rn)
        PROVE  BusyIsLeased'
    BY <1>1, <1>9 DEF DeleteRunner, SetRunner, PowerOffIdle, PowerOnScheduled
  <1>10. ASSUME NEW h \in Hosts, CreateHost(h) \/ DeleteHost(h) \/ Boot(h) \/ AgentGone(h)
         PROVE  BusyIsLeased'
    BY <1>1, <1>10 DEF CreateHost, DeleteHost, Boot, AgentGone
  <1>11. ASSUME BeginTick \/ Advance \/ UNCHANGED vars PROVE BusyIsLeased'
    BY <1>1, <1>11 DEF BeginTick, Advance, vars
  <1>12. ASSUME NEW h \in Hosts, NEW j \in Jobs, AgentHeartbeat(h, j) PROVE BusyIsLeased'
    BY <1>1, <1>12 DEF AgentHeartbeat
  <1>13. ASSUME NEW j \in Jobs, NEW d \in Deadlines, Expire(j, d) PROVE BusyIsLeased'
    BY <1>1, <1>13 DEF Expire
  <1> QED
    BY <1>2, <1>3, <1>4, <1>5, <1>6, <1>7, <1>8, <1>9, <1>10, <1>11, <1>12, <1>13
       DEF Next, ServiceNext, JobNext, AdminNext, TickNext, AgentNext, TimeNext

-----------------------------------------------------------------------------
(* Reports. *)

\* A step that starts no agent on a script, makes no job run and moves none keeps
\* reports with their jobs.
LEMMA KeepsReports ==
  ASSUME ReportsOwnJob,
         \A h \in Hosts : executing'[h] \in {executing[h], NoJob},
         \A j \in Jobs : phase'[j] = "Running" => phase[j] = "Running" /\ bmhRef'[j] = bmhRef[j]
  PROVE  ReportsOwnJob'
  BY DEF ReportsOwnJob, JobsOn

LEMMA ReportsNext ==
  ASSUME CoreInv, BusyIsLeased, ReportsOwnJob, [Next]_vars
  PROVE  ReportsOwnJob'
  <1> USE DEF CoreInv, TypeOK
  <1>1. ASSUME UNCHANGED <<jobVars, executing>> PROVE ReportsOwnJob'
    BY <1>1 DEF ReportsOwnJob, JobsOn
  <1>2. ASSUME NEW j \in Jobs, NEW o \in Terminal, Finish(j, o),
               \A h \in Hosts : executing'[h] \in {executing[h], NoJob}
        PROVE  ReportsOwnJob'
    BY <1>2, KeepsReports DEF Finish, Terminal
  <1>3. ASSUME NEW j \in Jobs, CreateJob(j) \/ DeleteJob(j) PROVE ReportsOwnJob'
    BY <1>3, KeepsReports DEF CreateJob, DeleteJob
  <1>4. ASSUME NEW j \in Jobs, CancelJob(j) \/ FailProvisioning(j) \/ TimeOutRunning(j)
                               \/ FailHeartbeat(j)
        PROVE  ReportsOwnJob'
    BY <1>2, <1>4 DEF CancelJob, FailProvisioning, TimeOutRunning, FailHeartbeat, Terminal
  <1>5. ASSUME NEW j \in Jobs, VisitPending(j) PROVE ReportsOwnJob'
    <2>1. CASE PassOver(j)
      BY <1>1, <1>5, <2>1 DEF VisitPending, PassOver
    <2>2. ASSUME NEW rn \in Runners, NEW h \in AvailableHosts(JobPool[j], rn),
                 Schedule(j, rn, h)
          PROVE  ReportsOwnJob'
      BY <1>5, <2>2, KeepsReports DEF VisitPending, Schedule
    <2> QED
      BY <1>5, <2>1, <2>2 DEF VisitPending, RunnersFor
  <1>6. ASSUME NEW h \in Hosts, NEW j \in Jobs, AgentWork(h, j) PROVE ReportsOwnJob'
    <2>1. executing[h] = NoJob
      BY <1>6 DEF AgentWork, PollingIsIdle
    <2>2. \A k \in Jobs : phase[k] \in Busy /\ bmhRef[k] = h => k = j
      BY <1>6, LeasedIsExclusive DEF AgentWork, JobsOn, HostExclusive, BusyJobs
    <2>3. \A k \in Jobs : phase'[k] = "Running" => k = j \/ phase[k] = "Running"
      BY <1>6 DEF AgentWork
    <2>4. bmhRef[j] = h /\ UNCHANGED bmhRef
      BY <1>6 DEF AgentWork, JobsOn
    <2>5. \A g \in Hosts : g # h => executing'[g] = executing[g]
      BY <1>6 DEF AgentWork
    <2>6. executing'[h] \in {j, NoJob}
      BY <1>6, <2>1 DEF AgentWork
    <2> QED
      BY <2>2, <2>3, <2>4, <2>5, <2>6 DEF ReportsOwnJob, JobsOn, Busy
  <1>7. ASSUME NEW h \in Hosts, NEW j \in Jobs, NEW o \in {"Completed", "Failed"},
               AgentComplete(h, j, o)
        PROVE  ReportsOwnJob'
    BY <1>2, <1>7 DEF AgentComplete, Terminal
  <1>8. ASSUME NEW h \in Hosts, Boot(h) \/ AgentGone(h) PROVE ReportsOwnJob'
    BY <1>8, KeepsReports DEF Boot, AgentGone
  <1>9. ASSUME NEW rn \in Runners,
               \/ DeleteRunner(rn) \/ SetRunner(rn, "Active") \/ SetRunner(rn, "Suspended")
               \/ PowerOffIdle(rn) \/ PowerOnScheduled(rn)
        PROVE  ReportsOwnJob'
    BY <1>1, <1>9 DEF DeleteRunner, SetRunner, PowerOffIdle, PowerOnScheduled
  <1>10. ASSUME NEW h \in Hosts, CreateHost(h) \/ DeleteHost(h) PROVE ReportsOwnJob'
    BY <1>1, <1>10 DEF CreateHost, DeleteHost
  <1>11. ASSUME NEW r \in Reservations,
                \/ DeleteReservation(r)
                \/ \E h \in Hosts, p \in Pools : CreateReservation(r, h, p)
         PROVE  ReportsOwnJob'
    BY <1>1, <1>11 DEF DeleteReservation, CreateReservation
  <1>12. ASSUME BeginTick \/ Advance \/ UNCHANGED vars PROVE ReportsOwnJob'
    BY <1>1, <1>12 DEF BeginTick, Advance, vars
  <1>13. ASSUME NEW h \in Hosts, NEW j \in Jobs, AgentHeartbeat(h, j) PROVE ReportsOwnJob'
    BY <1>1, <1>13 DEF AgentHeartbeat
  <1>14. ASSUME NEW j \in Jobs, NEW d \in Deadlines, Expire(j, d) PROVE ReportsOwnJob'
    BY <1>1, <1>14 DEF Expire
  <1> QED
    BY <1>3, <1>4, <1>5, <1>6, <1>7, <1>8, <1>9, <1>10, <1>11, <1>12, <1>13, <1>14
       DEF Next, ServiceNext, JobNext, AdminNext, TickNext, AgentNext, TimeNext

-----------------------------------------------------------------------------

LEMMA ExclusiveInvariant ==
  ASSUME Overflow = {}
  PROVE  Spec => []ExclusiveInv
  <1>1. Init => ExclusiveInv
    <2> SUFFICES ASSUME Init PROVE ExclusiveInv
      OBVIOUS
    <2>1. BusyIsLeased /\ ReportsOwnJob
      BY DEF Init, BusyIsLeased, BusyJobs, Busy, ReportsOwnJob
    <2> QED
      BY <2>1, CoreInit DEF ExclusiveInv
  <1>2. ExclusiveInv /\ [Next]_vars => ExclusiveInv'
    BY CoreNext, LeasedNext, ReportsNext DEF ExclusiveInv
  <1> QED
    BY <1>1, <1>2, PTL DEF Spec

(* Reservations prevent double-booking: with no overflow no host ever serves two busy
   jobs, for any number of jobs, hosts, pools and administrators' calls. *)
THEOREM HostExclusiveTheorem ==
  ASSUME Overflow = {}
  PROVE  Spec => []HostExclusive
  <1>1. ExclusiveInv => HostExclusive
    BY LeasedIsExclusive DEF ExclusiveInv
  <1> QED
    BY <1>1, ExclusiveInvariant, PTL

(* The host of a busy job stays reserved in the job's name until the job ends. *)
THEOREM BusyIsLeasedTheorem ==
  ASSUME Overflow = {}
  PROVE  Spec => []BusyIsLeased
  BY ExclusiveInvariant, PTL DEF ExclusiveInv

(* Identifying agents by address is sound when hosts are exclusive: a report always
   concerns the job whose script the agent was given. *)
THEOREM ReportsOwnJobTheorem ==
  ASSUME Overflow = {}
  PROVE  Spec => []ReportsOwnJob
  BY ExclusiveInvariant, PTL DEF ExclusiveInv

-----------------------------------------------------------------------------
(* Power. *)

\* A host goes off while it is known only when a pool is idle and no reservation of the host
\* names a job.
LEMMA PowerOffStep ==
  ASSUME TypeOK, [Next]_vars, NEW h \in online \ online', h \in hosts'
  PROVE  \E rn \in Runners : IdlePool(RunnerPool[rn]) /\ h \in FreeHosts(RunnerPool[rn])
  <1>1. ASSUME NEW rn \in Runners, PowerOffIdle(rn)
        PROVE  IdlePool(RunnerPool[rn]) /\ h \in FreeHosts(RunnerPool[rn])
    BY <1>1 DEF PowerOffIdle
  <1>2. ~\E g \in Hosts : DeleteHost(g)
    BY DEF DeleteHost
  <1>3. ASSUME online \subseteq online' PROVE FALSE
    BY <1>3
  <1>4. ASSUME NEW j \in Jobs, VisitPending(j) PROVE FALSE
    BY <1>3, <1>4 DEF VisitPending, PassOver, Schedule
  <1>5. ASSUME NEW j \in Jobs,
               CancelJob(j) \/ FailProvisioning(j) \/ TimeOutRunning(j) \/ FailHeartbeat(j)
        PROVE  FALSE
    BY <1>3, <1>5 DEF CancelJob, FailProvisioning, TimeOutRunning, FailHeartbeat, Finish
  <1>6. ASSUME NEW rn \in Runners, PowerOnScheduled(rn) PROVE FALSE
    BY <1>3, <1>6 DEF PowerOnScheduled
  <1>7. ~AgentNext
    BY <1>3 DEF AgentNext, Boot, AgentGone, AgentWork, AgentHeartbeat, AgentComplete, Finish
  <1>8. ASSUME NEW j \in Jobs, CreateJob(j) \/ DeleteJob(j) PROVE FALSE
    BY <1>3, <1>8 DEF CreateJob, DeleteJob
  <1>9. CASE AdminNext
    BY <1>2, <1>3, <1>9 DEF AdminNext, CreateReservation, DeleteReservation, DeleteRunner,
                            SetRunner, CreateHost
  <1>10. ~(BeginTick \/ Advance \/ TimeNext \/ UNCHANGED vars)
    BY <1>3 DEF BeginTick, Advance, TimeNext, Expire, vars
  <1> QED
    BY <1>1, <1>4, <1>5, <1>6, <1>7, <1>8, <1>9, <1>10
    DEF Next, ServiceNext, JobNext, TickNext

\* Without overflow the job would be named by the host's only reservation.
LEMMA PowerOffNoOverflow ==
  ASSUME Overflow = {}
  PROVE  Spec => PowerOffSafe
  <1>1. ExclusiveInv /\ [Next]_vars =>
          \A h \in online \ online' : h \in hosts' => JobsOn(h, Busy) = {}
    <2> SUFFICES ASSUME ExclusiveInv, [Next]_vars, NEW h \in online \ online', h \in hosts',
                        NEW j \in JobsOn(h, Busy)
                 PROVE  FALSE
      OBVIOUS
    <2>1. PICK rn \in Runners : h \in FreeHosts(RunnerPool[rn])
      BY PowerOffStep DEF ExclusiveInv, CoreInv
    <2>2. h \in Hosts /\ \E r \in Reservations : hrHost[r] = h /\ activeJob[r] = NoJob
      BY <2>1, FreeHostsFacts DEF ExclusiveInv, CoreInv, TypeOK
    <2>3. j \in BusyJobs /\ bmhRef[j] = h
      BY DEF JobsOn, BusyJobs
    <2>4. \E r \in Reservations : hrHost[r] = h /\ activeJob[r] = j
      BY <2>3 DEF ExclusiveInv, BusyIsLeased
    <2> QED
      BY <2>2, <2>3, <2>4 DEF ExclusiveInv, CoreInv, OneReservationPerHost, BusyJobs
  <1> QED
    BY <1>1, ExclusiveInvariant, PTL DEF Spec, PowerOffSafe

\* With one pool it is the pool of every busy job, and so not idle.
LEMMA PowerOffOnePool ==
  ASSUME \A p, q \in Pools : p = q
  PROVE  Spec => PowerOffSafe
  <1>1. TypeOK /\ [Next]_vars =>
          \A h \in online \ online' : h \in hosts' => JobsOn(h, Busy) = {}
    <2> SUFFICES ASSUME TypeOK, [Next]_vars, NEW h \in online \ online', h \in hosts'
                 PROVE  JobsOn(h, Busy) = {}
      OBVIOUS
    <2>1. PICK rn \in Runners : IdlePool(RunnerPool[rn])
      BY PowerOffStep
    <2>2. \A j \in Jobs : JobPool[j] = RunnerPool[rn]
      OBVIOUS
    <2> QED
      BY <2>1, <2>2 DEF IdlePool, JobsOn, Busy, Terminal
  <1> QED
    BY <1>1, TypeCorrect, PTL DEF Spec, PowerOffSafe

(* The tick never powers off a host that a job is using, where no runner overflows or one
   pool has all jobs and reservations.  It can with both: a host that a job took by overflow
   may be reserved for another pool, and goes off with that pool. *)
THEOREM PowerOffTheorem ==
  ASSUME Overflow = {} \/ \A p, q \in Pools : p = q
  PROVE  Spec => PowerOffSafe
  BY PowerOffNoOverflow, PowerOffOnePool

-----------------------------------------------------------------------------
(* Implementation of HostLease. *)

\* With exclusive hosts the holder of a host is its one busy job, if there is one.
LEMMA HolderMeaning ==
  ASSUME NEW ph, NEW ref, NEW h,
         \A j, k \in Jobs : ph[j] \in Busy /\ ph[k] \in Busy /\ ref[j] = h /\ ref[k] = h => j = k
  PROVE  /\ \A j \in Jobs : HolderIn(ph, ref, h) = j <=> ref[j] = h /\ ph[j] \in Busy
         /\ HolderIn(ph, ref, h) = NoJob <=> \A j \in Jobs : ~(ref[j] = h /\ ph[j] \in Busy)
         /\ HolderIn(ph, ref, h) \in Jobs \cup {NoJob}
  <1> DEFINE holders == {j \in Jobs : ref[j] = h /\ ph[j] \in Busy}
  <1>1. CASE holders = {}
    BY <1>1 DEF HolderIn
  <1>2. CASE holders # {}
    <2>1. HolderIn(ph, ref, h) \in holders
      BY <1>2 DEF HolderIn
    <2> QED
      BY <2>1
  <1> QED
    BY <1>1, <1>2

\* Before and after a step from one exclusive state to another.
LEMMA HoldersBothWays ==
  ASSUME HostExclusive, HostExclusive', NEW h \in Hosts
  PROVE  /\ \A j \in Jobs : leaseBar[h] = j <=> bmhRef[j] = h /\ phase[j] \in Busy
         /\ leaseBar[h] \in Jobs \cup {NoJob}
         /\ \A j \in Jobs : leaseBar'[h] = j <=> bmhRef'[j] = h /\ phase'[j] \in Busy
         /\ leaseBar'[h] \in Jobs \cup {NoJob}
  <1>1. \A j, k \in Jobs : phase[j] \in Busy /\ phase[k] \in Busy /\ bmhRef[j] = h /\ bmhRef[k] = h
                           => j = k
    BY DEF HostExclusive, BusyJobs
  <1>2. \A j, k \in Jobs : phase'[j] \in Busy /\ phase'[k] \in Busy
                           /\ bmhRef'[j] = h /\ bmhRef'[k] = h => j = k
    BY DEF HostExclusive, BusyJobs
  <1>3. leaseBar[h] = HolderIn(phase, bmhRef, h) /\ leaseBar'[h] = HolderIn(phase', bmhRef', h)
    BY DEF leaseBar, HolderIn
  <1> QED
    BY <1>1, <1>2, <1>3, HolderMeaning

LEMMA SameHolders ==
  ASSUME HostExclusive, HostExclusive',
         \A j \in Jobs : phase'[j] \in Busy <=> phase[j] \in Busy,
         \A j \in Jobs : phase[j] \in Busy => bmhRef'[j] = bmhRef[j]
  PROVE  leaseBar' = leaseBar
  <1>1. ASSUME NEW h \in Hosts PROVE leaseBar'[h] = leaseBar[h]
    BY HoldersBothWays
  <1> QED
    BY <1>1 DEF leaseBar

LEMMA FinishGivesBack ==
  ASSUME HostExclusive, HostExclusive', TypeOK, NEW j \in Jobs, NEW o \in Terminal, Finish(j, o)
  PROVE  leaseBar' = [h \in Hosts |-> IF leaseBar[h] = j THEN NoJob ELSE leaseBar[h]]
  <1>1. \A k \in Jobs : phase'[k] \in Busy <=> phase[k] \in Busy /\ k # j
    BY DEF Finish, TypeOK, Busy, Terminal
  <1>2. UNCHANGED bmhRef
    BY DEF Finish
  <1>3. ASSUME NEW h \in Hosts
        PROVE  leaseBar'[h] = IF leaseBar[h] = j THEN NoJob ELSE leaseBar[h]
    BY <1>1, <1>2, HoldersBothWays
  <1> QED
    BY <1>3 DEF leaseBar

\* An outcome the abstract lease allows for the phase the job is in.
LEMMA FinishIsEnd ==
  ASSUME HostExclusive, HostExclusive', TypeOK, NEW j \in Jobs, NEW o \in Terminal, Finish(j, o),
         \/ phase[j] \in {"Pending", "Provisioning", "Running"} /\ o = "Cancelled"
         \/ phase[j] = "Provisioning" /\ o = "Failed"
         \/ phase[j] = "Running"
  PROVE  Lease!Next
  <1>1. Lease!End(j, o)
    BY FinishGivesBack
       DEF Finish, Terminal, Lease!End, Lease!Ended, Lease!Become, Lease!GiveBack
  <1> QED
    BY <1>1 DEF Terminal, Lease!Next, Lease!Ended

LEMMA ScheduleIsGrant ==
  ASSUME HostExclusive, HostExclusive', TypeOK, NEW j \in Jobs, phase[j] = "Pending",
         NEW rn \in Runners, NEW h \in Hosts, Schedule(j, rn, h)
  PROVE  Lease!Next
  <1>1. \A k \in Jobs : phase'[k] \in Busy <=> phase[k] \in Busy \/ k = j
    BY DEF Schedule, TypeOK, Busy
  <1>2. bmhRef'[j] = h /\ \A k \in Jobs : k # j => bmhRef'[k] = bmhRef[k]
    BY DEF Schedule, TypeOK
  <1>3. phase[j] \notin Busy
    BY DEF Busy
  <1>4. ASSUME NEW g \in Hosts PROVE leaseBar'[g] = IF g = h THEN j ELSE leaseBar[g]
    BY <1>1, <1>2, <1>3, HoldersBothWays
  <1>5. leaseBar' = [leaseBar EXCEPT ![h] = j]
    BY <1>4 DEF leaseBar
  <1>6. leaseBar[h] = NoJob
    BY <1>1, <1>2, <1>3, HoldersBothWays
  <1>7. Lease!Grant(j, h)
    BY <1>5, <1>6 DEF Schedule, Lease!Grant, Lease!Become
  <1> QED
    BY <1>7 DEF Lease!Next

LEMMA LeaseStep ==
  ASSUME ExclusiveInv, HostExclusive, HostExclusive', [Next]_vars
  PROVE  [Lease!Next]_<<phase, leaseBar>>
  <1>0. HostExclusive /\ HostExclusive' /\ TypeOK
    BY DEF ExclusiveInv, CoreInv
  <1>1. ASSUME UNCHANGED jobVars PROVE UNCHANGED <<phase, leaseBar>>
    BY <1>0, <1>1, SameHolders
  <1>2. ASSUME NEW j \in Jobs, CreateJob(j) PROVE Lease!Next
    <2>1. leaseBar' = leaseBar
      BY <1>0, <1>2, SameHolders DEF CreateJob, TypeOK, Busy
    <2>2. Lease!Submit(j)
      BY <1>2, <2>1 DEF CreateJob, Lease!Submit, Lease!Become
    <2> QED
      BY <2>2 DEF Lease!Next
  <1>3. ASSUME NEW j \in Jobs, DeleteJob(j) PROVE Lease!Next
    <2>1. leaseBar' = leaseBar
      BY <1>0, <1>3, SameHolders DEF DeleteJob, TypeOK, Busy
    <2>2. phase[j] \in Terminal \cup {"Pending"}
      BY <1>0, <1>3 DEF DeleteJob, TypeOK, Phases
    <2>3. Lease!Remove(j)
      BY <1>3, <2>1, <2>2 DEF DeleteJob, Terminal, Lease!Remove, Lease!Become, Lease!Ended
    <2> QED
      BY <2>3 DEF Lease!Next
  <1>4. ASSUME NEW j \in Jobs, CancelJob(j) PROVE Lease!Next
    <2>1. phase[j] \in {"Pending", "Provisioning", "Running"}
      BY <1>0, <1>4 DEF CancelJob, TypeOK, Phases, Busy
    <2> QED
      BY <1>0, <1>4, <2>1, FinishIsEnd DEF CancelJob, Terminal
  <1>5. ASSUME NEW j \in Jobs, FailProvisioning(j) \/ TimeOutRunning(j) \/ FailHeartbeat(j)
        PROVE  Lease!Next
    BY <1>0, <1>5, FinishIsEnd
       DEF FailProvisioning, TimeOutRunning, FailHeartbeat, Terminal,
           ProvisioningOver, RunningOver, HeartbeatOver
  <1>6. ASSUME NEW j \in Jobs, VisitPending(j) PROVE Lease!Next \/ UNCHANGED <<phase, leaseBar>>
    <2>1. phase[j] = "Pending"
      BY <1>6 DEF VisitPending, NextInQueue, ExclusiveInv, CoreInv, TodoPending
    <2>2. CASE PassOver(j)
      BY <1>1, <2>2 DEF PassOver
    <2>3. ASSUME NEW rn \in RunnersFor(j), NEW h \in AvailableHosts(JobPool[j], rn),
                 Schedule(j, rn, h)
          PROVE  Lease!Next
      BY <1>0, <2>1, <2>3, AvailableHostsType, ScheduleIsGrant DEF RunnersFor
    <2> QED
      BY <1>6, <2>2, <2>3 DEF VisitPending
  <1>7. ASSUME NEW h \in Hosts, NEW j \in Jobs, AgentWork(h, j)
        PROVE  Lease!Next \/ UNCHANGED <<phase, leaseBar>>
    <2>1. leaseBar' = leaseBar
      BY <1>0, <1>7, SameHolders DEF AgentWork, JobsOn, TypeOK, Busy
    <2>2. CASE phase[j] = "Provisioning"
      <3>1. Lease!Start(j)
        BY <1>7, <2>1, <2>2 DEF AgentWork, Lease!Start, Lease!Become
      <3> QED
        BY <3>1 DEF Lease!Next
    <2>3. CASE phase[j] = "Running"
      BY <1>0, <1>7, <2>1, <2>3 DEF AgentWork, TypeOK
    <2> QED
      BY <1>7, <2>2, <2>3 DEF AgentWork, JobsOn, Busy
  <1>8. ASSUME NEW h \in Hosts, NEW j \in Jobs, NEW o \in {"Completed", "Failed"},
               AgentComplete(h, j, o)
        PROVE  Lease!Next
    BY <1>0, <1>8, FinishIsEnd DEF AgentComplete, JobsOn, Terminal
  <1>9. ASSUME AdminNext \/ TimeNext \/ BeginTick \/ Advance \/ UNCHANGED vars
        PROVE  UNCHANGED <<phase, leaseBar>>
    BY <1>1, <1>9 DEF AdminNext, TimeNext, BeginTick, Advance, vars, CreateReservation,
       DeleteReservation, SetRunner, DeleteRunner, CreateHost, DeleteHost, Expire
  <1>10. ASSUME NEW rn \in Runners, PowerOffIdle(rn) \/ PowerOnScheduled(rn)
         PROVE  UNCHANGED <<phase, leaseBar>>
    BY <1>1, <1>10 DEF PowerOffIdle, PowerOnScheduled
  <1>11. ASSUME NEW h \in Hosts, Boot(h) \/ AgentGone(h) PROVE UNCHANGED <<phase, leaseBar>>
    BY <1>1, <1>11 DEF Boot, AgentGone
  <1>12. ASSUME NEW h \in Hosts, NEW j \in Jobs, AgentHeartbeat(h, j)
         PROVE  UNCHANGED <<phase, leaseBar>>
    BY <1>1, <1>12 DEF AgentHeartbeat
  <1> QED
    BY <1>2, <1>3, <1>4, <1>5, <1>6, <1>7, <1>8, <1>9, <1>10, <1>11, <1>12
       DEF Next, ServiceNext, JobNext, TickNext, AgentNext

(* Without overflow the scheduler implements the abstract lease: whatever the handlers,
   the tick and the agents do, a host is granted only when nothing holds it, and every
   job goes through its life once and gives its host back at the end. *)
THEOREM LeaseImplemented ==
  ASSUME Overflow = {}
  PROVE  Spec => ImplementsLease
  <1>1. Init => Lease!Init
    <2> SUFFICES ASSUME Init PROVE Lease!Init
      OBVIOUS
    <2>1. \A h \in Hosts : HolderIn(phase, bmhRef, h) = NoJob
      BY DEF Init, HolderIn, Busy
    <2> QED
      BY <2>1 DEF Init, Lease!Init, leaseBar
  <1>2. ExclusiveInv /\ HostExclusive /\ HostExclusive' /\ [Next]_vars
        => [Lease!Next]_<<phase, leaseBar>>
    BY LeaseStep
  <1> QED
    BY <1>1, <1>2, ExclusiveInvariant, HostExclusiveTheorem, PTL
       DEF Spec, ImplementsLease, Lease!Spec, Lease!leaseVars
=============================================================================
