-------------------------- MODULE JobSchedulingProofs --------------------------
(***************************************************************************)
(* Machine-checked safety of JobScheduling, for every set of jobs, hosts,  *)
(* reservations, runners and pools.                                        *)
(***************************************************************************)
EXTENDS JobScheduling, FiniteSetTheorems, TLAPS

\* A host has one reservation at most: handleCreateHostReservation refuses a second.
OneReservationPerHost ==
  \A r, q \in Reservations : r # q /\ hrHost[r] = hrHost[q] => hrHost[r] = NoHost

\* A busy job has a host.
BusyHasHost == \A j \in BusyJobs : bmhRef[j] \in Hosts

\* An agent that still polls runs nothing.
PollingIsIdle == \A h \in polling : executing[h] = NoJob

\* The pending jobs of the tick are still pending when it reaches them.
TodoPending == tick # "off" => \A j \in todo : phase[j] = "Pending"

\* What every step keeps, whether runners overflow or not.
CoreInv ==
  /\ TypeOK
  /\ OneReservationPerHost
  /\ BusyHasHost
  /\ LeaseBacked
  /\ BusyHasRunner
  /\ PollingIsIdle
  /\ TodoPending

USE NamesAssumption, SpecsAssumption DEF jobVars, hrVars, hostVars, agentVars, tickVars

-----------------------------------------------------------------------------
(* Type correctness. *)

LEMMA AvailableHostsType ==
  ASSUME TypeOK, NEW p \in Pools, NEW rn \in Runners
  PROVE  AvailableHosts(p, rn) \subseteq Hosts
  <1>1. FreeHosts(p) \subseteq Hosts
    BY DEF TypeOK, FreeHosts, Reserved
  <1>2. UnreservedHosts \subseteq Hosts
    BY DEF TypeOK, UnreservedHosts
  <1> QED
    BY <1>1, <1>2 DEF AvailableHosts

LEMMA FinishType ==
  ASSUME TypeOK, NEW j \in Jobs, NEW o \in Terminal, Finish(j, o),
         UNCHANGED tickVars, polling' \in SUBSET Hosts,
         executing' \in [Hosts -> Jobs \cup {NoJob}]
  PROVE  TypeOK'
  BY DEF TypeOK, Finish, Released, Phases, Terminal

LEMMA TypeInit == Init => TypeOK
  BY DEF Init, TypeOK, Phases, TickSteps

LEMMA TypeNext == TypeOK /\ [Next]_vars => TypeOK'
  <1> SUFFICES ASSUME TypeOK, [Next]_vars PROVE TypeOK'
    OBVIOUS
  <1>1. ASSUME NEW j \in Jobs, CreateJob(j) PROVE TypeOK'
    BY <1>1 DEF TypeOK, CreateJob, Phases
  <1>2. ASSUME NEW j \in Jobs, CancelJob(j) PROVE TypeOK'
    BY <1>2, FinishType DEF CancelJob, Terminal, TypeOK
  <1>3. ASSUME NEW j \in Jobs, DeleteJob(j) PROVE TypeOK'
    BY <1>3 DEF TypeOK, DeleteJob, Phases
  <1>4. ASSUME NEW r \in Reservations, DeleteReservation(r) PROVE TypeOK'
    BY <1>4 DEF TypeOK, DeleteReservation
  <1>5. ASSUME NEW r \in Reservations, NEW h \in Hosts, NEW p \in Pools,
               CreateReservation(r, h, p)
        PROVE  TypeOK'
    BY <1>5 DEF TypeOK, CreateReservation
  <1>6. ASSUME NEW rn \in Runners, DeleteRunner(rn) PROVE TypeOK'
    BY <1>6 DEF TypeOK, DeleteRunner
  <1>7. ASSUME NEW rn \in Runners, NEW ph \in {"Active", "Suspended"}, SetRunner(rn, ph)
        PROVE  TypeOK'
    BY <1>7 DEF TypeOK, SetRunner
  <1>8. ASSUME NEW h \in Hosts, CreateHost(h) \/ DeleteHost(h) PROVE TypeOK'
    BY <1>8 DEF TypeOK, CreateHost, DeleteHost
  <1>9. ASSUME BeginTick PROVE TypeOK'
    BY <1>9 DEF TypeOK, BeginTick, TickSteps
  <1>10. ASSUME NEW j \in Jobs, VisitPending(j) PROVE TypeOK'
    <2>1. CASE PassOver(j)
      BY <1>10, <2>1 DEF TypeOK, VisitPending, PassOver
    <2>2. ASSUME NEW rn \in Runners, NEW h \in Hosts, Schedule(j, rn, h) PROVE TypeOK'
      BY <1>10, <2>2 DEF TypeOK, VisitPending, Schedule, Phases, Busy
    <2> QED
      BY <1>10, <2>1, <2>2, AvailableHostsType DEF VisitPending, RunnersFor
  <1>11. ASSUME NEW j \in Jobs, FailProvisioning(j) \/ TimeOutRunning(j) \/ FailHeartbeat(j)
         PROVE  TypeOK'
    BY <1>11, FinishType DEF FailProvisioning, TimeOutRunning, FailHeartbeat, Terminal, TypeOK
  <1>12. ASSUME NEW rn \in Runners, PowerOffIdle(rn) \/ PowerOnScheduled(rn) PROVE TypeOK'
    BY <1>12 DEF TypeOK, PowerOffIdle, PowerOnScheduled
  <1>13. ASSUME Advance PROVE TypeOK'
    BY <1>13 DEF TypeOK, Advance, TickSteps
  <1>14. ASSUME NEW h \in Hosts, Boot(h) \/ AgentGone(h) PROVE TypeOK'
    BY <1>14 DEF TypeOK, Boot, AgentGone
  <1>15. ASSUME NEW h \in Hosts, NEW j \in Jobs, AgentWork(h, j) PROVE TypeOK'
    BY <1>15 DEF TypeOK, AgentWork, Phases, Busy
  <1>16. ASSUME NEW h \in Hosts, NEW j \in Jobs, AgentHeartbeat(h, j) PROVE TypeOK'
    BY <1>16 DEF TypeOK, AgentHeartbeat
  <1>17. ASSUME NEW h \in Hosts, NEW j \in Jobs, NEW o \in {"Completed", "Failed"},
                AgentComplete(h, j, o)
         PROVE  TypeOK'
    <2>1. executing' \in [Hosts -> Jobs \cup {NoJob}] /\ polling' \in SUBSET Hosts
      BY <1>17 DEF TypeOK, AgentComplete
    <2> QED
      BY <1>17, <2>1, FinishType DEF AgentComplete, Terminal
  <1>18. ASSUME NEW j \in Jobs, NEW d \in Deadlines, Expire(j, d) PROVE TypeOK'
    BY <1>18 DEF TypeOK, Expire
  <1>19. CASE UNCHANGED vars
    BY <1>19 DEF TypeOK, vars
  <1> QED
    BY <1>1, <1>2, <1>3, <1>4, <1>5, <1>6, <1>7, <1>8, <1>9, <1>10, <1>11, <1>12, <1>13,
       <1>14, <1>15, <1>16, <1>17, <1>18, <1>19
       DEF Next, ServiceNext, JobNext, AdminNext, TickNext, AgentNext, TimeNext

(* Every field keeps the values its type allows, through every handler, tick step,
   agent call and crash-free interleaving of them. *)
THEOREM TypeCorrect == Spec => []TypeOK
  BY TypeInit, TypeNext, PTL DEF Spec

-----------------------------------------------------------------------------
(* The core invariant. *)

\* The part of CoreInv that only jobs and reservations can disturb.
ReservationInv ==
  /\ OneReservationPerHost
  /\ BusyHasHost
  /\ LeaseBacked

LEMMA FreeHostsFacts ==
  ASSUME TypeOK, NEW p \in Pools, NEW h \in FreeHosts(p)
  PROVE  /\ h \in Hosts
         /\ \E r \in Reservations : hrHost[r] = h /\ activeJob[r] = NoJob
  BY DEF TypeOK, FreeHosts, Reserved

\* A host the scheduler may choose is not named by any reservation that has a job.
LEMMA AvailableHasNoJob ==
  ASSUME TypeOK, OneReservationPerHost,
         NEW p \in Pools, NEW rn \in Runners, NEW h \in AvailableHosts(p, rn),
         NEW r \in Reservations, hrHost[r] = h
  PROVE  activeJob[r] = NoJob
  <1>1. CASE h \in FreeHosts(p)
    <2>1. PICK q \in Reservations : hrHost[q] = h /\ activeJob[q] = NoJob
      BY <1>1, FreeHostsFacts
    <2>2. h # NoHost
      BY <1>1, FreeHostsFacts
    <2> QED
      BY <2>1, <2>2 DEF OneReservationPerHost
  <1>2. CASE h \notin FreeHosts(p)
    BY <1>2 DEF AvailableHosts, UnreservedHosts
  <1> QED
    BY <1>1, <1>2

LEMMA FinishInv ==
  ASSUME CoreInv, NEW j \in Jobs, NEW o \in Terminal, Finish(j, o)
  PROVE  ReservationInv' /\ BusyHasRunner'
  <1>1. BusyJobs' = BusyJobs \ {j}
    BY DEF CoreInv, TypeOK, Finish, BusyJobs, Busy, Terminal
  <1>2. \A r \in Reservations :
          activeJob'[r] = IF activeJob[r] = j /\ j \in BusyJobs THEN NoJob ELSE activeJob[r]
    <2> SUFFICES ASSUME NEW r \in Reservations
                 PROVE activeJob'[r] = IF activeJob[r] = j /\ j \in BusyJobs
                                       THEN NoJob ELSE activeJob[r]
      OBVIOUS
    <2>1. activeJob[r] = j => j \in BusyJobs /\ hrHost[r] = bmhRef[j] /\ bmhRef[j] # NoHost
      BY DEF CoreInv, LeaseBacked, BusyHasHost
    <2> QED
      BY <2>1 DEF Finish, Released
  <1>3. UNCHANGED <<bmhRef, runnerRef, hrHost, runner>>
    BY DEF Finish
  <1>4. OneReservationPerHost'
    BY <1>3 DEF CoreInv, OneReservationPerHost
  <1>5. BusyHasHost'
    BY <1>1, <1>3 DEF CoreInv, BusyHasHost
  <1>6. LeaseBacked'
    BY <1>1, <1>2, <1>3 DEF CoreInv, LeaseBacked
  <1>7. BusyHasRunner'
    BY <1>1, <1>3 DEF CoreInv, BusyHasRunner
  <1> QED
    BY <1>4, <1>5, <1>6, <1>7 DEF ReservationInv

LEMMA ScheduleInv ==
  ASSUME CoreInv, NEW j \in Jobs, phase[j] = "Pending", NEW rn \in RunnersFor(j),
         NEW h \in AvailableHosts(JobPool[j], rn), Schedule(j, rn, h)
  PROVE  ReservationInv' /\ BusyHasRunner'
  <1>0. rn \in Runners /\ runner[rn] = "Active" /\ RunnerPool[rn] = JobPool[j]
    BY DEF RunnersFor
  <1>1. h \in Hosts
    BY <1>0, AvailableHostsType DEF CoreInv
  <1>2. BusyJobs' = BusyJobs \cup {j}
    BY DEF CoreInv, TypeOK, Schedule, BusyJobs, Busy
  <1>3. j \notin BusyJobs
    BY DEF BusyJobs, Busy
  <1>4. /\ UNCHANGED <<hrHost, runner>>
        /\ bmhRef' = [bmhRef EXCEPT ![j] = h]
        /\ runnerRef' = [runnerRef EXCEPT ![j] = rn]
        /\ \A r \in Reservations :
             activeJob'[r] = IF hrHost[r] = h THEN j ELSE activeJob[r]
    BY DEF Schedule
  <1>5. OneReservationPerHost'
    BY <1>4 DEF CoreInv, OneReservationPerHost
  <1>6. BusyHasHost'
    BY <1>1, <1>2, <1>4 DEF CoreInv, BusyHasHost, TypeOK
  <1>7. LeaseBacked'
    BY <1>1, <1>2, <1>3, <1>4 DEF CoreInv, LeaseBacked, TypeOK
  <1>8. BusyHasRunner'
    BY <1>0, <1>2, <1>4 DEF CoreInv, BusyHasRunner, TypeOK
  <1> QED
    BY <1>5, <1>6, <1>7, <1>8 DEF ReservationInv

LEMMA CoreInit == Init => CoreInv
  <1> SUFFICES ASSUME Init PROVE CoreInv
    OBVIOUS
  <1>1. BusyJobs = {}
    BY DEF Init, BusyJobs, Busy
  <1>2. OneReservationPerHost /\ LeaseBacked /\ PollingIsIdle /\ TodoPending
    BY DEF Init, OneReservationPerHost, LeaseBacked, PollingIsIdle, TodoPending
  <1> QED
    BY <1>1, <1>2, TypeInit DEF CoreInv, BusyHasHost, BusyHasRunner

LEMMA CoreNext == CoreInv /\ [Next]_vars => CoreInv'
  <1> SUFFICES ASSUME CoreInv, [Next]_vars PROVE CoreInv'
    OBVIOUS
  <1> USE DEF CoreInv
  <1>0. TypeOK'
    BY TypeNext
  <1>1. ASSUME UNCHANGED <<jobVars, hrHost, activeJob>>
        PROVE  ReservationInv' /\ BusyJobs' = BusyJobs
    BY <1>1 DEF ReservationInv, OneReservationPerHost, BusyHasHost, LeaseBacked, BusyJobs
  <1>2. ASSUME NEW j \in Jobs, CreateJob(j) PROVE CoreInv'
    <2>1. BusyJobs' = BusyJobs
      BY <1>2 DEF TypeOK, CreateJob, BusyJobs, Busy
    <2>2. j \notin BusyJobs
      BY <1>2 DEF CreateJob, BusyJobs, Busy
    <2>3. OneReservationPerHost' /\ LeaseBacked' /\ BusyHasHost' /\ BusyHasRunner'
      BY <1>2, <2>1, <2>2
         DEF CreateJob, OneReservationPerHost, LeaseBacked, BusyHasHost, BusyHasRunner, TypeOK
    <2>4. PollingIsIdle' /\ TodoPending'
      BY <1>2 DEF CreateJob, Unlocked, PollingIsIdle, TodoPending
    <2> QED
      BY <1>0, <2>3, <2>4
  <1>3. ASSUME NEW j \in Jobs, CancelJob(j) PROVE CoreInv'
    <2>1. ReservationInv' /\ BusyHasRunner'
      BY <1>3, FinishInv DEF CancelJob, Terminal
    <2>2. PollingIsIdle' /\ TodoPending'
      BY <1>3 DEF CancelJob, Unlocked, PollingIsIdle, TodoPending
    <2> QED
      BY <1>0, <2>1, <2>2 DEF ReservationInv
  <1>4. ASSUME NEW j \in Jobs, DeleteJob(j) PROVE CoreInv'
    <2>1. BusyJobs' = BusyJobs
      BY <1>4 DEF TypeOK, DeleteJob, BusyJobs, Busy
    <2>2. j \notin BusyJobs
      BY <1>4 DEF DeleteJob, BusyJobs
    <2>3. OneReservationPerHost' /\ LeaseBacked' /\ BusyHasHost' /\ BusyHasRunner'
      BY <1>4, <2>1, <2>2
         DEF DeleteJob, OneReservationPerHost, LeaseBacked, BusyHasHost, BusyHasRunner, TypeOK
    <2>4. PollingIsIdle' /\ TodoPending'
      BY <1>4 DEF DeleteJob, Unlocked, PollingIsIdle, TodoPending
    <2> QED
      BY <1>0, <2>3, <2>4
  <1>5. ASSUME NEW r \in Reservations, NEW h \in Hosts, NEW p \in Pools,
               CreateReservation(r, h, p)
        PROVE  CoreInv'
    <2>1. BusyJobs' = BusyJobs
      BY <1>5 DEF CreateReservation, BusyJobs
    <2>2. BusyHasHost' /\ BusyHasRunner'
      BY <1>5, <2>1 DEF CreateReservation, BusyHasHost, BusyHasRunner
    <2>3. OneReservationPerHost' /\ LeaseBacked'
      BY <1>5, <2>1 DEF CreateReservation, OneReservationPerHost, LeaseBacked, TypeOK
    <2>4. PollingIsIdle' /\ TodoPending'
      BY <1>5 DEF CreateReservation, PollingIsIdle, TodoPending
    <2> QED
      BY <1>0, <2>2, <2>3, <2>4
  <1>6. ASSUME NEW r \in Reservations, DeleteReservation(r) PROVE CoreInv'
    <2>1. BusyJobs' = BusyJobs
      BY <1>6 DEF DeleteReservation, BusyJobs
    <2>2. BusyHasHost' /\ BusyHasRunner'
      BY <1>6, <2>1 DEF DeleteReservation, BusyHasHost, BusyHasRunner
    <2>3. OneReservationPerHost' /\ LeaseBacked'
      BY <1>6, <2>1 DEF DeleteReservation, OneReservationPerHost, LeaseBacked, TypeOK
    <2>4. PollingIsIdle' /\ TodoPending'
      BY <1>6 DEF DeleteReservation, PollingIsIdle, TodoPending
    <2> QED
      BY <1>0, <2>2, <2>3, <2>4
  <1>7. ASSUME NEW rn \in Runners,
               DeleteRunner(rn) \/ SetRunner(rn, "Active") \/ SetRunner(rn, "Suspended")
        PROVE  CoreInv'
    <2>1. ReservationInv' /\ BusyJobs' = BusyJobs
      BY <1>1, <1>7 DEF DeleteRunner, SetRunner
    <2>2. BusyHasRunner'
      BY <1>7, <2>1 DEF DeleteRunner, SetRunner, BusyHasRunner, TypeOK
    <2>3. PollingIsIdle' /\ TodoPending'
      BY <1>7 DEF DeleteRunner, SetRunner, PollingIsIdle, TodoPending
    <2> QED
      BY <1>0, <2>1, <2>2, <2>3 DEF ReservationInv
  <1>8. ASSUME UNCHANGED <<jobVars, hrHost, activeJob, runner>>, PollingIsIdle', TodoPending'
        PROVE  CoreInv'
    BY <1>0, <1>1, <1>8 DEF ReservationInv, BusyHasRunner
  <1>9. ASSUME NEW h \in Hosts, CreateHost(h) \/ DeleteHost(h) PROVE CoreInv'
    BY <1>8, <1>9 DEF CreateHost, DeleteHost, PollingIsIdle, TodoPending
  <1>10. ASSUME BeginTick PROVE CoreInv'
    BY <1>8, <1>10 DEF BeginTick, PollingIsIdle, TodoPending
  <1>11. ASSUME NEW j \in Jobs, VisitPending(j) PROVE CoreInv'
    <2>1. phase[j] = "Pending" /\ j \notin todo' /\ todo' \subseteq todo
      BY <1>11 DEF VisitPending, NextInQueue, TodoPending
    <2>2. PollingIsIdle'
      BY <1>11 DEF VisitPending, PollingIsIdle
    <2>3. CASE PassOver(j)
      BY <1>8, <1>11, <2>1, <2>2, <2>3 DEF PassOver, VisitPending, TodoPending
    <2>4. ASSUME NEW rn \in RunnersFor(j), NEW h \in AvailableHosts(JobPool[j], rn),
                 Schedule(j, rn, h)
          PROVE  CoreInv'
      <3>1. ReservationInv' /\ BusyHasRunner'
        BY <2>1, <2>4, ScheduleInv
      <3>2. TodoPending'
        BY <1>11, <2>1, <2>4 DEF Schedule, VisitPending, TodoPending, TypeOK
      <3> QED
        BY <1>0, <2>2, <3>1, <3>2 DEF ReservationInv
    <2> QED
      BY <1>11, <2>3, <2>4 DEF VisitPending
  <1>12. ASSUME NEW j \in Jobs, FailProvisioning(j) \/ TimeOutRunning(j) \/ FailHeartbeat(j)
         PROVE  CoreInv'
    <2>1. ReservationInv' /\ BusyHasRunner'
      BY <1>12, FinishInv DEF FailProvisioning, TimeOutRunning, FailHeartbeat, Terminal
    <2>2. PollingIsIdle'
      BY <1>12 DEF FailProvisioning, TimeOutRunning, FailHeartbeat, PollingIsIdle
    <2>3. phase[j] # "Pending"
      BY <1>12 DEF FailProvisioning, TimeOutRunning, FailHeartbeat,
                   ProvisioningOver, RunningOver, HeartbeatOver
    <2>4. TodoPending'
      BY <1>12, <2>3 DEF FailProvisioning, TimeOutRunning, FailHeartbeat, Finish, TodoPending,
                         TypeOK
    <2> QED
      BY <1>0, <2>1, <2>2, <2>4 DEF ReservationInv
  <1>13. ASSUME NEW rn \in Runners, PowerOffIdle(rn) \/ PowerOnScheduled(rn) PROVE CoreInv'
    BY <1>8, <1>13 DEF PowerOffIdle, PowerOnScheduled, PollingIsIdle, TodoPending
  <1>14. ASSUME Advance PROVE CoreInv'
    BY <1>8, <1>14 DEF Advance, PollingIsIdle, TodoPending
  <1>15. ASSUME NEW h \in Hosts, Boot(h) \/ AgentGone(h) PROVE CoreInv'
    BY <1>8, <1>15 DEF Boot, AgentGone, PollingIsIdle, TodoPending, TypeOK
  <1>16. ASSUME NEW h \in Hosts, NEW j \in Jobs, AgentWork(h, j) PROVE CoreInv'
    <2>1. BusyJobs' = BusyJobs
      BY <1>16 DEF AgentWork, JobsOn, BusyJobs, Busy, TypeOK
    <2>2. ReservationInv' /\ BusyHasRunner'
      BY <1>16, <2>1 DEF AgentWork, ReservationInv, OneReservationPerHost, BusyHasHost,
                         LeaseBacked, BusyHasRunner
    <2>3. PollingIsIdle' /\ TodoPending'
      BY <1>16 DEF AgentWork, Unlocked, PollingIsIdle, TodoPending, TypeOK
    <2> QED
      BY <1>0, <2>2, <2>3 DEF ReservationInv
  <1>17. ASSUME NEW h \in Hosts, NEW j \in Jobs, AgentHeartbeat(h, j) PROVE CoreInv'
    BY <1>8, <1>17 DEF AgentHeartbeat, PollingIsIdle, TodoPending
  <1>18. ASSUME NEW h \in Hosts, NEW j \in Jobs, NEW o \in {"Completed", "Failed"},
                AgentComplete(h, j, o)
         PROVE  CoreInv'
    <2>1. ReservationInv' /\ BusyHasRunner'
      BY <1>18, FinishInv DEF AgentComplete, Terminal
    <2>2. PollingIsIdle' /\ TodoPending'
      BY <1>18 DEF AgentComplete, Unlocked, PollingIsIdle, TodoPending, TypeOK
    <2> QED
      BY <1>0, <2>1, <2>2 DEF ReservationInv
  <1>19. ASSUME NEW j \in Jobs, NEW d \in Deadlines, Expire(j, d) PROVE CoreInv'
    BY <1>8, <1>19 DEF Expire, PollingIsIdle, TodoPending
  <1>20. CASE UNCHANGED vars
    BY <1>8, <1>20 DEF vars, PollingIsIdle, TodoPending
  <1> QED
    BY <1>2, <1>3, <1>4, <1>5, <1>6, <1>7, <1>9, <1>10, <1>11, <1>12, <1>13, <1>14, <1>15,
       <1>16, <1>17, <1>18, <1>19, <1>20
       DEF Next, ServiceNext, JobNext, AdminNext, TickNext, AgentNext, TimeNext

LEMMA CoreInvariant == Spec => []CoreInv
  BY CoreInit, CoreNext, PTL DEF Spec

(* A reservation never names a job that has ended or that runs elsewhere, with or
   without overflow: as long as the process lives no host is lost to the pool. *)
THEOREM LeaseBackedTheorem == Spec => []LeaseBacked
  BY CoreInvariant, PTL DEF CoreInv

(* A busy job's runner is never deleted from under it. *)
THEOREM BusyHasRunnerTheorem == Spec => []BusyHasRunner
  BY CoreInvariant, PTL DEF CoreInv
-----------------------------------------------------------------------------
(* What a step may do to the phases of the jobs.  No more than the types and the order of *)
(* the tick is needed here, so that it holds of a memory that a crash has rolled back too. *)

LEMMA TodoNext ==
  ASSUME TypeOK, TodoPending, [Next]_vars
  PROVE  TodoPending'
  <1> USE DEF TodoPending
  <1>1. CASE JobNext \/ AdminNext
    BY <1>1 DEF JobNext, AdminNext, CreateJob, CancelJob, DeleteJob, DeleteReservation,
                CreateReservation, DeleteRunner, SetRunner, CreateHost, DeleteHost, Unlocked
  <1>2. CASE BeginTick \/ Advance
    BY <1>2 DEF BeginTick, Advance
  <1>3. ASSUME NEW j \in Jobs, VisitPending(j) PROVE TodoPending'
    BY <1>3 DEF VisitPending, Schedule, PassOver, TypeOK
  <1>4. ASSUME NEW j \in Jobs, FailProvisioning(j) \/ TimeOutRunning(j) \/ FailHeartbeat(j)
        PROVE  TodoPending'
    <2>1. phase[j] # "Pending"
      BY <1>4 DEF FailProvisioning, TimeOutRunning, FailHeartbeat, ProvisioningOver, RunningOver,
                  HeartbeatOver
    <2> QED
      BY <1>4, <2>1 DEF FailProvisioning, TimeOutRunning, FailHeartbeat, Finish, TypeOK
  <1>5. ASSUME NEW rn \in Runners, PowerOffIdle(rn) \/ PowerOnScheduled(rn) PROVE TodoPending'
    BY <1>5 DEF PowerOffIdle, PowerOnScheduled
  <1>6. CASE AgentNext
    BY <1>6 DEF AgentNext, Boot, AgentGone, AgentWork, AgentHeartbeat, AgentComplete, Unlocked
  <1>7. CASE TimeNext \/ UNCHANGED vars
    BY <1>7 DEF TimeNext, Expire, vars
  <1> QED
    BY <1>1, <1>2, <1>3, <1>4, <1>5, <1>6, <1>7 DEF Next, ServiceNext, TickNext

\* The five things that can happen: nothing; a job is created or deleted; one ends; the
\* agent of a busy one takes it up; or the tick gives a host to the pending job whose turn
\* it is.
PhasesStay == UNCHANGED <<phase, runnerRef>>
JobComesOrGoes ==
  \E j \in Jobs, ph \in {"Pending", "Absent"} :
    /\ phase[j] \notin Busy /\ (phase[j] \in Terminal => ph = "Absent")
    /\ phase' = [phase EXCEPT ![j] = ph] /\ UNCHANGED activeJob
    /\ \A k \in Jobs \ {j} : runnerRef'[k] = runnerRef[k]
JobEnds ==
  \E j \in Jobs, o \in Terminal :
    phase' = [phase EXCEPT ![j] = o] /\ UNCHANGED runnerRef
JobIsTakenUp ==
  \E j \in BusyJobs : phase' = [phase EXCEPT ![j] = "Running"] /\ UNCHANGED runnerRef
JobIsScheduled ==
  \E j \in todo : \E rn \in RunnersFor(j) : \E h \in AvailableHosts(JobPool[j], rn) :
    /\ tick = "schedule" /\ phase[j] = "Pending" /\ NextInQueue(j) /\ ~AtLimit(rn)
    /\ Schedule(j, rn, h)

LEMMA PhaseStep ==
  ASSUME TypeOK, TodoPending, [Next]_vars
  PROVE  PhasesStay \/ JobComesOrGoes \/ JobEnds \/ JobIsTakenUp \/ JobIsScheduled
  <1>1. ASSUME NEW j \in Jobs, CreateJob(j) PROVE JobComesOrGoes
    <2>1. phase[j] \notin Busy /\ phase[j] \notin Terminal
      BY <1>1 DEF CreateJob, Busy, Terminal
    <2> QED
      BY <1>1, <2>1 DEF CreateJob, JobComesOrGoes, TypeOK
  <1>2. ASSUME NEW j \in Jobs, DeleteJob(j) PROVE JobComesOrGoes
    BY <1>2 DEF DeleteJob, JobComesOrGoes, TypeOK
  <1>3. ASSUME NEW j \in Jobs,
               CancelJob(j) \/ FailProvisioning(j) \/ TimeOutRunning(j) \/ FailHeartbeat(j)
        PROVE  JobEnds
    <2>1. Finish(j, "Cancelled") \/ Finish(j, "Failed") \/ Finish(j, "TimedOut")
      BY <1>3 DEF CancelJob, FailProvisioning, TimeOutRunning, FailHeartbeat
    <2> QED
      BY <2>1 DEF Finish, JobEnds, Terminal
  <1>4. CASE AdminNext
    BY <1>4 DEF AdminNext, CreateReservation, DeleteReservation, DeleteRunner, SetRunner,
                CreateHost, DeleteHost, PhasesStay
  <1>5. ASSUME NEW j \in Jobs, VisitPending(j) PROVE PhasesStay \/ JobIsScheduled
    <2>1. tick = "schedule" /\ NextInQueue(j) /\ j \in todo /\ phase[j] = "Pending"
      BY <1>5 DEF VisitPending, NextInQueue, TodoPending
    <2>2. CASE PassOver(j)
      BY <2>2 DEF PassOver, PhasesStay
    <2>3. CASE ~PassOver(j)
      BY <1>5, <2>1, <2>3 DEF VisitPending, JobIsScheduled
    <2> QED
      BY <2>2, <2>3
  <1>6. ASSUME NEW rn \in Runners, PowerOffIdle(rn) \/ PowerOnScheduled(rn) PROVE PhasesStay
    BY <1>6 DEF PowerOffIdle, PowerOnScheduled, PhasesStay
  <1>7. ASSUME NEW h \in Hosts, NEW j \in Jobs, AgentWork(h, j) PROVE JobIsTakenUp
    BY <1>7 DEF AgentWork, JobsOn, BusyJobs, JobIsTakenUp
  <1>8. ASSUME NEW h \in Hosts, NEW j \in Jobs, NEW o \in {"Completed", "Failed"},
               AgentComplete(h, j, o)
        PROVE  JobEnds
    BY <1>8 DEF AgentComplete, Finish, JobEnds, Terminal
  <1>9. ASSUME NEW h \in Hosts, NEW j \in Jobs, AgentHeartbeat(h, j) PROVE PhasesStay
    BY <1>9 DEF AgentHeartbeat, PhasesStay
  <1>10. ASSUME NEW h \in Hosts, Boot(h) \/ AgentGone(h) PROVE PhasesStay
    BY <1>10 DEF Boot, AgentGone, PhasesStay
  <1>11. CASE BeginTick \/ Advance \/ TimeNext \/ UNCHANGED vars
    BY <1>11 DEF BeginTick, Advance, TimeNext, Expire, vars, PhasesStay
  <1> QED
    BY <1>1, <1>2, <1>3, <1>4, <1>5, <1>6, <1>7, <1>8, <1>9, <1>10, <1>11
    DEF Next, ServiceNext, JobNext, TickNext, AgentNext

\* A busy job keeps its runner; the busy jobs grow by one at most, which the tick admits.
LEMMA BusyStep ==
  ASSUME TypeOK, TodoPending, [Next]_vars
  PROVE  \/ BusyJobs' \subseteq BusyJobs /\ \A j \in BusyJobs' : runnerRef'[j] = runnerRef[j]
         \/ /\ JobIsScheduled
            /\ \E j \in Jobs \ BusyJobs, rn \in Runners :
                 /\ rn \in RunnersFor(j) /\ ~AtLimit(rn)
                 /\ BusyJobs' = BusyJobs \cup {j} /\ runnerRef' = [runnerRef EXCEPT ![j] = rn]
  <1>1. CASE PhasesStay
    BY <1>1 DEF PhasesStay, BusyJobs
  <1>2. CASE JobComesOrGoes
    BY <1>2 DEF JobComesOrGoes, BusyJobs, Busy, TypeOK
  <1>3. CASE JobEnds
    BY <1>3 DEF JobEnds, BusyJobs, Busy, Terminal, TypeOK
  <1>4. CASE JobIsTakenUp
    BY <1>4 DEF JobIsTakenUp, BusyJobs, Busy, TypeOK
  <1>5. CASE JobIsScheduled
    <2>1. PICK j \in todo : \E rn \in RunnersFor(j) : \E h \in AvailableHosts(JobPool[j], rn) :
            phase[j] = "Pending" /\ ~AtLimit(rn) /\ Schedule(j, rn, h)
      BY <1>5 DEF JobIsScheduled
    <2>2. PICK rn \in RunnersFor(j) : \E h \in AvailableHosts(JobPool[j], rn) :
            ~AtLimit(rn) /\ Schedule(j, rn, h)
      BY <2>1
    <2>3. j \in Jobs \ BusyJobs /\ rn \in Runners
      BY <2>1, <2>2 DEF TypeOK, BusyJobs, Busy, RunnersFor
    <2>4. BusyJobs' = BusyJobs \cup {j} /\ runnerRef' = [runnerRef EXCEPT ![j] = rn]
      BY <2>2, <2>3 DEF Schedule, TypeOK, BusyJobs, Busy
    <2> QED
      BY <1>5, <2>2, <2>3, <2>4
  <1> QED
    BY <1>1, <1>2, <1>3, <1>4, <1>5, PhaseStep

\* A job that has ended stays as it is or is deleted.
LEMMA EndedStep ==
  ASSUME TypeOK, TodoPending, [Next]_vars, NEW j \in Jobs, phase[j] \in Terminal
  PROVE  phase'[j] \in Terminal \cup {"Absent"}
  <1>1. CASE PhasesStay
    BY <1>1 DEF PhasesStay
  <1>2. CASE JobComesOrGoes
    BY <1>2 DEF JobComesOrGoes, TypeOK
  <1>3. CASE JobEnds
    BY <1>3 DEF JobEnds, TypeOK
  <1>4. CASE JobIsTakenUp
    BY <1>4 DEF JobIsTakenUp, BusyJobs, Busy, Terminal, TypeOK
  <1>5. CASE JobIsScheduled
    BY <1>5 DEF JobIsScheduled, Schedule, Terminal, TypeOK
  <1> QED
    BY <1>1, <1>2, <1>3, <1>4, <1>5, PhaseStep
-----------------------------------------------------------------------------
(* The queue: no job is overtaken by one of lower priority. *)

\* A pending job that the tick has passed over, in a pool that one runner serves, found the
\* limit reached or no host, and so would every job of the pool that comes after it.
PassedOver ==
  tick = "schedule" =>
    \A k \in Jobs : phase[k] = "Pending" /\ k \notin todo /\ SoleRunner(k) =>
      \A rn \in RunnersFor(k) : AtLimit(rn) \/ AvailableHosts(JobPool[k], rn) = {}

QueueInv == TypeOK /\ TodoPending /\ IsFiniteSet(BusyJobs) /\ PassedOver

LEMMA BusyFinite ==
  ASSUME TypeOK, TodoPending, [Next]_vars, IsFiniteSet(BusyJobs)
  PROVE  IsFiniteSet(BusyJobs')
  <1>1. CASE BusyJobs' \subseteq BusyJobs
    BY <1>1, FS_Subset
  <1>2. ASSUME NEW j, BusyJobs' = BusyJobs \cup {j} PROVE IsFiniteSet(BusyJobs')
    BY <1>2, FS_AddElement
  <1> QED
    BY <1>1, <1>2, BusyStep

\* While the tick hands out hosts, a limit once reached stays reached, and there is no host
\* once there was none.
LEMMA ScheduleTakes ==
  ASSUME TypeOK, IsFiniteSet(BusyJobs), NEW j \in Jobs, phase[j] = "Pending",
         NEW rm \in Runners, NEW h, Schedule(j, rm, h), NEW rn \in Runners, NEW p \in Pools
  PROVE  /\ AtLimit(rn) => AtLimit(rn)'
         /\ AvailableHosts(p, rn) = {} => AvailableHosts(p, rn)' = {}
  <1>1. BusyJobs' = BusyJobs \cup {j}
    BY DEF Schedule, TypeOK, BusyJobs, Busy
  <1>2. AtLimit(rn) => AtLimit(rn)'
    <2> DEFINE now == ActiveInPool(RunnerPool[rn])
               next == ActiveInPool(RunnerPool[rn])'
    <2>1. IsFiniteSet(BusyJobs')
      BY <1>1, FS_AddElement
    <2>2. IsFiniteSet(next) /\ now \in SUBSET next
      <3>1. next \subseteq BusyJobs' /\ now \subseteq next
        BY <1>1 DEF ActiveInPool
      <3> QED
        BY <2>1, <3>1, FS_Subset
    <2> HIDE DEF now, next
    <2>3. Cardinality(now) <= Cardinality(next) /\ Cardinality(next) \in Nat
      BY <2>2, FS_Subset, FS_CardinalityType
    <2>4. Cardinality(now) \in Nat /\ MaxConcurrent[rn] \in Nat
      BY <2>2, FS_Subset, FS_CardinalityType
    <2> QED
      BY <2>3, <2>4 DEF AtLimit, now, next
  <1>3. FreeHosts(p)' \subseteq FreeHosts(p) /\ UnreservedHosts' = UnreservedHosts
    <2>1. UNCHANGED <<hrHost, hrPool, hosts>>
          /\ activeJob' = [r \in Reservations |-> IF hrHost[r] = h THEN j ELSE activeJob[r]]
      BY DEF Schedule
    <2>2. \A r \in Reservations : activeJob'[r] = NoJob => activeJob[r] = NoJob
      BY <2>1
    <2> QED
      BY <2>1, <2>2 DEF FreeHosts, Reserved, UnreservedHosts
  <1>4. AvailableHosts(p, rn) = {} => AvailableHosts(p, rn)' = {}
    BY <1>3 DEF AvailableHosts
  <1> QED
    BY <1>2, <1>4

\* What the scheduler looks at.
LEMMA SameView ==
  ASSUME UNCHANGED <<jobVars, hrVars, runner, hosts>>
  PROVE  /\ \A k \in Jobs : RunnersFor(k)' = RunnersFor(k) /\ (SoleRunner(k)' <=> SoleRunner(k))
         /\ \A rn \in Runners : AtLimit(rn)' <=> AtLimit(rn)
         /\ \A p \in Pools, rn \in Runners : AvailableHosts(p, rn)' = AvailableHosts(p, rn)
  BY DEF SoleRunner, RunnersFor, AtLimit, ActiveInPool, BusyJobs, AvailableHosts, FreeHosts,
         Reserved, UnreservedHosts

LEMMA PassedOverNext ==
  ASSUME QueueInv, [Next]_vars
  PROVE  PassedOver'
  <1> USE DEF QueueInv
  <1>1. ASSUME UNCHANGED <<jobVars, hrVars, runner, hosts, tick, todo>> PROVE PassedOver'
    BY <1>1 DEF PassedOver, SoleRunner, RunnersFor, AtLimit, ActiveInPool, BusyJobs,
                AvailableHosts, FreeHosts, Reserved, UnreservedHosts
  <1>2. CASE JobNext \/ AdminNext
    BY <1>2 DEF JobNext, AdminNext, CreateJob, CancelJob, DeleteJob, DeleteReservation,
                CreateReservation, DeleteRunner, SetRunner, CreateHost, DeleteHost, Unlocked,
                PassedOver
  <1>3. CASE BeginTick
    BY <1>3 DEF BeginTick, PassedOver
  <1>4. CASE Advance
    BY <1>4 DEF Advance, PassedOver
  <1>5. ASSUME NEW j \in Jobs, VisitPending(j) PROVE PassedOver'
    <2>1. /\ tick = "schedule" /\ tick' = "schedule" /\ phase[j] = "Pending"
          /\ todo' = todo \ {j}
      BY <1>5 DEF VisitPending, NextInQueue, TodoPending
    <2>2. CASE PassOver(j) /\
               (SoleRunner(j) =>
                  \A rn \in RunnersFor(j) : AtLimit(rn) \/ AvailableHosts(JobPool[j], rn) = {})
      <3>1. UNCHANGED <<jobVars, hrVars, runner, hosts>>
        BY <2>2 DEF PassOver
      <3> SUFFICES ASSUME NEW k \in Jobs, phase[k] = "Pending", k \notin todo', SoleRunner(k),
                          NEW rn \in RunnersFor(k)
                   PROVE  AtLimit(rn) \/ AvailableHosts(JobPool[k], rn) = {}
        <4>1. \A k \in Jobs : RunnersFor(k) \subseteq Runners
          BY DEF RunnersFor
        <4> QED
          BY <3>1, <4>1, SameView DEF PassedOver
      <3> QED
        BY <2>1, <2>2 DEF PassedOver
    <2>3. ASSUME NEW rm \in RunnersFor(j), NEW h, Schedule(j, rm, h) PROVE PassedOver'
      <3> SUFFICES ASSUME NEW k \in Jobs, phase'[k] = "Pending", k \notin todo', SoleRunner(k)',
                          NEW rn \in RunnersFor(k)'
                   PROVE  AtLimit(rn)' \/ AvailableHosts(JobPool[k], rn)' = {}
        BY DEF PassedOver
      <3>1. k # j /\ phase[k] = "Pending"
        BY <2>3 DEF Schedule, TypeOK
      <3>2. rn \in RunnersFor(k) /\ SoleRunner(k) /\ rn \in Runners /\ rm \in Runners
        BY <2>3 DEF Schedule, RunnersFor, SoleRunner
      <3>3. AtLimit(rn) \/ AvailableHosts(JobPool[k], rn) = {}
        BY <2>1, <3>1, <3>2 DEF PassedOver
      <3> QED
        BY <2>1, <2>3, <3>2, <3>3, ScheduleTakes
    <2> QED
      BY <1>5, <2>2, <2>3 DEF VisitPending, SoleRunner
  <1>6. ASSUME NEW j \in Jobs, FailProvisioning(j) \/ TimeOutRunning(j) \/ FailHeartbeat(j)
        PROVE  PassedOver'
    BY <1>6 DEF FailProvisioning, TimeOutRunning, FailHeartbeat, PassedOver
  <1>7. ASSUME NEW rn \in Runners, PowerOffIdle(rn) \/ PowerOnScheduled(rn) PROVE PassedOver'
    BY <1>7 DEF PowerOffIdle, PowerOnScheduled, PassedOver
  <1>8. ASSUME NEW h \in Hosts, NEW j \in Jobs,
               AgentWork(h, j) \/ AgentComplete(h, j, "Completed") \/ AgentComplete(h, j, "Failed")
        PROVE  PassedOver'
    BY <1>8 DEF AgentWork, AgentComplete, Unlocked, PassedOver
  <1>9. ASSUME NEW h \in Hosts, Boot(h) \/ AgentGone(h) PROVE PassedOver'
    BY <1>1, <1>9 DEF Boot, AgentGone
  <1>10. ASSUME NEW h \in Hosts, NEW j \in Jobs, AgentHeartbeat(h, j) PROVE PassedOver'
    BY <1>1, <1>10 DEF AgentHeartbeat
  <1>11. CASE TimeNext \/ UNCHANGED vars
    BY <1>1, <1>11 DEF TimeNext, Expire, vars
  <1> QED
    BY <1>2, <1>3, <1>4, <1>5, <1>6, <1>7, <1>8, <1>9, <1>10, <1>11
    DEF Next, ServiceNext, TickNext, AgentNext

LEMMA QueueInvariant == Spec => []QueueInv
  <1>1. Init => QueueInv
    <2> SUFFICES ASSUME Init PROVE QueueInv
      OBVIOUS
    <2>1. BusyJobs = {}
      BY DEF Init, BusyJobs, Busy
    <2> QED
      BY <2>1, TypeInit, FS_EmptySet DEF Init, QueueInv, TodoPending, PassedOver
  <1>2. QueueInv /\ [Next]_vars => QueueInv'
    BY TypeNext, TodoNext, BusyFinite, PassedOverNext DEF QueueInv
  <1> QED
    BY <1>1, <1>2, PTL DEF Spec

(* In a pool that one runner serves, the tick never starts a job and leaves one of higher
   priority waiting: not even when it had passed over that one before a host was free,
   for no host comes free while the tick hands them out. *)
THEOREM NoOvertakingTheorem == Spec => NoOvertaking
  <1>1. QueueInv /\ [Next]_vars =>
          \A j, k \in Jobs :
            /\ phase[j] = "Pending" /\ phase'[j] = "Provisioning"
            /\ JobPool[k] = JobPool[j] /\ SoleRunner(j)
            /\ phase[k] = "Pending"
            => Priority[k] <= Priority[j]
    <2> SUFFICES ASSUME QueueInv, [Next]_vars, NEW j \in Jobs, NEW k \in Jobs,
                        phase[j] = "Pending", phase'[j] = "Provisioning",
                        JobPool[k] = JobPool[j], SoleRunner(j), phase[k] = "Pending"
                 PROVE  Priority[k] <= Priority[j]
      OBVIOUS
    <2> USE DEF QueueInv
    <2>1. JobIsScheduled
      <3>1. ~PhasesStay
        BY DEF PhasesStay
      <3>2. ~JobComesOrGoes /\ ~JobEnds
        BY DEF JobComesOrGoes, JobEnds, Terminal, TypeOK
      <3>3. ~JobIsTakenUp
        BY DEF JobIsTakenUp, TypeOK
      <3> QED
        BY <3>1, <3>2, <3>3, PhaseStep
    <2>2. PICK i \in todo : \E rn \in RunnersFor(i) : \E h \in AvailableHosts(JobPool[i], rn) :
            tick = "schedule" /\ NextInQueue(i) /\ ~AtLimit(rn) /\ Schedule(i, rn, h)
      BY <2>1 DEF JobIsScheduled
    <2>3. PICK rn \in RunnersFor(i) :
            /\ tick = "schedule" /\ NextInQueue(i) /\ ~AtLimit(rn)
            /\ AvailableHosts(JobPool[i], rn) # {}
            /\ \E h : Schedule(i, rn, h)
      BY <2>2
    <2>4. i = j
      BY <2>3 DEF Schedule, TypeOK
    <2>5. CASE k \in todo
      BY <2>3, <2>4, <2>5 DEF NextInQueue
    <2>6. CASE k \notin todo
      <3>1. SoleRunner(k) /\ rn \in RunnersFor(k)
        BY <2>3, <2>4 DEF SoleRunner, RunnersFor
      <3>2. AtLimit(rn) \/ AvailableHosts(JobPool[k], rn) = {}
        BY <2>3, <2>6, <3>1 DEF PassedOver
      <3> QED
        BY <2>3, <2>4, <3>2
    <2> QED
      BY <2>5, <2>6
  <1> QED
    BY <1>1, QueueInvariant, PTL DEF Spec, NoOvertaking
=============================================================================
