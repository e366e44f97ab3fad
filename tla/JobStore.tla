------------------------------- MODULE JobStore -------------------------------
(***************************************************************************)
(* JobScheduling over the NATS key-value store, with crashes.              *)
(*                                                                         *)
(* A handler or a loop iteration of the tick changes the maps in memory    *)
(* and writes the changed records one at a time before it returns or goes  *)
(* on: reservations first, then hosts, then the job.  The process may die  *)
(* between two writes; the next one starts with what the store holds.      *)
(* Records written alone (runners, hosts and reservations created or       *)
(* deleted) are stored in the step that changes them: a crash just before  *)
(* such a write is a crash before the step.                                *)
(***************************************************************************)
EXTENDS JobScheduling

VARIABLE disk   \* the stored job statuses, activeJob fields and spec.online flags

storeVars == <<vars, disk>>

Memory == [phase |-> phase, bmhRef |-> bmhRef, runnerRef |-> runnerRef,
           activeJob |-> activeJob, online |-> online]

Clean == disk = Memory

StoreInit == Init /\ disk = Memory

\* The next handler or loop iteration, once the last one has written everything.
Step == Clean /\ Next /\ UNCHANGED disk

PersistReservations ==
  /\ disk.activeJob # activeJob
  /\ disk' = [disk EXCEPT !.activeJob = activeJob]
  /\ UNCHANGED vars

PersistHosts ==
  /\ disk.activeJob = activeJob
  /\ disk.online # online
  /\ disk' = [disk EXCEPT !.online = online]
  /\ UNCHANGED vars

PersistJobs ==
  /\ disk.activeJob = activeJob /\ disk.online = online
  /\ disk' = Memory
  /\ disk' # disk
  /\ UNCHANGED vars

\* The process dies and its successor loads the store.  Agents do not notice.
Crash ==
  /\ ~Clean \/ tick # "off"
  /\ phase' = disk.phase /\ bmhRef' = disk.bmhRef /\ runnerRef' = disk.runnerRef
  /\ activeJob' = disk.activeJob
  /\ online' = disk.online \cap hosts
  /\ disk' = [disk EXCEPT !.online = online']
  /\ tick' = "off" /\ todo' = {}
  /\ UNCHANGED <<late, hrHost, hrPool, runner, hosts, agentVars>>

StoreNext == Step \/ PersistReservations \/ PersistHosts \/ PersistJobs \/ Crash

StoreSpec == StoreInit /\ [][StoreNext]_storeVars

-----------------------------------------------------------------------------
(* A job that ended, and was recorded as ended, stays ended across every crash. *)
EndedStaysEnded ==
  [][\A j \in Jobs :
       disk.phase[j] \in Terminal => disk'.phase[j] \in Terminal \cup {"Absent"}]_storeVars
=============================================================================
