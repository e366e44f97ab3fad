----------------------------- MODULE DnsService ------------------------------
(***************************************************************************)
(* The DNS server (microdns) of one managed network: how mkube fills its   *)
(* database (dns_seed.go) and how it repairs it when it stops answering.   *)
(* Two workers repair: the health check of the reconciler                  *)
(* (infra_health.go) and the consistency checker (consistency.go), each    *)
(* by deleting the pod and creating it from its record.                    *)
(***************************************************************************)
EXTENDS Naturals

CONSTANTS
  DeadThreshold,      \* dnsHealthFailureThreshold
  MaxDnsFaults        \* deaths of the server, lost databases, calls that fail

ASSUME DnsAssumption == DeadThreshold \in Nat \ {0} /\ MaxDnsFaults \in Nat

VARIABLES
  answers,      \* which interfaces of the server answer: "rest", "port" 53
  dnsBox,       \* does its container exist?
  dnsTracked,   \* is its pod in p.pods?
  db,           \* what the server's database holds
  seeder,       \* the goroutine that fills it, and what it does next
  repair,       \* repair[w]: how far the repair of worker w has come
  deadChecks,   \* dnsHealthFailures: checks in a row that found the server dead
  dnsFaults

dnsVars == <<answers, dnsBox, dnsTracked, db, seeder, repair, deadChecks, dnsFaults>>

Contained == {"pool", "reservation", "record", "forwarder"}
Repairers == {"health", "checker"}
DnsTypeOK ==
  /\ answers \subseteq {"rest", "port"} /\ dnsBox \in BOOLEAN /\ dnsTracked \in BOOLEAN
  /\ db \subseteq Contained
  /\ seeder \in {"none", "wait", "pool", "reservation", "record", "forwarder"}
  /\ repair \in [Repairers -> {"idle", "delete", "create"}]
  /\ deadChecks \in 0 .. DeadThreshold - 1 /\ dnsFaults \in 0 .. MaxDnsFaults

DnsFails == dnsFaults < MaxDnsFaults /\ dnsFaults' = dnsFaults + 1
DnsWorks == UNCHANGED dnsFaults

-----------------------------------------------------------------------------
(* The server. *)

\* The process stops answering, on one interface or both, or loses its database.
ServerDies ==
  /\ answers # {} /\ DnsFails
  /\ \E left \in SUBSET answers \ {answers} : answers' = left
  /\ UNCHANGED <<dnsBox, dnsTracked, db, seeder, repair, deadChecks>>
DatabaseLost ==
  /\ db # {} /\ DnsFails /\ db' = {}
  /\ UNCHANGED <<answers, dnsBox, dnsTracked, seeder, repair, deadChecks>>
\* The liveness probe asks the REST interface; its failure restarts the process.
ProbeRestarts ==
  /\ dnsBox /\ dnsTracked /\ "rest" \notin answers /\ answers' = {"rest", "port"}
  /\ UNCHANGED <<dnsBox, dnsTracked, db, seeder, repair, deadChecks, dnsFaults>>

-----------------------------------------------------------------------------
(* seedDNSConfig: waits up to 30 s for the REST interface, then makes one entry after the *)
(* other.  A call that fails is logged, and the next one is made.                         *)

Spawned == IF seeder = "none" THEN "wait" ELSE seeder
SeedWaits ==
  /\ seeder = "wait" /\ seeder' = IF "rest" \in answers THEN "pool" ELSE "none"
  /\ UNCHANGED <<answers, dnsBox, dnsTracked, db, repair, deadChecks, dnsFaults>>
\* One kind of entry, when the seeder has come to it.
Made(entry, next) ==
  /\ seeder = entry /\ seeder' = next
  /\ \/ "rest" \in answers /\ db' = db \cup {entry} /\ DnsWorks
     \/ "rest" \notin answers /\ UNCHANGED db /\ DnsWorks
     \/ DnsFails /\ UNCHANGED db
  /\ UNCHANGED <<answers, dnsBox, dnsTracked, repair, deadChecks>>
seedDHCPPool == Made("pool", "reservation")
seedDHCPReservations == Made("reservation", "record")
seedReservationDNSRecords == Made("record", "forwarder")
seedDNSForwarders == Made("forwarder", "none")

\* Mutant of ReconcileDNSConfig: the A records are not looked at.
ReconcilePoolsOnly ==
  /\ "rest" \in answers /\ seeder = "none"
  /\ IF "pool" \notin db THEN seeder' = "wait" /\ UNCHANGED db
     ELSE db' = db \cup {"forwarder"} /\ UNCHANGED seeder
  /\ UNCHANGED <<answers, dnsBox, dnsTracked, repair, deadChecks, dnsFaults>>
\* The cycle seeds again when the pools or the A records are missing, and adds forwarders.
reservationDNSRecordsMissing == "record" \notin db
ReconcileDNSConfig ==
  /\ "rest" \in answers /\ seeder = "none"
  /\ IF "pool" \notin db \/ reservationDNSRecordsMissing THEN seeder' = "wait" /\ UNCHANGED db
     ELSE db' = db \cup {"forwarder"} /\ UNCHANGED seeder
  /\ UNCHANGED <<answers, dnsBox, dnsTracked, repair, deadChecks, dnsFaults>>

-----------------------------------------------------------------------------
(* Repairs. *)

Repairing(w, from, to) == repair[w] = from /\ repair' = [repair EXCEPT ![w] = to]
\* checkInfraHealth: a server that is dead on both interfaces is counted.  Below the
\* threshold it is repaired like the checker does; at the threshold its pod is replaced.
HealthCheck ==
  /\ repair["health"] = "idle"
  /\ IF "rest" \in answers THEN deadChecks' = 0 /\ UNCHANGED repair
     ELSE IF "port" \in answers THEN UNCHANGED <<deadChecks, repair>>
     ELSE /\ deadChecks' = (deadChecks + 1) % DeadThreshold
          /\ IF dnsTracked THEN Repairing("health", "idle", "delete") ELSE UNCHANGED repair
  /\ UNCHANGED <<answers, dnsBox, dnsTracked, db, seeder, dnsFaults>>
\* repairDNSLiveness looks at port 53 only, and at tracked pods only.
RepairDNSLiveness ==
  /\ "port" \notin answers /\ dnsTracked /\ Repairing("checker", "idle", "delete")
  /\ UNCHANGED <<answers, dnsBox, dnsTracked, db, seeder, deadChecks, dnsFaults>>
\* DeletePod, then CreatePod from the record; the other worker may be doing the same.
DeleteDead(w) ==
  /\ Repairing(w, "delete", "create")
  /\ answers' = {} /\ dnsBox' = FALSE /\ dnsTracked' = FALSE
  /\ UNCHANGED <<db, seeder, deadChecks, dnsFaults>>
RecreateDead(w) ==
  /\ Repairing(w, "create", "idle")
  /\ \/ /\ DnsWorks /\ dnsBox' = TRUE /\ dnsTracked' = TRUE /\ answers' = {"rest", "port"}
        /\ seeder' = IF w = "health" /\ deadChecks = 0 THEN seeder ELSE Spawned
     \/ DnsFails /\ UNCHANGED <<dnsBox, dnsTracked, answers, seeder>>
  /\ UNCHANGED <<db, deadChecks>>
\* The cycle creates the pod of the network again when it is not tracked, and seeds.
RecreateMissing ==
  /\ ~dnsTracked
  /\ \/ /\ DnsWorks /\ dnsBox' = TRUE /\ dnsTracked' = TRUE /\ answers' = {"rest", "port"}
        /\ seeder' = Spawned
     \/ DnsFails /\ UNCHANGED <<dnsBox, dnsTracked, answers, seeder>>
  /\ UNCHANGED <<db, repair, deadChecks>>

DnsInit ==
  /\ answers = {"rest", "port"} /\ dnsBox = TRUE /\ dnsTracked = TRUE /\ db = {}
  /\ seeder = "wait" /\ repair = [w \in Repairers |-> "idle"] /\ deadChecks = 0 /\ dnsFaults = 0
SeedStep ==
  \/ SeedWaits \/ seedDHCPPool \/ seedDHCPReservations \/ seedReservationDNSRecords
  \/ seedDNSForwarders
RepairStep(w) == DeleteDead(w) \/ RecreateDead(w)
DnsNext ==
  \/ ServerDies \/ DatabaseLost \/ ProbeRestarts \/ SeedStep \/ ReconcileDNSConfig
  \/ HealthCheck \/ RepairDNSLiveness \/ (\E w \in Repairers : RepairStep(w)) \/ RecreateMissing
\* Every loop of the process runs on, and so do the database probes of the watchdog.
DnsFairness ==
  /\ WF_dnsVars(SeedStep) /\ WF_dnsVars(ReconcileDNSConfig) /\ WF_dnsVars(HealthCheck)
  /\ WF_dnsVars(RepairDNSLiveness) /\ WF_dnsVars(ProbeRestarts) /\ WF_dnsVars(RecreateMissing)
  /\ \A w \in Repairers : WF_dnsVars(RepairStep(w))
DnsSpec == DnsInit /\ [][DnsNext]_dnsVars /\ DnsFairness

-----------------------------------------------------------------------------
(* Properties. *)

\* A server that dies, on one interface or on both, loses its database or is repaired by
\* two workers at once comes back and serves its pools, its records and its forwarders.
ServiceReturns == <>[](answers = {"rest", "port"} /\ {"pool", "record", "forwarder"} \subseteq db)
=============================================================================
