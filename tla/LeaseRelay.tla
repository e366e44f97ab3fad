----------------------------- MODULE LeaseRelay -----------------------------
(***************************************************************************)
(* The DHCP watcher of pkg/provider/dhcp_watcher.go: leases of the DNS     *)
(* servers, one to a network here, are told to the BMH operator over NATS. *)
(* A server announces a lease once, on NATS; a poll every five minutes     *)
(* finds what was missed.  The watcher decides once, at start, whether it  *)
(* is needed, and takes the names of hosts from an index that is rebuilt   *)
(* by some of the requests that change reservations.                       *)
(***************************************************************************)
EXTENDS Naturals

CONSTANTS
  LeaseNets,          \* networks
  Configured,         \* those of config.yaml; the others only the store knows
  MaxLeaseEdits,      \* bound: requests and leases
  MaxLeaseFaults      \* bound: failed calls, restarts, absences of the operator

ASSUME LeaseAssumption ==
  Configured \subseteq LeaseNets /\ MaxLeaseEdits \in Nat /\ MaxLeaseFaults \in Nat

VARIABLES
  configOn,     \* networks for which config.yaml enables DHCP
  enabled,      \* networks whose Network object enables it
  leases,       \* networks whose server holds the lease
  reserved,     \* networks whose object has a reservation, with a name, for its address
  index,        \* reservationsByIP, by network
  attached,     \* is there a store?
  subscribed, polls,
  toPoll,       \* networks that the poll under way has yet to ask
  events,       \* announcements on their way to the subscription
  listening,    \* does the operator listen?
  told,         \* told[n]: what the operator was told of n's lease
  leaseEdits, leaseFaults

leaseVars == <<configOn, enabled, leases, reserved, index, attached, subscribed, polls,
               toPoll, events, listening, told, leaseEdits, leaseFaults>>

LeaseTypeOK ==
  /\ configOn \subseteq Configured
  /\ \A s \in {enabled, leases, reserved, index, toPoll, events} : s \subseteq LeaseNets
  /\ {attached, subscribed, polls, listening} \subseteq BOOLEAN
  /\ told \in [LeaseNets -> {"no", "bare", "named"}]
  /\ leaseEdits \in 0 .. MaxLeaseEdits /\ leaseFaults \in 0 .. MaxLeaseFaults

LeaseEdit == leaseEdits < MaxLeaseEdits /\ leaseEdits' = leaseEdits + 1
LeaseFault == leaseFaults < MaxLeaseFaults /\ leaseFaults' = leaseFaults + 1
LeaseWorks == UNCHANGED leaseFaults

-----------------------------------------------------------------------------
(* Requests and servers. *)

\* PUT or PATCH of a Network turns DHCP on or off and rebuilds the index.
handleUpdateNetwork(n) ==
  /\ attached /\ LeaseEdit
  /\ enabled' = IF n \in enabled THEN enabled \ {n} ELSE enabled \cup {n}
  /\ index' = reserved
  /\ UNCHANGED <<configOn, leases, reserved, attached, subscribed, polls, toPoll, events,
                 listening, told, leaseFaults>>
\* A bare-metal host that is made or deleted changes the reservations and not the index.
upsertNetworkReservation(n) ==
  /\ attached /\ LeaseEdit /\ reserved' = reserved \cup {n}
  /\ UNCHANGED <<configOn, enabled, leases, index, attached, subscribed, polls, toPoll,
                 events, listening, told, leaseFaults>>
removeBMHFromNetwork(n) ==
  /\ attached /\ n \in reserved /\ LeaseEdit /\ reserved' = reserved \ {n}
  /\ UNCHANGED <<configOn, enabled, leases, index, attached, subscribed, polls, toPoll,
                 events, listening, told, leaseFaults>>

\* The server announces a new lease, which nobody may hear.  The end of one is not acted on.
LeaseCreated(n) ==
  /\ n \notin leases /\ LeaseEdit /\ leases' = leases \cup {n}
  /\ told' = [told EXCEPT ![n] = "no"]
  /\ \/ LeaseWorks /\ events' = IF subscribed THEN events \cup {n} ELSE events
     \/ LeaseFault /\ UNCHANGED events
  /\ UNCHANGED <<configOn, enabled, reserved, index, attached, subscribed, polls, toPoll,
                 listening>>
LeaseReleased(n) ==
  /\ n \in leases /\ leases' = leases \ {n}
  /\ UNCHANGED <<configOn, enabled, reserved, index, attached, subscribed, polls, toPoll,
                 events, listening, told, leaseEdits, leaseFaults>>

OperatorLeaves ==
  /\ listening /\ LeaseFault /\ listening' = FALSE
  /\ UNCHANGED <<configOn, enabled, leases, reserved, index, attached, subscribed, polls,
                 toPoll, events, told, leaseEdits>>
OperatorReturns ==
  /\ ~listening /\ listening' = TRUE
  /\ UNCHANGED <<configOn, enabled, leases, reserved, index, attached, subscribed, polls,
                 toPoll, events, told, leaseEdits, leaseFaults>>

-----------------------------------------------------------------------------
(* The watcher. *)

\* The network is always known, from the subject or from the poll, so that of the index
\* only the name is used.
publishDHCPEvent(n) ==
  told' = IF attached /\ listening
            THEN [told EXCEPT ![n] = IF n \in index THEN "named" ELSE "bare"]
            ELSE told
HandleLeaseEvent(n) ==
  /\ n \in events /\ events' = events \ {n} /\ publishDHCPEvent(n)
  /\ UNCHANGED <<configOn, enabled, leases, reserved, index, attached, subscribed, polls,
                 toPoll, listening, leaseEdits, leaseFaults>>

\* Networks of config.yaml are polled as config.yaml says, whatever their object says.
Polled == configOn \cup (IF attached THEN enabled \ Configured ELSE {})
\* Mutant of reconcileDHCPLeases: Network objects are not looked at.
reconcileConfigured ==
  /\ polls /\ toPoll = {} /\ configOn # {} /\ toPoll' = configOn
  /\ UNCHANGED <<configOn, enabled, leases, reserved, index, attached, subscribed, polls,
                 events, listening, told, leaseEdits, leaseFaults>>
reconcileDHCPLeases ==
  /\ polls /\ toPoll = {} /\ Polled # {} /\ toPoll' = Polled
  /\ UNCHANGED <<configOn, enabled, leases, reserved, index, attached, subscribed, polls,
                 events, listening, told, leaseEdits, leaseFaults>>
pollDHCPLeases(n) ==
  /\ n \in toPoll /\ toPoll' = toPoll \ {n}
  /\ \/ /\ LeaseWorks
        /\ IF n \in leases \cap Polled THEN publishDHCPEvent(n) ELSE UNCHANGED told
     \/ LeaseFault /\ UNCHANGED told
  /\ UNCHANGED <<configOn, enabled, leases, reserved, index, attached, subscribed, polls,
                 events, listening, leaseEdits>>

\* RunDHCPWatcher, after a start that reached the store or did not: if no network that it
\* can see has DHCP enabled the watcher ends.
RunDHCPWatcher(reached) ==
  LET needed == configOn # {} \/ (reached /\ enabled # {}) IN
  /\ polls' = needed /\ attached' = reached
  /\ index' = IF reached THEN reserved ELSE {}
  /\ subscribed' = (needed /\ reached)
LeaseRestart ==
  /\ LeaseFault /\ \E reached \in BOOLEAN : RunDHCPWatcher(reached)
  /\ toPoll' = {} /\ events' = {}
  /\ UNCHANGED <<configOn, enabled, leases, reserved, listening, told, leaseEdits>>
\* SetStore loads the Network objects and subscribes; it starts no poll.
LateStore ==
  /\ ~attached /\ attached' = TRUE /\ index' = reserved
  /\ \/ LeaseWorks /\ subscribed' = TRUE
     \/ LeaseFault /\ UNCHANGED subscribed
  /\ UNCHANGED <<configOn, enabled, leases, reserved, polls, toPoll, events, listening, told,
                 leaseEdits>>

LeaseInit ==
  /\ configOn \in SUBSET Configured /\ enabled \in SUBSET LeaseNets
  /\ leases = {} /\ reserved \in SUBSET LeaseNets /\ index = reserved
  /\ attached = TRUE /\ polls = (configOn # {} \/ enabled # {}) /\ subscribed = polls
  /\ toPoll = {} /\ events = {} /\ listening = TRUE
  /\ told = [n \in LeaseNets |-> "no"] /\ leaseEdits = 0 /\ leaseFaults = 0
LeaseNext ==
  \/ \E n \in LeaseNets :
       \/ handleUpdateNetwork(n) \/ upsertNetworkReservation(n) \/ removeBMHFromNetwork(n)
       \/ LeaseCreated(n) \/ LeaseReleased(n) \/ HandleLeaseEvent(n) \/ pollDHCPLeases(n)
  \/ OperatorLeaves \/ OperatorReturns \/ reconcileDHCPLeases \/ LeaseRestart \/ LateStore
\* The ticker of the watcher runs on, a poll ends, and the operator comes back.
LeaseFairness ==
  /\ WF_leaseVars(reconcileDHCPLeases) /\ WF_leaseVars(OperatorReturns)
  /\ \A n \in LeaseNets : WF_leaseVars(pollDHCPLeases(n))
LeaseSpec == LeaseInit /\ [][LeaseNext]_leaseVars /\ LeaseFairness

-----------------------------------------------------------------------------
(* Properties. *)

\* A lease that lasts, of a network that the polls reach, is told to the operator in the
\* end, with the host's name if the index has it, although announcements are lost, polls
\* fail, the operator is away and mkube restarts.
LeasesAreTold ==
  \A n \in LeaseNets :
    LET Watched == polls /\ attached /\ n \in leases /\ n \in Polled
        Told == told[n] # "no" /\ (n \in index => told[n] = "named")
    IN  Watched ~> (Told \/ ~Watched)
=============================================================================
