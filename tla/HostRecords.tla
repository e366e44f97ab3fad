----------------------------- MODULE HostRecords -----------------------------
(***************************************************************************)
(* What the bare-metal host handlers keep in step (baremetalhost.go,       *)
(* bootconfig_crd.go): a host object, the DHCP reservation of its boot MAC *)
(* on its network, its A record, and its entry in the list of hosts that   *)
(* use its boot config.  Each has a copy in memory and one in the store;   *)
(* the DNS server of the network has its own.  Handlers run one at a time. *)
(*                                                                         *)
(* Hosts are kept by namespace and name; the list of a boot config and the *)
(* A records have the bare name (each host has its own address).           *)
(* The reservation on the management network is made by the same           *)
(* operators with other fields and is left out.                            *)
(***************************************************************************)
EXTENDS Naturals, FiniteSets

CONSTANTS
  BareHosts, DataNets, BootConfigs,
  HostNames,
  MacCount,         \* MacCount[h]: how many boot MACs the host h has had
  NetsOf,           \* NetsOf[h]: the networks that requests put the host h on
  NoHost,           \* no object, no reference
  MaxTears          \* requests that lose writes, lists that a client sends

ASSUME HostAssumption ==
  NoHost \notin DataNets \cup BootConfigs /\ MacCount \in [BareHosts -> Nat] /\ MaxTears \in Nat

VARIABLES
  nameOf,       \* the name of each host in its namespace
  hostObjs,     \* hostObjs[c][h]: the object of host h in copy c
  resv,         \* resv[c][n]: the MACs reserved on network n in copy c
  inUse,        \* inUse[c][b]: is there a boot config b, and its status, the names of its hosts
  aRecords,     \* the A records that the DNS servers hold: <<n, h>> has the address of h
  bound,        \* history: bound[h], the boot config that h took when it existed
  torn,         \* history: hosts of which some copy lacks something since their last write or
                \*          deletion, or whose entry a client took off its boot config
  scars,        \* history: hosts that lost writes, boot configs whose list a client wrote
  shared,       \* history: names that two hosts have had at once
  tears

hostVars == <<nameOf, hostObjs, resv, inUse, aRecords, bound, torn, scars, shared, tears>>

Macs(h) == {<<h, i>> : i \in 1 .. MacCount[h]}
AllMacs == UNION {Macs(h) : h \in BareHosts}
Host == [net : DataNets, mac : AllMacs, ref : BootConfigs \cup {NoHost}]
HostOf(h) == {o \in Host : o.mac \in Macs(h) /\ o.net \in NetsOf[h]}
Copies == {"mem", "store"}
Absent == [net |-> NoHost, ref |-> NoHost]
HostTypeOK ==
  /\ nameOf \in [BareHosts -> HostNames]
  /\ \A c \in Copies, h \in BareHosts : hostObjs[c][h] \in HostOf(h) \cup {Absent}
  /\ resv \in [Copies \cup {"dns"} -> [DataNets -> SUBSET AllMacs]]
  /\ inUse \in [Copies -> [BootConfigs -> [there : BOOLEAN, by : SUBSET HostNames]]]
  /\ aRecords \subseteq DataNets \X BareHosts
  /\ bound \in [BareHosts -> BootConfigs \cup {NoHost}]
  /\ torn \subseteq BareHosts /\ scars \subseteq BareHosts \cup BootConfigs
  /\ shared \subseteq HostNames /\ tears \in 0 .. MaxTears

Known(h) == hostObjs["mem"][h] # Absent
Both(f, x, val) == [c \in Copies |-> [f[c] EXCEPT ![x] = val]]
Namesakes(h) == {k \in BareHosts \ {h} : nameOf[k] = nameOf[h]}

-----------------------------------------------------------------------------
(* The parts of the handlers.  A request loses a set of its writes:        *)
(* <<"store", n>>, the object of network n; <<"dns", n>>, the reservation  *)
(* at its server; <<"record", n>>, the A records there; <<"config", b>>,   *)
(* a boot config; <<"object", h>>, the deletion of a host.                 *)

\* The boot MAC leaves the network from, where it is reserved, and is put on the network
\* to.  The whole network goes to the store; if that fails the server is not told.
SyncedResv(mac, from, to, lost) ==
  LET Moved(macs, n) ==
        IF n = to THEN macs \cup {mac}
        ELSE IF n = from /\ mac \in resv["mem"][n] THEN macs \ {mac} ELSE macs
      written == {n \in {from, to} \cap DataNets :
                    (n = to \/ mac \in resv["mem"][n]) /\ <<"store", n>> \notin lost}
      nets == [n \in DataNets |-> Moved(resv["mem"][n], n)]
  IN  [c \in DOMAIN resv |-> [n \in DataNets |->
         CASE c = "mem"   -> nets[n]
           [] c = "store" -> IF n \in written THEN nets[n] ELSE resv[c][n]
           [] c = "dns"   -> IF n \in written /\ <<"dns", n>> \notin lost
                               THEN Moved(resv[c][n], n) ELSE resv[c][n]]]
\* The other records of the name on the new network are stale.
SyncedRecords(h, from, to, lost) ==
  LET here == {n \in DataNets : <<"record", n>> \notin lost}
  IN  {r \in aRecords : /\ r = <<from, h>> /\ from \in here => from = to
                        /\ r[1] = to /\ to \in here => r[2] \notin Namesakes(h)}
        \cup {<<n, h>> : n \in here \cap {to}}

\* Mutant of SyncedUse: a host that keeps its boot config is taken off its list.
SyncedUseDropped(n, from, to) ==
  [b \in BootConfigs |->
     IF ~inUse["mem"][b].there THEN inUse["mem"][b]
     ELSE IF b = from THEN [inUse["mem"][b] EXCEPT !.by = @ \ {n}]
     ELSE IF b = to THEN [inUse["mem"][b] EXCEPT !.by = @ \cup {n}]
     ELSE inUse["mem"][b]]
\* syncBootConfigRef, for boot configs that exist: n is the bare name of the host.
SyncedUse(n, from, to) ==
  [b \in BootConfigs |->
     IF ~inUse["mem"][b].there THEN inUse["mem"][b]
     ELSE IF b = to THEN [inUse["mem"][b] EXCEPT !.by = @ \cup {n}]
     ELSE IF b = from THEN [inUse["mem"][b] EXCEPT !.by = @ \ {n}]
     ELSE inUse["mem"][b]]
\* The boot config that the host leaves is always written, the one it takes only if its
\* list in memory changes.
PutUse(n, from, to, lost) ==
  LET use == SyncedUse(n, from, to)
      written == {b \in BootConfigs :
                    /\ use[b] # inUse["mem"][b] \/ (b = from /\ from # to)
                    /\ <<"config", b>> \notin lost}
  IN  [inUse EXCEPT !["mem"] = use,
                    !["store"] = [b \in BootConfigs |-> IF b \in written THEN use[b] ELSE @[b]]]

\* The sets of writes, of those on some networks and boot configs, that a request can lose.
Losses(nets, refs, others) ==
  IF tears = MaxTears THEN {{}}
  ELSE SUBSET (({"store", "dns", "record"} \X (nets \cap DataNets))
                 \cup ({"config"} \X (refs \cap BootConfigs)) \cup others)
\* What the history makes of a request on host h.
Scar(h, lost) ==
  IF lost = {} THEN UNCHANGED <<scars, tears>>
  ELSE tears' = tears + 1 /\ scars' = scars \cup {h}
Meets(h) == shared' = IF \E k \in Namesakes(h), c \in Copies : hostObjs[c][k] # Absent
                        THEN shared \cup {nameOf[h]} ELSE shared
\* Does every copy have what the host needs?
Lands(h, new) ==
  /\ \A c \in DOMAIN resv : new.mac \in resv'[c][new.net]
  /\ <<new.net, h>> \in aRecords'
  /\ bound'[h] # NoHost => nameOf[h] \in inUse'["store"][new.ref].by

-----------------------------------------------------------------------------
(* The handlers. *)

\* The object, its reservation and record, its boot config.
WriteHost(h, new) ==
  LET old == IF Known(h) THEN hostObjs["mem"][h] ELSE Absent IN
  /\ hostObjs' = Both(hostObjs, h, new)
  /\ bound' = [bound EXCEPT ![h] =
                 IF new.ref = NoHost THEN NoHost
                 ELSE IF inUse["mem"][new.ref].there THEN new.ref ELSE NoHost]
  /\ \E lost \in Losses({old.net, new.net}, {old.ref, new.ref}, {}) :
       /\ resv' = SyncedResv(new.mac, old.net, new.net, lost)
       /\ aRecords' = SyncedRecords(h, old.net, new.net, lost)
       /\ inUse' = PutUse(nameOf[h], old.ref, new.ref, lost)
       /\ Scar(h, lost)
  /\ torn' = IF Lands(h, new) THEN torn \ {h} ELSE torn \cup {h}
  /\ Meets(h) /\ UNCHANGED nameOf
CreateBMH(h, new) == ~Known(h) /\ WriteHost(h, new)
\* PUT, and PATCH, which lays some of the new fields over a copy of the object.
UpdateBMH(h, new) == Known(h) /\ WriteHost(h, new)
\* A deletion whose writes fail, that of the object too, is only logged.
DeleteBMH(h) ==
  LET old == hostObjs["mem"][h] IN
  /\ Known(h)
  /\ \E lost \in Losses({old.net}, {old.ref}, {<<"object", h>>}) :
       /\ resv' = SyncedResv(old.mac, old.net, NoHost, lost)
       /\ aRecords' = SyncedRecords(h, old.net, NoHost, lost)
       /\ inUse' = PutUse(nameOf[h], old.ref, NoHost, lost)
       /\ hostObjs' = IF <<"object", h>> \in lost THEN [hostObjs EXCEPT !["mem"][h] = Absent]
                      ELSE Both(hostObjs, h, Absent)
       /\ torn' = IF <<"object", h>> \in lost THEN torn \cup {h} ELSE torn \ {h}
       /\ Scar(h, lost)
  /\ bound' = [bound EXCEPT ![h] = NoHost]
  /\ UNCHANGED <<nameOf, shared>>

ConfigStep == UNCHANGED <<nameOf, hostObjs, resv, aRecords, bound, shared>>
CreateBootConfig(b) ==
  /\ ~inUse["mem"][b].there
  /\ inUse' = Both(inUse, b, [there |-> TRUE, by |-> {}])
  /\ ConfigStep /\ UNCHANGED <<torn, scars, tears>>
\* PUT keeps the list, unless the client sends a status, and then with or without a list;
\* PATCH replaces the list if it names one.
SendsList(b, by) ==
  /\ inUse["mem"][b].there /\ by # inUse["mem"][b].by
  /\ inUse' = Both(inUse, b, [there |-> TRUE, by |-> by])
  /\ tears < MaxTears /\ tears' = tears + 1 /\ scars' = scars \cup {b}
  /\ torn' = torn \cup {h \in BareHosts : bound[h] = b /\ nameOf[h] \notin by}
  /\ ConfigStep
\* Refused while the list is not empty; a failed write refuses, too.
DeleteBootConfig(b) ==
  /\ inUse["mem"][b].there /\ inUse["mem"][b].by = {}
  /\ inUse' = Both(inUse, b, [there |-> FALSE, by |-> {}])
  /\ ConfigStep /\ UNCHANGED <<torn, scars, tears>>

LoadBootConfigsFromStore == inUse' = [c \in Copies |-> inUse["store"]]
\* "debug endpoint that reloads BMH": what the store has, over what memory has.
ReloadBMH ==
  /\ hostObjs' = [hostObjs EXCEPT !["mem"] = [h \in BareHosts |->
                    IF hostObjs["store"][h] # Absent THEN hostObjs["store"][h] ELSE @[h]]]
  /\ UNCHANGED <<nameOf, resv, inUse, aRecords, bound, torn, scars, shared, tears>>
\* A restart loads everything; a crash in a request is a restart after the lost writes.
RestartHosts ==
  /\ hostObjs' = [c \in Copies |-> hostObjs["store"]]
  /\ resv' = [resv EXCEPT !["mem"] = resv["store"]]
  /\ LoadBootConfigsFromStore
  /\ UNCHANGED <<nameOf, aRecords, bound, torn, scars, shared, tears>>

HostInit ==
  /\ nameOf \in [BareHosts -> HostNames]
  /\ hostObjs = [c \in Copies |-> [h \in BareHosts |-> Absent]]
  /\ resv = [c \in Copies \cup {"dns"} |-> [n \in DataNets |-> {}]]
  /\ inUse = [c \in Copies |-> [b \in BootConfigs |-> [there |-> FALSE, by |-> {}]]]
  /\ aRecords = {} /\ bound = [h \in BareHosts |-> NoHost]
  /\ torn = {} /\ scars = {} /\ shared = {} /\ tears = 0
HostNext ==
  \/ \E h \in BareHosts : \/ \E new \in HostOf(h) : CreateBMH(h, new) \/ UpdateBMH(h, new)
                          \/ DeleteBMH(h)
  \/ \E b \in BootConfigs : \/ CreateBootConfig(b) \/ DeleteBootConfig(b)
                            \/ \E by \in SUBSET HostNames : SendsList(b, by)
  \/ ReloadBMH \/ RestartHosts
HostSpec == HostInit /\ [][HostNext]_hostVars

-----------------------------------------------------------------------------
(* Properties. *)

\* A known host that is not torn has its MAC reserved on its network, in memory, in the store
\* and at the server, and its A record there, unless it had to leave the record to a host of
\* the same name that was written later.  If it never lost a write it has no other record.
Reserved ==
  \A h \in BareHosts : Known(h) =>
    LET o == hostObjs["mem"][h]
        at == {n \in DataNets : <<n, h>> \in aRecords} IN
    /\ h \notin torn => \A c \in DOMAIN resv : o.mac \in resv[c][o.net]
    /\ h \notin torn /\ nameOf[h] \notin shared => o.net \in at
    /\ h \notin scars => at \subseteq {o.net}

\* "Block delete if BMHs reference this config": a boot config that a host has taken is
\* there, and lists it, in both copies, as long as the host refers to it and shares its name
\* with no other.  Without a lost write every name on a list is that of a host that refers to it.
ConfigsInUseStay ==
  /\ \A h \in BareHosts : bound[h] # NoHost /\ h \notin torn /\ nameOf[h] \notin shared =>
       \A c \in Copies : inUse[c][bound[h]].there /\ nameOf[h] \in inUse[c][bound[h]].by
  /\ scars = {} => \A b \in BootConfigs : \A n \in inUse["mem"][b].by :
       \E h \in BareHosts : Known(h) /\ nameOf[h] = n /\ hostObjs["mem"][h].ref = b

\* Both hold after any sequence of requests, moves between networks, changes of MAC, failed
\* writes, crashes and restarts; what one host lost does no harm to another, and a later
\* write that lands everywhere makes it good (syncBMHToNetwork, syncBootConfigRef).
HostsInStep == Reserved /\ ConfigsInUseStay
=============================================================================
