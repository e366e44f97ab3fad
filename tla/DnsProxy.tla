------------------------------ MODULE DnsProxy -------------------------------
(***************************************************************************)
(* The entries of one network's DNS server that users change through the   *)
(* API (dns_proxy.go).  The changes go to the server alone: mkube keeps no *)
(* copy of them, while the cycle and the consistency checker go on putting *)
(* there what the Network object asks for.  Pools and records have ids     *)
(* that the server gives and never gives again; reservations and           *)
(* forwarders are known by their MAC and their zone.                       *)
(***************************************************************************)
EXTENDS Naturals, FiniteSets

CONSTANTS
  MaxEdits,         \* bound: requests of users that change the server
  MaxProxyFaults    \* bound: lost databases, calls that fail
ASSUME ProxyAssumption == MaxEdits \in Nat /\ MaxProxyFaults \in Nat

\* A name, a subnet, a MAC or a zone is one that the Network object asks for or one that
\* only users know; what an entry says is what the object says or something else.
Names == {"asked", "mine"}
Says == {"net", "user"}
Ids == 0 .. MaxEdits + 4
Entry == [kind : {"pool", "reservation", "record", "forwarder"}, id : Ids, name : Names, says : Says]
Nothing == [kind |-> "none"]

VARIABLES
  entries,      \* what the server's database holds
  zoneKnown,    \* is the zone's id in the network manager that of the zone?
  patch,        \* the entry that a PATCH has read
  reseed,       \* seedDNSConfig: what it does next
  duplicates,   \* ids that InitDNSZones is about to delete
  listed,       \* the records that cleanStaleDNSRecords has listed
  edits, proxyFaults

proxyVars == <<entries, zoneKnown, patch, reseed, duplicates, listed, edits, proxyFaults>>

ProxyTypeOK ==
  /\ entries \subseteq Entry /\ zoneKnown \in BOOLEAN /\ patch \in Entry \cup {Nothing}
  /\ reseed \in {"none", "pool", "make", "reservation", "record", "forwarder"}
  /\ duplicates \subseteq Ids /\ listed \subseteq Entry
  /\ edits \in 0 .. MaxEdits /\ proxyFaults \in 0 .. MaxProxyFaults

Of(kind) == {e \in entries : e.kind = kind}
At(kind, name) == {e \in Of(kind) : e.name = name}
\* An id that nothing on the server has, and nothing that is under way.
FreshId ==
  LET taken == {e.id : e \in entries \cup listed} \cup duplicates
                 \cup (IF patch = Nothing THEN {} ELSE {patch.id})
  IN  CHOOSE i \in 1 .. Cardinality(taken) + 1 : i \notin taken

-----------------------------------------------------------------------------
(* The calls of the client. *)

Created(kind, name, says) ==
  entries' = entries \cup {[kind |-> kind, id |-> FreshId, name |-> name, says |-> says]}
CreateDHCPPool(name, says) == Created("pool", name, says)
CreateFullRecord(name, says) == Created("record", name, says)
\* An update by id: the server has no entry with an id that was deleted.
Updated(e, says) ==
  /\ \E old \in entries : old.kind = e.kind /\ old.id = e.id
  /\ entries' = {IF o.kind = e.kind /\ o.id = e.id THEN [o EXCEPT !.says = says] ELSE o : o \in entries}
UpdateDHCPPool(e, says) == e.kind = "pool" /\ Updated(e, says)
UpdateFullRecord(e, says) == e.kind = "record" /\ Updated(e, says)
\* POST, and PATCH when there is one for the MAC.
UpsertDHCPReservation(name, says) ==
  entries' = (entries \ At("reservation", name))
               \cup {[kind |-> "reservation", id |-> 0, name |-> name, says |-> says]}
\* POST; the conflict with one that is there is success.
EnsureDNSForwarder(name, says) ==
  entries' = IF At("forwarder", name) # {} THEN entries
             ELSE entries \cup {[kind |-> "forwarder", id |-> 0, name |-> name, says |-> says]}
\* RegisterHost: an A record with the name and the address is not made again.
RegisterAsked ==
  IF \E r \in At("record", "asked") : r.says = "net" THEN UNCHANGED entries
  ELSE CreateFullRecord("asked", "net")
Removed(e) == e \in entries /\ entries' = entries \ {e}
DeleteRecord(e) == e.kind = "record" /\ Removed(e)
DeleteDHCPPool(e) == e.kind = "pool" /\ Removed(e)
DeleteDHCPReservation(e) == e.kind = "reservation" /\ Removed(e)
DeleteDNSForwarder(e) == e.kind = "forwarder" /\ Removed(e)

-----------------------------------------------------------------------------
(* The handlers.  Each finds the server of the namespace; one whose call fails changes *)
(* nothing and says so.                                                                *)

resolveDNSEndpoint == edits < MaxEdits /\ edits' = edits + 1
WorkersRest == UNCHANGED <<reseed, duplicates, listed, proxyFaults>>
Request == resolveDNSEndpoint /\ WorkersRest /\ UNCHANGED <<zoneKnown, patch>>

handleCreateDNSRecord(name, says) == Request /\ CreateFullRecord(name, says)
handleCreateDHCPPool(name, says) == Request /\ CreateDHCPPool(name, says)
handleCreateDHCPReservation(name, says) == Request /\ UpsertDHCPReservation(name, says)
handleCreateDNSForwarder(name, says) == Request /\ EnsureDNSForwarder(name, says)
handleUpdateDNSRecord(e, says) == Request /\ UpdateFullRecord(e, says)
handleUpdateDHCPPool(e, says) == Request /\ UpdateDHCPPool(e, says)
handleUpdateDHCPReservation(name, says) == Request /\ UpsertDHCPReservation(name, says)
handleDeleteDNSRecord(e) == Request /\ DeleteRecord(e)
handleDeleteDHCPPool(e) == Request /\ DeleteDHCPPool(e)
handleDeleteDHCPReservation(e) == Request /\ DeleteDHCPReservation(e)
handleDeleteDNSForwarder(e) == Request /\ DeleteDNSForwarder(e)

\* A PATCH reads the entry, lays its fields over it and writes all of them: what the entry
\* says is what was read, unless the request names it.
ReadForPatch(e) ==
  /\ patch = Nothing /\ e.kind # "forwarder" /\ patch' = e /\ resolveDNSEndpoint
  /\ WorkersRest /\ UNCHANGED <<entries, zoneKnown>>
PatchWrites == patch' = Nothing /\ WorkersRest /\ UNCHANGED <<zoneKnown, edits>>
handlePatchDNSRecord(says) == patch.kind = "record" /\ PatchWrites /\ UpdateFullRecord(patch, says)
handlePatchDHCPPool(says) == patch.kind = "pool" /\ PatchWrites /\ UpdateDHCPPool(patch, says)
handlePatchDHCPReservation(says) ==
  patch.kind = "reservation" /\ PatchWrites /\ UpsertDHCPReservation(patch.name, says)
PatchFails == patch # Nothing /\ PatchWrites /\ UNCHANGED entries

CreateRequest(name, says) ==
  \/ handleCreateDNSRecord(name, says) \/ handleCreateDHCPPool(name, says)
  \/ handleCreateDHCPReservation(name, says) \/ handleCreateDNSForwarder(name, says)
  \/ handleUpdateDHCPReservation(name, says)
EntryRequest(e) ==
  \/ \E says \in Says : handleUpdateDNSRecord(e, says) \/ handleUpdateDHCPPool(e, says)
  \/ handleDeleteDNSRecord(e) \/ handleDeleteDHCPPool(e) \/ handleDeleteDHCPReservation(e)
  \/ handleDeleteDNSForwarder(e) \/ ReadForPatch(e)
WritePatch ==
  \/ \E says \in Says :
       handlePatchDNSRecord(says) \/ handlePatchDHCPPool(says) \/ handlePatchDHCPReservation(says)
  \/ PatchFails

-----------------------------------------------------------------------------
(* The cycle: InitDNSZones, then reconcileDNSConfig and the seeding it starts. *)

UsersRest == UNCHANGED <<patch, edits>>
ProxyFails == proxyFaults < MaxProxyFaults /\ proxyFaults' = proxyFaults + 1
ProxyWorks == UNCHANGED proxyFaults

\* InitDNSZones finds or makes the zone and lists its duplicates, all but one of those with
\* a name and an address.
InitDNSZones ==
  /\ duplicates = {} /\ zoneKnown' = TRUE
  /\ \E spare \in SUBSET Of("record") :
       /\ \A r \in Of("record") :
            Cardinality({o \in Of("record") \ spare : o.name = r.name /\ o.says = r.says}) = 1
       /\ duplicates' = {r.id : r \in spare}
  /\ UsersRest /\ UNCHANGED <<entries, reseed, listed>> /\ ProxyWorks
\* It deletes them by their ids, whatever they say by then.
DeleteDuplicates ==
  /\ duplicates # {} /\ duplicates' = {}
  /\ \/ ProxyWorks /\ entries' = {e \in entries : e.kind = "record" => e.id \notin duplicates}
     \/ ProxyFails /\ UNCHANGED entries
  /\ UsersRest /\ UNCHANGED <<zoneKnown, reseed, listed>>

\* Mutant of ReconcileAsked: seeding waits for the pools alone, as it once did.
ReconcilePools ==
  /\ reseed = "none"
  /\ IF Of("pool") = {} THEN reseed' = "pool" /\ UNCHANGED entries
     ELSE EnsureDNSForwarder("asked", "net") /\ UNCHANGED reseed
  /\ UsersRest /\ UNCHANGED <<zoneKnown, duplicates, listed>> /\ ProxyWorks
\* Seed again when there is no pool at all, or no record for a name that is asked for.
ReconcileAsked ==
  /\ reseed = "none"
  /\ IF Of("pool") = {} \/ At("record", "asked") = {} THEN reseed' = "pool" /\ UNCHANGED entries
     ELSE EnsureDNSForwarder("asked", "net") /\ UNCHANGED reseed
  /\ UsersRest /\ UNCHANGED <<zoneKnown, duplicates, listed>> /\ ProxyWorks
Seeding(from, to) ==
  reseed = from /\ reseed' = to /\ UsersRest /\ UNCHANGED <<zoneKnown, duplicates, listed>>
\* A pool is made when the listing has none for the subnet; users may make one meanwhile.
ListPools ==
  /\ Seeding("pool", IF At("pool", "asked") = {} THEN "make" ELSE "reservation")
  /\ UNCHANGED entries /\ ProxyWorks
Seeded(from, to, call) ==
  Seeding(from, to) /\ ((ProxyWorks /\ call) \/ (ProxyFails /\ UNCHANGED entries))
SeedEntry ==
  \/ ListPools
  \/ Seeded("make", "reservation", CreateDHCPPool("asked", "net"))
  \/ Seeded("reservation", "record", UpsertDHCPReservation("asked", "net"))
  \/ Seeded("record", "forwarder", RegisterAsked)
  \/ Seeded("forwarder", "none", EnsureDNSForwarder("asked", "net"))

-----------------------------------------------------------------------------
(* The checker, and the server. *)

\* cleanStaleDNSRecords lists the zone by the id that the manager has.
ListRecords ==
  /\ listed = {} /\ zoneKnown /\ listed' = Of("record")
  /\ UsersRest /\ UNCHANGED <<entries, zoneKnown, reseed, duplicates>> /\ ProxyWorks
Swept(stale) ==
  /\ listed # {} /\ listed' = {}
  /\ \/ ProxyWorks /\ entries' = {e \in entries : e.kind = "record" => e.id \notin {r.id : r \in stale}}
     \/ ProxyFails /\ UNCHANGED entries
  /\ UsersRest /\ UNCHANGED <<zoneKnown, reseed, duplicates>>
\* Mutant of CleanListed: a name that mkube does not know goes too, as it once did.
CleanUnknown == Swept({r \in listed : r.name = "mine" \/ r.says # "net"})
\* A listed record goes when mkube knows its name and it has another address.
CleanListed == Swept({r \in listed : r.name = "asked" /\ r.says # "net"})

ServerLosesAll ==
  /\ ProxyFails /\ entries' = {} /\ zoneKnown' = FALSE
  /\ UsersRest /\ UNCHANGED <<reseed, duplicates, listed>>

ProxyInit ==
  /\ entries = {} /\ zoneKnown = FALSE /\ patch = Nothing /\ reseed = "none"
  /\ duplicates = {} /\ listed = {} /\ edits = 0 /\ proxyFaults = 0
ZoneStep == InitDNSZones \/ DeleteDuplicates
SweepStep == ListRecords \/ CleanListed
ProxyNext ==
  \/ (\E name \in Names, says \in Says : CreateRequest(name, says))
  \/ (\E e \in entries : EntryRequest(e)) \/ WritePatch
  \/ ZoneStep \/ ReconcileAsked \/ SeedEntry \/ SweepStep \/ ServerLosesAll
\* The cycle and the checker run on; a request may stop between its read and its write.
ProxyFairness ==
  /\ WF_proxyVars(ZoneStep) /\ WF_proxyVars(ReconcileAsked) /\ WF_proxyVars(SeedEntry)
  /\ WF_proxyVars(SweepStep)
ProxySpec == ProxyInit /\ [][ProxyNext]_proxyVars /\ ProxyFairness

-----------------------------------------------------------------------------
(* Properties. *)

\* A record that users made under a name of theirs stays as they left it until they change
\* it or the server loses its database: neither the seeding nor the checker, which work
\* from listings, takes it away.  A duplicate that the cycle has listed is the exception.
UsersRecordStays ==
  [][\A r \in At("record", "mine") :
       r \in entries' \/ r.id \in duplicates \/ edits' # edits \/ patch' # patch
         \/ proxyFaults' # proxyFaults]_proxyVars
\* Whatever users change, delete or write back from an old reading, the network comes to
\* have a pool and the forwarder again, and the name that the Network object asks for
\* comes to lead to its address and to no other.
AskedIsServed ==
  <>[](/\ Of("pool") # {} /\ At("forwarder", "asked") # {}
       /\ {r.says : r \in At("record", "asked")} = {"net"})
=============================================================================
