----------------------------- MODULE DnsRecords -----------------------------
(***************************************************************************)
(* The custom DNS records of one customer: rows of domain_dns, the zone    *)
(* the daemon builds from them, and the feature without which there may be *)
(* none.                                                                   *)
(*                                                                         *)
(* customerUpdate withdraws the feature only from a customer who has no    *)
(* record left, counts before its transaction, and clears the rows that    *)
(* are going away itself.                                                  *)
(*                                                                         *)
(* A record's name, type and text are one value.  The status of a record's *)
(* host is left out, as are records that a plugin owns: nothing here       *)
(* touches them.                                                           *)
(***************************************************************************)
EXTENDS Integers, FiniteSets, PanelProcesses

CONSTANTS
    Records,   \* ids of rows
    Contents   \* what a record may say

ASSUME DnsConfigured ==
    /\ IsFiniteSet(Records)
    /\ None \notin Procs \cup Records \cup Contents
    /\ "feature" \notin Records

VARIABLES
    record,    \* domain_dns, by id
    zone,      \* what the name server was last told of each record
    customDns, \* domain.domain_dns: whether the customer has the feature
    newIds,    \* the ids AUTO_INCREMENT has still to give
    building,  \* the row the daemon is working off
    dnsCall    \* the mutation of each process

dnsVars == <<record, zone, customDns, newIds, building, dnsCall>>

---------------------------------------------------------------------------

(* "switched" is what customerSetState makes of a row and the daemon of    *)
(* that: "toenable", "todisable" or "disabled".                            *)
DnsRows == [status : {"toadd", "ok", "tochange", "switched", "todelete", "error"}, content : Contents]

NoRecord == [status |-> "absent", content |-> None]

(* The record, what is to be written, and what others have changed since   *)
(* it was read: records, and the feature.                                  *)
DnsCalls == [op : {"create", "update", "delete", "withdraw", "grant"}, id : Records \cup {None},
             content : Contents \cup {None}, since : SUBSET (Records \cup {"feature"})]

DnsTypeOK ==
    /\ record \in [Records -> DnsRows \cup {NoRecord}]
    /\ zone \in [Records -> Contents \cup {None}]
    /\ customDns \in BOOLEAN
    /\ newIds \subseteq Records
    /\ building = None \/ (building.id \in Records /\ building.row \in DnsRows)
    /\ dnsCall \in [Procs -> DnsCalls \cup {None}]

HasRow(i) == record[i] # NoRecord

SaysNo(v) == \A i \in Records : record[i].content # v

DnsInit ==
    /\ record = [i \in Records |-> NoRecord]
    /\ zone = [i \in Records |-> None]
    /\ customDns \in BOOLEAN
    /\ newIds = Records
    /\ building = None
    /\ dnsCall = [p \in Procs |-> None]

---------------------------------------------------------------------------

Asks(p, op, i, v) ==
    /\ dnsCall[p] = None
    /\ dnsCall' = [dnsCall EXCEPT ![p] = [op |-> op, id |-> i, content |-> v, since |-> {}]]
    /\ UNCHANGED <<record, zone, customDns, newIds, building>>

Decided(p, op) == dnsCall[p] # None /\ dnsCall[p].op = op

(* What the others have read of these is no longer so. *)
Outdates(calls, changed) ==
    [q \in Procs |-> IF calls[q] = None THEN None ELSE [calls[q] EXCEPT !.since = @ \cup changed]]

Ends(p, changed) == dnsCall' = Outdates([dnsCall EXCEPT ![p] = None], changed)

(* A record that says the same is a CONFLICT, going away or not. *)
DnsCreateCheck(p, v) ==
    /\ customDns
    /\ Asks(p, "create", None, v)

DnsCreateCommit(p) ==
    /\ Decided(p, "create")
    /\ LET v == dnsCall[p].content
       IN  \/ \E i \in newIds :
                 /\ SaysNo(v)
                 /\ record' = [record EXCEPT ![i] = [status |-> "toadd", content |-> v]]
                 /\ newIds' = newIds \ {i}
                 /\ Ends(p, {i})
           \/ /\ ~SaysNo(v)
              /\ Ends(p, {})
              /\ UNCHANGED <<record, newIds>>
    /\ UNCHANGED <<zone, customDns, building>>

DnsUpdateCheck_AnyState(p, i, v) ==   \* mutant: as dns_edit.php, which does not ask for the status
    /\ customDns
    /\ HasRow(i)
    /\ Asks(p, "update", i, v)

DnsUpdateCheck(p, i, v) ==
    /\ customDns
    /\ record[i].status = "ok"
    /\ Asks(p, "update", i, v)

DnsUpdateCommit(p) ==
    /\ Decided(p, "update")
    /\ LET i == dnsCall[p].id
           v == dnsCall[p].content
       IN  \/ /\ HasRow(i) /\ (record[i].content = v \/ SaysNo(v))
              /\ record' = [record EXCEPT ![i] = [status |-> "tochange", content |-> v]]
              /\ Ends(p, {i})
           \/ /\ ~HasRow(i) \/ (record[i].content # v /\ ~SaysNo(v))
              /\ Ends(p, {})
              /\ UNCHANGED record
    /\ UNCHANGED <<zone, customDns, newIds, building>>

DnsDeleteCheck(p, i) ==
    /\ customDns
    /\ record[i].status \in {"ok", "error"}
    /\ Asks(p, "delete", i, None)

DnsDeleteCommit(p) ==
    /\ Decided(p, "delete")
    /\ LET i == dnsCall[p].id
       IN  /\ record' = IF HasRow(i) THEN [record EXCEPT ![i].status = "todelete"] ELSE record
           /\ Ends(p, {i})
    /\ UNCHANGED <<zone, customDns, newIds, building>>

(* customerUpdate with customDns off, then on.  Records going away do not  *)
(* keep the feature, and the DELETE takes whatever is there by then.       *)
WithdrawDnsCheck(p) ==
    /\ customDns
    /\ \A i \in Records : record[i].status \in {"todelete", "absent"}
    /\ Asks(p, "withdraw", None, None)

WithdrawDnsCommit(p) ==
    /\ Decided(p, "withdraw")
    /\ record' = [i \in Records |-> NoRecord]
    /\ customDns' = FALSE
    /\ Ends(p, {i \in Records : HasRow(i)} \cup {"feature"})
    /\ UNCHANGED <<zone, newIds, building>>

GrantDnsCheck(p) == ~customDns /\ Asks(p, "grant", None, None)

GrantDnsCommit(p) ==
    /\ Decided(p, "grant")
    /\ customDns' = TRUE
    /\ Ends(p, {"feature"})
    /\ UNCHANGED <<record, zone, newIds, building>>

(* customerSetState writes over every row, also where it is to be deleted. *)
DnsSetState(p) ==
    /\ dnsCall[p] = None
    /\ record' = [i \in Records |->
                     IF HasRow(i) THEN [record[i] EXCEPT !.status = "switched"] ELSE record[i]]
    /\ Ends(p, {i \in Records : HasRow(i)})
    /\ UNCHANGED <<zone, customDns, newIds, building>>

(* The transaction fails, or the process dies in it. *)
DnsRollback(p) ==
    /\ dnsCall[p] # None
    /\ dnsCall' = [dnsCall EXCEPT ![p] = None]
    /\ UNCHANGED <<record, zone, customDns, newIds, building>>

DnsStep(p) ==
    \/ \E v \in Contents : DnsCreateCheck(p, v)
    \/ \E i \in Records, v \in Contents : DnsUpdateCheck(p, i, v)
    \/ \E i \in Records : DnsDeleteCheck(p, i)
    \/ WithdrawDnsCheck(p) \/ GrantDnsCheck(p)
    \/ DnsCreateCommit(p) \/ DnsUpdateCommit(p) \/ DnsDeleteCommit(p)
    \/ WithdrawDnsCommit(p) \/ GrantDnsCommit(p)
    \/ DnsSetState(p)
    \/ DnsRollback(p)

---------------------------------------------------------------------------
(* The daemon reads a row, tells the name server, then writes how it went; *)
(* the row may have been written, or deleted, in between.                  *)

DnsDaemonTake(i) ==
    /\ building = None
    /\ record[i].status \in {"toadd", "tochange", "switched", "todelete"}
    /\ building' = [id |-> i, row |-> record[i]]
    /\ UNCHANGED <<record, zone, customDns, newIds, dnsCall>>

DnsDaemonDone ==
    /\ building # None
    /\ building' = None
    /\ LET i    == building.id
           gone == building.row.status = "todelete"
       IN  /\ \/ /\ record' = IF HasRow(i) THEN [record EXCEPT ![i].status = "error"] ELSE record
                 /\ UNCHANGED zone
              \/ /\ building.row.status = "switched"      \* off
                 /\ record' = IF HasRow(i) THEN [record EXCEPT ![i].status = "switched"] ELSE record
                 /\ zone' = [zone EXCEPT ![i] = None]
              \/ /\ record' = IF gone THEN [record EXCEPT ![i] = NoRecord]
                              ELSE IF HasRow(i) THEN [record EXCEPT ![i].status = "ok"] ELSE record
                 /\ zone' = [zone EXCEPT ![i] = IF gone THEN None ELSE building.row.content]
           /\ dnsCall' = Outdates(dnsCall, {i})
    /\ UNCHANGED <<customDns, newIds>>

DnsNext == DnsDaemonDone \/ (\E i \in Records : DnsDaemonTake(i)) \/ \E p \in Procs : DnsStep(p)

DnsSpec == DnsInit /\ [][DnsNext]_dnsVars

---------------------------------------------------------------------------
(* Properties. *)

(* What the zone says has a row to change and to delete it by. *)
Removable(i) == zone[i] # None => HasRow(i)

(* p commits on what it read before another changed one of these.          *)
Outdated(p, names) == dnsCall[p] # None /\ dnsCall'[p] = None /\ dnsCall[p].since \cap names # {}

(* The daemon marks as done a row that has changed since it took it.       *)
Overwritten(i) == building # None /\ building' = None /\ building.id = i /\ record[i] # building.row

(* A withdrawal clears a row whose deletion is still the daemon's to do.   *)
Cleared(p, i) == Decided(p, "withdraw") /\ dnsCall'[p] = None /\ record[i].status = "todelete"

(* A record that is ok is in the zone as it stands, a record being deleted *)
(* stays so unless customerSetState writes over it, what is in the zone    *)
(* has a row, and a customer without the feature has no records.  What is  *)
(* so is broken only by a mutation of which another has overtaken what it  *)
(* read, by a daemon that was overtaken, or - a row for a zone's record -  *)
(* by a withdrawal while the daemon still owes a deletion.                 *)
ZonePartsByOverlap ==
    [][/\ \A i \in Records :
             \/ /\ (record[i].status = "ok" => zone[i] = record[i].content)
                      => (record'[i].status = "ok" => zone'[i] = record'[i].content)
                /\ record[i].status = "todelete" => record'[i].status \in {"todelete", "absent", "error", "switched"}
                /\ Removable(i) => Removable(i)'
             \/ Overwritten(i)
             \/ \E p \in Procs : Outdated(p, {i}) \/ Cleared(p, i)
       /\ (~customDns => \A i \in Records : ~HasRow(i)) => (~customDns' => \A i \in Records : ~HasRow(i)')
             \/ \E p \in Procs : Outdated(p, {"feature"})]_dnsVars
=============================================================================
