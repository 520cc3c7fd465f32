---------------------------- MODULE HostOverlap ----------------------------
(***************************************************************************)
(* Several workers on the hosts of one customer.  What each mutation       *)
(* promises on its own (two hosts never share a name, a host's rows come   *)
(* and go with it, the alias limit holds) is lost when a second worker     *)
(* commits between its reads and its transaction.  Two history variables   *)
(* remember which transactions that happened to and which hosts they       *)
(* wrote, and the properties say that nothing else can break those         *)
(* promises.                                                               *)
(***************************************************************************)
EXTENDS HostLifecycle

CONSTANT MaxHosts  \* the hosts of one behaviour, of whichever kind: a bound

(* The mutations that put hosts in and take them out, and one that only    *)
(* changes one.                                                            *)
OverlapOperations ==
    {"domainAliasCreate", "domainAliasDelete", "domainAliasApprove", "domainAliasReject",
     "subdomainCreate", "subdomainUpdate", "subdomainDelete"}

VARIABLES
    overtaken,  \* the workers that wait for their transaction while another committed one
    raced       \* the hosts written by an overtaken transaction, or while the daemon was at work on them

overlapVars == <<vars, overtaken, raced>>

WritesHost(h) ==
    \/ status'[h] # status[h]
    \/ (h \in phpIni') # (h \in phpIni)
    \/ (h \in mail') # (h \in mail)

OverlapInit == Init /\ overtaken = {} /\ raced = {}

OverlapCommit(r) ==
    /\ CommitStep(r)
    /\ Cardinality(used') <= MaxHosts
    /\ overtaken' = (overtaken \cup {w \in Workers : req[w].phase = "checked"}) \ {r}
    /\ raced' = raced \cup {h \in Hosts : WritesHost(h) /\ (r \in overtaken \/ work.row = h)}

OverlapOther(r) ==
    /\ CheckStep(r) \/ SendRequest(r) \/ RollBack(r) \/ LosePoke(r)
    /\ overtaken' = IF RollBack(r) THEN overtaken \ {r} ELSE overtaken
    /\ UNCHANGED raced

OverlapNext ==
    \/ DaemonStep /\ UNCHANGED <<overtaken, raced>>
    \/ \E r \in Workers : OverlapCommit(r) \/ OverlapOther(r)

OverlapSpec == OverlapInit /\ [][OverlapNext]_overlapVars

---------------------------------------------------------------------------
(* Properties. *)

(* Two hosts have the same name only when one of them was created by a     *)
(* request another one overtook between its look-up and its insert, of     *)
(* which no unique key keeps it.                                           *)
NamesDoubledByOverlap ==
    \A g, h \in Hosts \ raced : g # h /\ Joined(g) /\ Joined(h) => name[g] # name[h]

(* The php_ini row and the default mail accounts of a host go with it, and *)
(* a host that will be served has its php_ini row.                         *)
Served(h) ==
    /\ status[h] \in {"ok", "toadd", "tochange", "ordered"}
    /\ h \in Subs /\ parent[h] \in Aliases => status[parent[h]] \in {"ok", "toadd", "tochange"}

PartsFollowHost(h) ==
    /\ Served(h) => h \in phpIni
    /\ h \in phpIni \cup mail => Exists(h)

Untouched(h) == h \notin raced /\ (h \in Subs => parent[h] \notin raced)

(* A subdomain outlives its alias only while the daemon has still to       *)
(* delete it, or has failed to.                                            *)
KeepsParent(s) ==
    Exists(s) /\ status[s] \notin {"todelete", "error"} => Exists(parent[s])

HostTablesByOverlap ==
    /\ \A h \in Hosts : Untouched(h) => PartsFollowHost(h)
    /\ \A s \in Subs \ raced : KeepsParent(s)

(* What a mutation writes besides its target, without having read it: a    *)
(* suspension writes every host of the customer, an update of the customer *)
(* the account and the aliases, the deletion of an alias its subdomains.   *)
WritesAlong(r, h) ==
    \/ req[r].op \in {"suspend", "enable"}
    \/ req[r].op = "customerUpdate" /\ h \in {Acct} \cup Aliases
    \/ req[r].op = "domainAliasDelete" /\ h \in SubsOf(req[r].target)

(* A mutation writes over a verb the daemon has still to carry out only    *)
(* when it was overtaken, or in one of these rows; never in its target     *)
(* (docs/SPECIFICATION.md section 8.3).                                    *)
PendingWrittenByOverlap ==
    [][\A r \in Workers \ overtaken, h \in Rows :
          /\ req[r].phase = "checked"
          /\ req'[r].phase # "checked"
          /\ Pending(h)
          /\ status'[h] # status[h]
          => h # req[r].target /\ WritesAlong(r, h)]_overlapVars

(* As long as no overtaken request has written an alias, the customer gets *)
(* past the limit of aliases only by the approval of an order, which       *)
(* nothing measures, or when a deletion fails, whose alias counts again.   *)
LimitPassedByOverlap ==
    [][/\ AliasLimit # 0
       /\ AliasCount' > AliasCount
       /\ AliasCount' > AliasLimit
       => \/ raced' \cap Aliases # {}
          \/ \E r \in Workers, a \in Aliases : Approves(r, a)
          \/ \E a \in Aliases : status'[a] = "error"]_overlapVars
=============================================================================
