--------------------------- MODULE HostLifecycle ---------------------------
(***************************************************************************)
(* The hosts of one customer: the account row, its main domain, the domain *)
(* aliases and the subdomains hung off either, as DomainAliasService,      *)
(* SubdomainService, DomainService and CustomerService write them and the  *)
(* i-MSCP backend daemon consumes them.                                    *)
(*                                                                         *)
(* Every mutation has the shape of docs/SPECIFICATION.md section 8.1: it   *)
(* reads the rows it decides on (ownership, feature, settled state, name,  *)
(* quota), then writes in one transaction, then pokes the daemon.  The     *)
(* reads take no lock and the writes do not repeat the decision, so the    *)
(* two are separate steps here and other requests and the daemon may come  *)
(* between them.  The transaction itself is one step.                      *)
(***************************************************************************)
EXTENDS Naturals, FiniteSets

CONSTANTS
    Workers,      \* PHP processes, each serving one mutation at a time
    Aliases,      \* the AUTO_INCREMENT ids of domain_aliasses
    Subs,         \* the ids of subdomain and subdomain_alias
    Acct,         \* the customer's admin row
    Dmn,          \* the customer's domain row
    Names,        \* fully qualified host names
    AliasLimit,   \* domain.domain_alias_limit: 0 is unlimited
    SubLimit,     \* domain.domain_subd_limit: 0 is unlimited
    Defaults,     \* CREATE_DEFAULT_EMAIL_ADDRESSES
    Operations,   \* the mutations the clients of this instance send
    MaxLostPokes, \* how often a worker may die before it pokes the daemon
    None          \* no parent, no name, no row

ASSUME DistinctRows ==
    /\ Acct # Dmn
    /\ {Acct, Dmn} \cap (Aliases \cup Subs) = {}
    /\ Aliases \cap Subs = {}
    /\ None \notin Names \cup Aliases \cup Subs \cup {Acct, Dmn}

ASSUME Limits ==
    /\ AliasLimit \in Nat
    /\ SubLimit \in Nat
    /\ MaxLostPokes \in Nat
    /\ Defaults \in BOOLEAN

AllOperations ==
    {"domainUpdate", "subdomainCreate", "subdomainUpdate", "subdomainDelete",
     "domainAliasCreate", "domainAliasUpdate", "domainAliasDelete",
     "domainAliasApprove", "domainAliasReject",
     "customerUpdate", "customerSetState"}

ASSUME OperationsExist == Operations \subseteq AllOperations

Rows    == {Acct, Dmn} \cup Aliases \cup Subs
Hosts   == Aliases \cup Subs
Parents == {Dmn} \cup Aliases
Roles   == {"customer", "reseller"}   \* an administrator passes every role check a reseller does
Fields  == {"password", "expiresAt", "allowances"}   \* what customerUpdate may name

VARIABLES
    status,  \* each row's status column, "absent" when there is no row
    used,    \* the ids already handed out by AUTO_INCREMENT
    parent,  \* a subdomain's parent row
    name,    \* a host's fully qualified name
    phpIni,  \* the hosts with a php_ini row
    mail,    \* the hosts with live default mail accounts
    req,     \* what each worker is doing
    poked,   \* the daemon has been asked to look
    queue,   \* the rows the daemon's current pass still has to visit
    work,    \* the row and verb the daemon is carrying out
    lost     \* pokes lost so far

rowVars    == <<status, used, parent, name, phpIni, mail>>
daemonVars == <<queue, work>>
vars       == <<rowVars, req, poked, daemonVars, lost>>

---------------------------------------------------------------------------
(* Support\Provisioning: what a status means. *)

PendingStatuses ==
    {"toadd", "tochange", "todelete", "toenable", "todisable", "tochangepwd"}

Statuses == {"absent", "ok", "disabled", "ordered", "error"} \cup PendingStatuses

Pending(h) == status[h] \in PendingStatuses

Exists(h) == status[h] # "absent"

(* A row that the tree's queries find: alias subdomains are always joined  *)
(* to the alias they hang off.                                             *)
Joined(h) == Exists(h) /\ (h \in Subs => Exists(parent[h]))

(* UPDATE ... SET status = v WHERE <the rows of S>. *)
Write(S, v) == [h \in Rows |-> IF h \in S /\ Exists(h) THEN v ELSE status[h]]

SubsOf_Settled(h) == {s \in Subs : status[s] = "ok" /\ parent[s] = h}   \* mutant

SubsOf(h) == {s \in Subs : Exists(s) /\ parent[s] = h}

(* Guard::requireState() as the updates and the deletes call it. *)
RequireOk(h) == status[h] = "ok"

RequireDeletable_Toadd(h) == status[h] \in {"ok", "error", "toadd"}   \* mutant

RequireDeletable(h) == status[h] \in {"ok", "error"}

---------------------------------------------------------------------------
(* Workers. *)

Idle == [phase |-> "idle", op |-> "none", role |-> "customer",
         target |-> None, parent |-> None, name |-> None, named |-> {}]

Ops == AllOperations \cup {"cancelOrder", "suspend", "enable", "none"}

Requests ==
    [phase : {"idle", "checked", "committed"}, op : Ops, role : Roles,
     target : Rows \cup {None}, parent : Parents \cup {None},
     name : Names \cup {None}, named : SUBSET Fields]

Request(op, role, h) ==
    [Idle EXCEPT !.phase = "checked", !.op = op, !.role = role, !.target = h]

(* The guards passed: worker r goes on to the transaction of q. *)
Admit(r, q) ==
    /\ req[r].phase = "idle"
    /\ req' = [req EXCEPT ![r] = q]
    /\ UNCHANGED <<rowVars, poked, daemonVars, lost>>

Checked(r, op) == req[r].phase = "checked" /\ req[r].op = op

Commit_Silent(r, pokes) ==   \* mutant: no operation pokes the daemon
    /\ req' = [req EXCEPT ![r] = Idle]
    /\ UNCHANGED <<poked, daemonVars, lost>>

(* The transaction committed; sendRequest() is next when the operation     *)
(* asks the daemon for anything, else the worker is done.                  *)
Commit(r, pokes) ==
    /\ req' = [req EXCEPT ![r] = IF pokes THEN [@ EXCEPT !.phase = "committed"] ELSE Idle]
    /\ UNCHANGED <<poked, daemonVars, lost>>

SendRequest(r) ==
    /\ req[r].phase = "committed"
    /\ req' = [req EXCEPT ![r] = Idle]
    /\ poked' = TRUE
    /\ UNCHANGED <<rowVars, daemonVars, lost>>

(* Writer::run() rolls everything back when the transaction fails. *)
RollBack(r) ==
    /\ req[r].phase = "checked"
    /\ req' = [req EXCEPT ![r] = Idle]
    /\ UNCHANGED <<rowVars, poked, daemonVars, lost>>

(* The worker dies after the commit, or send_request() cannot reach the    *)
(* daemon, which it logs and swallows.                                     *)
LosePoke(r) ==
    /\ req[r].phase = "committed"
    /\ lost < MaxLostPokes
    /\ lost' = lost + 1
    /\ req' = [req EXCEPT ![r] = Idle]
    /\ UNCHANGED <<rowVars, poked, daemonVars>>

---------------------------------------------------------------------------
(* DomainAliasService. *)

NameInUse_AliasesOnly(n) == \E a \in Aliases : name[a] = n   \* mutant

(* VirtualHosts::nameInUse() and the core's domainExists(): any host, in   *)
(* any state.                                                              *)
NameInUse(n) == \E h \in Hosts : Joined(h) /\ name[h] = n

AliasCount_Ready == Cardinality({a \in Aliases : status[a] = "ok"})   \* mutant

AliasCount == Cardinality({a \in Aliases : status[a] \notin {"absent", "ordered", "todelete"}})

SubCount == Cardinality({s \in Subs : Joined(s) /\ status[s] # "todelete"})

(* Guard::requireQuota() over Quota::fromCustomerLimit(). *)
HasRoom(limit, count) == limit = 0 \/ count < limit

(* A customer's own alias is an order, a reseller's is provisioned. *)
Ordered(role) == role = "customer"

NewAliasStatus_Verb(role) == IF Ordered(role) THEN "ordered" ELSE "add"   \* mutant

NewAliasStatus(role) == IF Ordered(role) THEN "ordered" ELSE "toadd"

NewAliasMail_Always(role) == Defaults   \* mutant

(* An ordered alias gets its default accounts when it is approved. *)
NewAliasMail(role) == ~Ordered(role) /\ Defaults

(* A new row: the next id, its php_ini row, its default mail accounts.     *)
Insert(h, p, n, st, withMail) ==
    /\ used'   = used \cup {h}
    /\ status' = [status EXCEPT ![h] = st]
    /\ parent' = [s \in Subs |-> IF s = h THEN p ELSE parent[s]]
    /\ name'   = [name EXCEPT ![h] = n]
    /\ phpIni' = phpIni \cup {h}
    /\ mail'   = IF withMail THEN mail \cup {h} ELSE mail

(* Rows taken out with DELETE rather than scheduled. *)
Remove(S) ==
    /\ status' = [h \in Rows |-> IF h \in S THEN "absent" ELSE status[h]]
    /\ parent' = [h \in Subs |-> IF h \in S THEN None ELSE parent[h]]
    /\ name'   = [h \in Hosts |-> IF h \in S THEN None ELSE name[h]]
    /\ UNCHANGED used

DomainAliasCreateCheck(r) ==
    \E role \in Roles, n \in Names :
        /\ "domainAliasCreate" \in Operations
        /\ RequireOk(Dmn)
        /\ HasRoom(AliasLimit, AliasCount)
        /\ ~NameInUse(n)
        /\ Admit(r, [Request("domainAliasCreate", role, Dmn) EXCEPT !.name = n])

DomainAliasCreateCommit(r) ==
    /\ Checked(r, "domainAliasCreate")
    /\ \E a \in Aliases \ used :
           Insert(a, None, req[r].name, NewAliasStatus(req[r].role), NewAliasMail(req[r].role))
    /\ Commit(r, ~Ordered(req[r].role))

DomainAliasUpdateCheck(r) ==
    \E a \in Aliases :
        /\ "domainAliasUpdate" \in Operations
        /\ RequireOk(a)
        /\ Admit(r, Request("domainAliasUpdate", "customer", a))

DomainAliasUpdateCommit(r) ==
    /\ Checked(r, "domainAliasUpdate")
    /\ status' = Write({req[r].target}, "tochange")
    /\ UNCHANGED <<used, parent, name, phpIni, mail>>
    /\ Commit(r, TRUE)

(* The row as read decides which of the two deletes this is. *)
DomainAliasDeleteCheck(r) ==
    \E a \in Aliases :
        /\ "domainAliasDelete" \in Operations
        /\ \/ /\ RequireDeletable(a)
              /\ Admit(r, Request("domainAliasDelete", "customer", a))
           \/ /\ status[a] = "ordered"
              /\ Admit(r, Request("cancelOrder", "customer", a))

(* The alias, its subdomains, and what hangs off either. *)
DomainAliasDeleteCommit(r) ==
    /\ Checked(r, "domainAliasDelete")
    /\ LET gone == {req[r].target} \cup SubsOf(req[r].target)
       IN  /\ status' = Write(gone, "todelete")
           /\ phpIni' = phpIni \ gone
           /\ mail'   = mail \ gone
    /\ UNCHANGED <<used, parent, name>>
    /\ Commit(r, TRUE)

StillOrdered_Unguarded(a) == Exists(a)   \* mutant

(* DELETE ... AND alias_status = 'ordered': the one write in the service   *)
(* that repeats its guard.                                                 *)
StillOrdered(a) == status[a] = "ordered"

WithdrawOrder(r) ==
    /\ Remove({a \in {req[r].target} : StillOrdered(a)})
    /\ phpIni' = phpIni \ {req[r].target}
    /\ UNCHANGED mail
    /\ Commit(r, FALSE)

CancelOrderCommit(r) ==
    /\ Checked(r, "cancelOrder")
    /\ WithdrawOrder(r)

(* Role before state: only a reseller or an administrator. *)
MayDecideOrders(role) == role = "reseller"

DomainAliasApproveCheck(r) ==
    \E a \in Aliases, role \in Roles :
        /\ "domainAliasApprove" \in Operations
        /\ MayDecideOrders(role)
        /\ status[a] = "ordered"
        /\ Admit(r, Request("domainAliasApprove", role, a))

DomainAliasApproveCommit(r) ==
    /\ Checked(r, "domainAliasApprove")
    /\ status' = Write({req[r].target}, "toadd")
    /\ mail' = IF Defaults THEN mail \cup {req[r].target} ELSE mail
    /\ UNCHANGED <<used, parent, name, phpIni>>
    /\ Commit(r, TRUE)

DomainAliasRejectCheck(r) ==
    \E a \in Aliases, role \in Roles :
        /\ "domainAliasReject" \in Operations
        /\ MayDecideOrders(role)
        /\ status[a] = "ordered"
        /\ Admit(r, Request("domainAliasReject", role, a))

DomainAliasRejectCommit(r) ==
    /\ Checked(r, "domainAliasReject")
    /\ WithdrawOrder(r)

---------------------------------------------------------------------------
(* SubdomainService. *)

SubdomainCreateCheck(r) ==
    \E p \in Parents, n \in Names :
        /\ "subdomainCreate" \in Operations
        /\ RequireOk(p)
        /\ HasRoom(SubLimit, SubCount)
        /\ ~NameInUse(n)
        /\ Admit(r, [Request("subdomainCreate", "customer", p) EXCEPT !.parent = p, !.name = n])

SubdomainCreateCommit(r) ==
    /\ Checked(r, "subdomainCreate")
    /\ \E s \in Subs \ used : Insert(s, req[r].parent, req[r].name, "toadd", Defaults)
    /\ Commit(r, TRUE)

SubdomainUpdateCheck(r) ==
    \E s \in Subs :
        /\ "subdomainUpdate" \in Operations
        /\ Joined(s)
        /\ RequireOk(s)
        /\ Admit(r, Request("subdomainUpdate", "customer", s))

SubdomainUpdateCommit(r) ==
    /\ Checked(r, "subdomainUpdate")
    /\ status' = Write({req[r].target}, "tochange")
    /\ UNCHANGED <<used, parent, name, phpIni, mail>>
    /\ Commit(r, TRUE)

SubdomainDeleteCheck(r) ==
    \E s \in Subs :
        /\ "subdomainDelete" \in Operations
        /\ Joined(s)
        /\ RequireDeletable(s)
        /\ Admit(r, Request("subdomainDelete", "customer", s))

SubdomainDeleteCommit(r) ==
    /\ Checked(r, "subdomainDelete")
    /\ status' = Write({req[r].target}, "todelete")
    /\ phpIni' = phpIni \ {req[r].target}
    /\ mail'   = mail \ {req[r].target}
    /\ UNCHANGED <<used, parent, name>>
    /\ Commit(r, TRUE)

---------------------------------------------------------------------------
(* DomainService and CustomerService. *)

DomainUpdateCheck(r) ==
    /\ "domainUpdate" \in Operations
    /\ RequireOk(Dmn)
    /\ Admit(r, Request("domainUpdate", "customer", Dmn))

DomainUpdateCommit(r) ==
    /\ Checked(r, "domainUpdate")
    /\ status' = Write({Dmn}, "tochange")
    /\ UNCHANGED <<used, parent, name, phpIni, mail>>
    /\ Commit(r, TRUE)

(* An expiry alone is accepted on a disabled customer too. *)
CustomerUpdateCheck(r) ==
    \E named \in SUBSET Fields \ {{}} :
        /\ "customerUpdate" \in Operations
        /\ \/ RequireOk(Dmn)
           \/ status[Dmn] = "disabled" /\ named = {"expiresAt"}
        /\ Admit(r, [Request("customerUpdate", "reseller", Dmn) EXCEPT !.named = named])

NeedsDaemon_AllowancesOnly(named) == "allowances" \in named   \* mutant

NeedsDaemon(named) == named \cap {"password", "allowances"} # {}

Rescheduled_All(named) == IF "allowances" \in named THEN Aliases ELSE {}   \* mutant

(* Rescheduled with the domain: every alias not awaiting approval. *)
Rescheduled(named) ==
    IF "allowances" \in named THEN {a \in Aliases : status[a] # "ordered"} ELSE {}

CustomerUpdateCommit(r) ==
    /\ Checked(r, "customerUpdate")
    /\ LET named  == req[r].named
           domain == IF named \cap {"allowances", "expiresAt"} # {} /\ NeedsDaemon(named)
                     THEN {Dmn} ELSE {}
       IN  /\ status' = [h \in Rows |->
                            IF h = Acct /\ "password" \in named THEN "tochangepwd"
                            ELSE Write(domain \cup Rescheduled(named), "tochange")[h]]
           /\ Commit(r, NeedsDaemon(named))
    /\ UNCHANGED <<used, parent, name, phpIni, mail>>

CustomerSetStateCheck(r) ==
    /\ "customerSetState" \in Operations
    /\ \/ status[Dmn] = "ok"       /\ Admit(r, Request("suspend", "reseller", Dmn))
       \/ status[Dmn] = "disabled" /\ Admit(r, Request("enable", "reseller", Dmn))

(* The domain and every host of it, whatever state each is in. *)
Suspended == {Dmn} \cup {h \in Hosts : Joined(h)}

CustomerSetStateCommit(r) ==
    /\ \/ Checked(r, "suspend") /\ status' = Write(Suspended, "todisable")
       \/ Checked(r, "enable")  /\ status' = Write(Suspended, "toenable")
    /\ UNCHANGED <<used, parent, name, phpIni, mail>>
    /\ Commit(r, TRUE)

---------------------------------------------------------------------------
(* The i-MSCP daemon, which is not part of this repository: as Provisioning *)
(* and docs/SPECIFICATION.md section 2.1 describe it, it is poked, reads   *)
(* the status columns as a work queue, does the work and then sets the     *)
(* status to 'ok' or to the text of whatever went wrong.  A poke that      *)
(* arrives during a pass starts another pass.                              *)

NoWork == [row |-> None, verb |-> "absent"]

DaemonWake ==
    /\ poked
    /\ queue = {}
    /\ work = NoWork
    /\ poked' = FALSE
    /\ queue' = {h \in Rows : Pending(h)}
    /\ UNCHANGED <<rowVars, req, work, lost>>

DaemonRead(h) ==
    /\ work = NoWork
    /\ h \in queue
    /\ queue' = queue \ {h}
    /\ work' = IF Pending(h) THEN [row |-> h, verb |-> status[h]] ELSE NoWork
    /\ UNCHANGED <<rowVars, req, poked, lost>>

Outcome(verb) ==
    CASE verb = "todelete"  -> "absent"
      [] verb = "todisable" -> "disabled"
      [] OTHER              -> "ok"

DaemonDone ==
    /\ work # NoWork
    /\ IF work.verb = "todelete"
       THEN Remove({work.row})
       ELSE /\ status' = Write({work.row}, Outcome(work.verb))
            /\ UNCHANGED <<used, parent, name>>
    /\ work' = NoWork
    /\ UNCHANGED <<phpIni, mail, req, poked, queue, lost>>

DaemonFails ==
    /\ work # NoWork
    /\ status' = Write({work.row}, "error")
    /\ work' = NoWork
    /\ UNCHANGED <<used, parent, name, phpIni, mail, req, poked, queue, lost>>

---------------------------------------------------------------------------

Init ==
    /\ status = [h \in Rows |-> IF h \in {Acct, Dmn} THEN "ok" ELSE "absent"]
    /\ used   = {}
    /\ parent = [s \in Subs |-> None]
    /\ name   = [h \in Hosts |-> None]
    /\ phpIni = {}
    /\ mail   = {}
    /\ req    = [r \in Workers |-> Idle]
    /\ poked  = FALSE
    /\ queue  = {}
    /\ work   = NoWork
    /\ lost   = 0

CheckStep(r) ==
    \/ DomainAliasCreateCheck(r)
    \/ DomainAliasUpdateCheck(r)
    \/ DomainAliasDeleteCheck(r)
    \/ DomainAliasApproveCheck(r)
    \/ DomainAliasRejectCheck(r)
    \/ SubdomainCreateCheck(r)
    \/ SubdomainUpdateCheck(r)
    \/ SubdomainDeleteCheck(r)
    \/ DomainUpdateCheck(r)
    \/ CustomerUpdateCheck(r)
    \/ CustomerSetStateCheck(r)

CommitStep(r) ==
    \/ DomainAliasCreateCommit(r)
    \/ DomainAliasUpdateCommit(r)
    \/ DomainAliasDeleteCommit(r)
    \/ CancelOrderCommit(r)
    \/ DomainAliasApproveCommit(r)
    \/ DomainAliasRejectCommit(r)
    \/ SubdomainCreateCommit(r)
    \/ SubdomainUpdateCommit(r)
    \/ SubdomainDeleteCommit(r)
    \/ DomainUpdateCommit(r)
    \/ CustomerUpdateCommit(r)
    \/ CustomerSetStateCommit(r)

WorkerStep(r) == CommitStep(r) \/ SendRequest(r) \/ RollBack(r) \/ LosePoke(r)

DaemonStep == DaemonWake \/ (\E h \in Rows : DaemonRead(h)) \/ DaemonDone \/ DaemonFails

Next == DaemonStep \/ \E r \in Workers : CheckStep(r) \/ WorkerStep(r)

Spec == Init /\ [][Next]_vars

(* A worker that has started finishes, and the daemon keeps running.       *)
(* Nothing makes a client send a mutation.                                 *)
FairSpec ==
    /\ Spec
    /\ WF_vars(DaemonStep)
    /\ \A r \in Workers : WF_vars(WorkerStep(r))

---------------------------------------------------------------------------
(* Properties. *)

(* Every variable has its shape. *)
TypeOK ==
    /\ status \in [Rows -> Statuses]
    /\ used \subseteq Hosts
    /\ parent \in [Subs -> Parents \cup {None}]
    /\ name \in [Hosts -> Names \cup {None}]
    /\ phpIni \subseteq Hosts
    /\ mail \subseteq Hosts
    /\ req \in [Workers -> Requests]
    /\ poked \in BOOLEAN
    /\ queue \subseteq Rows
    /\ work \in [row : Rows \cup {None}, verb : Statuses]
    /\ lost \in 0..MaxLostPokes

(* An alias awaiting approval has no mail account yet, however approvals,  *)
(* rejections, cancellations and suspensions interleave: create() leaves   *)
(* the default accounts to approve().                                      *)
OrdersHaveNoMail == \A a \in Aliases : status[a] = "ordered" => a \notin mail

(* While no poke has been lost, nothing waits for a daemon that nobody is  *)
(* going to wake: a pending row is in the pass under way, or a poke is     *)
(* registered, or a worker that has committed is about to send one.        *)
WorkIsAnnounced(h) ==
    \/ poked
    \/ h \in queue
    \/ work.row = h
    \/ \E r \in Workers : req[r].phase = "committed"

NoStrandedWork == lost = 0 => \A h \in Rows : Pending(h) => WorkIsAnnounced(h)

(* Worker r commits the approval of a that a reseller or an administrator  *)
(* asked for, or a suspension of the customer or the end of one.           *)
Approves(r, a) ==
    /\ Checked(r, "domainAliasApprove")
    /\ req[r].role = "reseller"
    /\ req[r].target = a
    /\ req'[r] # req[r]

Suspends(r) ==
    /\ Checked(r, "suspend") \/ Checked(r, "enable")
    /\ req'[r] # req[r]

(* An order becomes an alias only in the transaction of an approval that a *)
(* reseller or an administrator asked for.                                 *)
OnlyApprovalProvisions ==
    [][\A a \in Aliases :
          status[a] = "ordered" /\ status'[a] \notin {"ordered", "absent"}
          => \E r \in Workers : Approves(r, a)]_vars

(* The same, but for suspensions, which write every alias of the customer: *)
(* no update, deletion or rejection that decided on an earlier state of    *)
(* the row, and no pass of the daemon, turns an order into an alias.       *)
OrdersAwaitDecision ==
    [][\A a \in Aliases :
          status[a] = "ordered" /\ status'[a] \notin {"ordered", "absent"}
          => \E r \in Workers : Approves(r, a) \/ Suspends(r)]_vars

(* A rejection or a cancellation that loses the race with an approval does *)
(* not take the approved alias away: once it is no longer an order, its    *)
(* row goes only when the daemon carries out a deletion of it.             *)
BuiltAliasesLeaveThroughDaemon ==
    [][\A a \in Aliases :
          status[a] \notin {"absent", "ordered"} /\ status'[a] = "absent"
          => work = [row |-> a, verb |-> "todelete"]]_vars

(* What a mutation asked for is eventually done or refused by the backend. *)
EventuallySettled == \A h \in Rows : Pending(h) ~> ~Pending(h)
=============================================================================
