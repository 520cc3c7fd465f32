------------------------ MODULE HostLifecycleProofs ------------------------
(***************************************************************************)
(* What holds of HostLifecycle for any number of workers, aliases,         *)
(* subdomains and names, and whatever mutations the clients send; and,     *)
(* in the second half, of HostOverlap.                                     *)
(***************************************************************************)
EXTENDS HostOverlap, FiniteSetTheorems, TLAPS

(* What a request record must be for a worker to go on with it. *)
Admissible(q) ==
    /\ q \in Requests
    /\ q.phase = "checked"
    /\ q.op = "domainAliasApprove" => q.target \in Aliases /\ Exists(q.target)

(* The effect of every guarded read: the worker's own record, nothing else. *)
CheckEffect(r) ==
    /\ req[r].phase = "idle"
    /\ req' \in [Workers -> Requests]
    /\ Admissible(req'[r])
    /\ \A w \in Workers : w # r => req'[w] = req[w]
    /\ UNCHANGED <<rowVars, poked, daemonVars, lost>>

LEMMA RequestTyped ==
    ASSUME NEW op \in Ops, NEW role \in Roles, NEW h \in Rows,
           op = "domainAliasApprove" => h \in Aliases /\ Exists(h)
    PROVE  Admissible(Request(op, role, h))
  BY DEF Idle, Request, Requests, Ops, Roles, Admissible

LEMMA AdmitEffect ==
    ASSUME TypeOK, NEW r \in Workers, NEW q, Admissible(q), Admit(r, q)
    PROVE  CheckEffect(r)
  BY DEF TypeOK, Admit, CheckEffect, Admissible, rowVars, daemonVars

LEMMA CheckSteps ==
    ASSUME TypeOK, NEW r \in Workers, CheckStep(r)
    PROVE  CheckEffect(r)
  <1> USE DEF Ops, AllOperations, Rows, Roles
  <1>1. CASE DomainAliasCreateCheck(r)
    <2>1. PICK role \in Roles, n \in Names :
             Admit(r, [Request("domainAliasCreate", role, Dmn) EXCEPT !.name = n])
      BY <1>1 DEF DomainAliasCreateCheck
    <2>2. Admissible([Request("domainAliasCreate", role, Dmn) EXCEPT !.name = n])
      BY DEF Admissible, Request, Idle, Requests
    <2> QED
      BY <2>1, <2>2, AdmitEffect
  <1>2. CASE DomainAliasUpdateCheck(r)
    <2>1. PICK a \in Aliases : Admit(r, Request("domainAliasUpdate", "customer", a))
      BY <1>2 DEF DomainAliasUpdateCheck
    <2>2. Admissible(Request("domainAliasUpdate", "customer", a))
      BY RequestTyped
    <2> QED
      BY <2>1, <2>2, AdmitEffect
  <1>3. CASE DomainAliasDeleteCheck(r)
    <2>1. PICK a \in Aliases : \/ Admit(r, Request("domainAliasDelete", "customer", a))
                               \/ Admit(r, Request("cancelOrder", "customer", a))
      BY <1>3 DEF DomainAliasDeleteCheck
    <2>2. /\ Admissible(Request("domainAliasDelete", "customer", a))
          /\ Admissible(Request("cancelOrder", "customer", a))
      BY RequestTyped
    <2> QED
      BY <2>1, <2>2, AdmitEffect
  <1>4. CASE DomainAliasApproveCheck(r)
    <2>1. PICK a \in Aliases, role \in Roles :
             status[a] = "ordered" /\ Admit(r, Request("domainAliasApprove", role, a))
      BY <1>4 DEF DomainAliasApproveCheck
    <2>2. Admissible(Request("domainAliasApprove", role, a))
      BY <2>1, RequestTyped DEF Exists
    <2> QED
      BY <2>1, <2>2, AdmitEffect
  <1>5. CASE DomainAliasRejectCheck(r)
    <2>1. PICK a \in Aliases, role \in Roles : Admit(r, Request("domainAliasReject", role, a))
      BY <1>5 DEF DomainAliasRejectCheck
    <2>2. Admissible(Request("domainAliasReject", role, a))
      BY RequestTyped
    <2> QED
      BY <2>1, <2>2, AdmitEffect
  <1>6. CASE SubdomainCreateCheck(r)
    <2>1. PICK p \in Parents, n \in Names :
             Admit(r, [Request("subdomainCreate", "customer", p) EXCEPT !.parent = p, !.name = n])
      BY <1>6 DEF SubdomainCreateCheck
    <2>2. Admissible([Request("subdomainCreate", "customer", p) EXCEPT !.parent = p, !.name = n])
      BY DEF Admissible, Request, Idle, Requests, Parents
    <2> QED
      BY <2>1, <2>2, AdmitEffect
  <1>7. CASE SubdomainUpdateCheck(r)
    <2>1. PICK s \in Subs : Admit(r, Request("subdomainUpdate", "customer", s))
      BY <1>7 DEF SubdomainUpdateCheck
    <2>2. Admissible(Request("subdomainUpdate", "customer", s))
      BY RequestTyped
    <2> QED
      BY <2>1, <2>2, AdmitEffect
  <1>8. CASE SubdomainDeleteCheck(r)
    <2>1. PICK s \in Subs : Admit(r, Request("subdomainDelete", "customer", s))
      BY <1>8 DEF SubdomainDeleteCheck
    <2>2. Admissible(Request("subdomainDelete", "customer", s))
      BY RequestTyped
    <2> QED
      BY <2>1, <2>2, AdmitEffect
  <1>9. CASE DomainUpdateCheck(r)
    <2>1. Admit(r, Request("domainUpdate", "customer", Dmn))
      BY <1>9 DEF DomainUpdateCheck
    <2>2. Admissible(Request("domainUpdate", "customer", Dmn))
      BY RequestTyped
    <2> QED
      BY <2>1, <2>2, AdmitEffect
  <1>10. CASE CustomerUpdateCheck(r)
    <2>1. PICK named \in SUBSET Fields :
             Admit(r, [Request("customerUpdate", "reseller", Dmn) EXCEPT !.named = named])
      BY <1>10 DEF CustomerUpdateCheck
    <2>2. Admissible([Request("customerUpdate", "reseller", Dmn) EXCEPT !.named = named])
      BY DEF Admissible, Request, Idle, Requests
    <2> QED
      BY <2>1, <2>2, AdmitEffect
  <1>11. CASE CustomerSetStateCheck(r)
    <2>1. \/ Admit(r, Request("suspend", "reseller", Dmn))
          \/ Admit(r, Request("enable", "reseller", Dmn))
      BY <1>11 DEF CustomerSetStateCheck
    <2>2. /\ Admissible(Request("suspend", "reseller", Dmn))
          /\ Admissible(Request("enable", "reseller", Dmn))
      BY RequestTyped
    <2> QED
      BY <2>1, <2>2, AdmitEffect
  <1> QED
    BY <1>1, <1>2, <1>3, <1>4, <1>5, <1>6, <1>7, <1>8, <1>9, <1>10, <1>11 DEF CheckStep

---------------------------------------------------------------------------
(* UPDATE ... SET status touches only rows that are there. *)
LEMMA WriteTyped ==
    ASSUME TypeOK, NEW S, NEW v \in Statuses
    PROVE  /\ Write(S, v) \in [Rows -> Statuses]
           /\ \A h \in Rows : Write(S, v)[h] = "absent" => status[h] = "absent" \/ v = "absent"
           /\ \A h \in Rows : status[h] = "absent" => Write(S, v)[h] = "absent"
           /\ \A h \in Rows : Write(S, v)[h] = v \/ Write(S, v)[h] = status[h]
  BY DEF TypeOK, Write, Exists

(* The worker's side of every transaction. *)
CommitEffect(r) ==
    /\ req[r].phase = "checked"
    /\ req' \in [Workers -> Requests]
    /\ req'[r] \in {Idle, [req[r] EXCEPT !.phase = "committed"]}
    /\ \A w \in Workers : w # r => req'[w] = req[w]
    /\ UNCHANGED <<poked, daemonVars, lost>>

LEMMA CommitEffects ==
    ASSUME TypeOK, NEW r \in Workers, req[r].phase = "checked",
           NEW pokes \in BOOLEAN, Commit(r, pokes)
    PROVE  /\ CommitEffect(r)
           /\ pokes => req'[r].phase = "committed"
  <1>1. Idle \in Requests
    BY DEF Idle, Requests, Ops, Roles
  <1>2. [req[r] EXCEPT !.phase = "committed"] \in Requests
    BY DEF TypeOK, Requests
  <1> QED
    BY <1>1, <1>2 DEF TypeOK, Commit, CommitEffect, daemonVars, Requests

(* Which transactions poke, and that one that does not leaves no new verb. *)
LEMMA CommitSteps ==
    ASSUME TypeOK, NEW r \in Workers, CommitStep(r)
    PROVE  /\ CommitEffect(r)
           /\ \/ req'[r].phase = "committed"
              \/ \A h \in Rows : status'[h] \in PendingStatuses => status[h] \in PendingStatuses
  <1>1. CASE DomainAliasCreateCommit(r)
    <2>1. CommitEffect(r) /\ (~Ordered(req[r].role) => req'[r].phase = "committed")
      BY <1>1, CommitEffects DEF DomainAliasCreateCommit, Checked, Ordered
    <2>2. Ordered(req[r].role) => \A h \in Rows : status'[h] = status[h] \/ status'[h] = "ordered"
      BY <1>1 DEF DomainAliasCreateCommit, Insert, NewAliasStatus, TypeOK, Rows, Hosts
    <2> QED
      BY <2>1, <2>2 DEF PendingStatuses
  <1>2. CASE DomainAliasUpdateCommit(r)
    BY <1>2, CommitEffects DEF DomainAliasUpdateCommit, Checked
  <1>3. CASE DomainAliasDeleteCommit(r)
    BY <1>3, CommitEffects DEF DomainAliasDeleteCommit, Checked
  <1>4. CASE CancelOrderCommit(r)
    <2>1. CommitEffect(r)
      BY <1>4, CommitEffects DEF CancelOrderCommit, WithdrawOrder, Checked
    <2>2. \A h \in Rows : status'[h] = status[h] \/ status'[h] = "absent"
      BY <1>4 DEF CancelOrderCommit, WithdrawOrder, Remove
    <2> QED
      BY <2>1, <2>2 DEF PendingStatuses
  <1>5. CASE DomainAliasApproveCommit(r)
    BY <1>5, CommitEffects DEF DomainAliasApproveCommit, Checked
  <1>6. CASE DomainAliasRejectCommit(r)
    <2>1. CommitEffect(r)
      BY <1>6, CommitEffects DEF DomainAliasRejectCommit, WithdrawOrder, Checked
    <2>2. \A h \in Rows : status'[h] = status[h] \/ status'[h] = "absent"
      BY <1>6 DEF DomainAliasRejectCommit, WithdrawOrder, Remove
    <2> QED
      BY <2>1, <2>2 DEF PendingStatuses
  <1>7. CASE SubdomainCreateCommit(r)
    BY <1>7, CommitEffects DEF SubdomainCreateCommit, Checked
  <1>8. CASE SubdomainUpdateCommit(r)
    BY <1>8, CommitEffects DEF SubdomainUpdateCommit, Checked
  <1>9. CASE SubdomainDeleteCommit(r)
    BY <1>9, CommitEffects DEF SubdomainDeleteCommit, Checked
  <1>10. CASE DomainUpdateCommit(r)
    BY <1>10, CommitEffects DEF DomainUpdateCommit, Checked
  <1>11. CASE CustomerUpdateCommit(r)
    <2>1. CommitEffect(r) /\ (NeedsDaemon(req[r].named) => req'[r].phase = "committed")
      BY <1>11, CommitEffects DEF CustomerUpdateCommit, Checked, NeedsDaemon
    <2>2. ~NeedsDaemon(req[r].named) => \A h \in Rows : status'[h] = status[h]
      BY <1>11 DEF CustomerUpdateCommit, NeedsDaemon, Rescheduled, Write
    <2> QED
      BY <2>1, <2>2
  <1>12. CASE CustomerSetStateCommit(r)
    BY <1>12, CommitEffects DEF CustomerSetStateCommit, Checked
  <1> QED
    BY <1>1, <1>2, <1>3, <1>4, <1>5, <1>6, <1>7, <1>8, <1>9, <1>10, <1>11, <1>12 DEF CommitStep

---------------------------------------------------------------------------
(* An id that is not handed out yet has no row and no mail account, and an *)
(* approval under way names an alias whose id is.  This is what makes the  *)
(* invariants below inductive: an INSERT takes a new id, an approval adds  *)
(* mail accounts without looking at the row again.                         *)
HostsNumbered  == \A h \in Hosts : Exists(h) => h \in used
MailNumbered   == mail \subseteq used
ApprovalsKnown ==
    \A r \in Workers : req[r].op = "domainAliasApprove" => req[r].target \in Aliases \cap used

(* The rows keep their types. *)
RowsTyped ==
    /\ status \in [Rows -> Statuses]
    /\ used \subseteq Hosts
    /\ parent \in [Subs -> Parents \cup {None}]
    /\ name \in [Hosts -> Names \cup {None}]
    /\ phpIni \subseteq Hosts
    /\ mail \subseteq Hosts

LEMMA InsertTyped ==
    ASSUME RowsTyped, NEW h \in Hosts, NEW p \in Parents \cup {None}, NEW n \in Names \cup {None},
           NEW st \in Statuses, NEW withMail \in BOOLEAN, Insert(h, p, n, st, withMail)
    PROVE  RowsTyped'
  BY DEF RowsTyped, Insert, Hosts, Rows

LEMMA RemoveTyped ==
    ASSUME RowsTyped, NEW S, Remove(S)
    PROVE  /\ status' \in [Rows -> Statuses]
           /\ used' \subseteq Hosts
           /\ parent' \in [Subs -> Parents \cup {None}]
           /\ name' \in [Hosts -> Names \cup {None}]
  BY DEF RowsTyped, Remove, Statuses

LEMMA CommitRowsTyped ==
    ASSUME TypeOK, ApprovalsKnown, NEW r \in Workers, CommitStep(r)
    PROVE  RowsTyped'
  <1> USE DEF Statuses, PendingStatuses
  <1>a. RowsTyped
    BY DEF TypeOK, RowsTyped
  <1>b. req[r] \in Requests
    BY DEF TypeOK
  <1>1. CASE DomainAliasCreateCommit(r)
    <2>1. PICK a \in Aliases \ used :
             Insert(a, None, req[r].name, NewAliasStatus(req[r].role), NewAliasMail(req[r].role))
      BY <1>1 DEF DomainAliasCreateCommit
    <2>2. NewAliasMail(req[r].role) \in BOOLEAN /\ NewAliasStatus(req[r].role) \in Statuses
      BY Limits DEF NewAliasMail, NewAliasStatus
    <2>3. req[r].name \in Names \cup {None} /\ a \in Hosts
      BY <1>b DEF Requests, Hosts
    <2> QED
      BY <1>a, <2>1, <2>2, <2>3, InsertTyped
  <1>2. CASE DomainAliasUpdateCommit(r)
    <2>1. status' \in [Rows -> Statuses]
      BY <1>2, WriteTyped DEF DomainAliasUpdateCommit
    <2> QED
      BY <1>a, <1>2, <2>1 DEF RowsTyped, DomainAliasUpdateCommit
  <1>3. CASE DomainAliasDeleteCommit(r)
    <2>1. status' \in [Rows -> Statuses]
      BY <1>3, WriteTyped DEF DomainAliasDeleteCommit
    <2> QED
      BY <1>a, <1>3, <2>1 DEF RowsTyped, DomainAliasDeleteCommit
  <1>4. CASE CancelOrderCommit(r)
    <2>1. Remove({a \in {req[r].target} : StillOrdered(a)})
      BY <1>4 DEF CancelOrderCommit, WithdrawOrder
    <2>2. phpIni' \subseteq phpIni /\ mail' = mail
      BY <1>4 DEF CancelOrderCommit, WithdrawOrder
    <2> QED
      BY <1>a, <2>1, <2>2, RemoveTyped DEF RowsTyped
  <1>5. CASE DomainAliasApproveCommit(r)
    <2>1. status' \in [Rows -> Statuses]
      BY <1>5, WriteTyped DEF DomainAliasApproveCommit
    <2>2. mail' \subseteq Hosts
      BY <1>a, <1>5 DEF RowsTyped, DomainAliasApproveCommit, Checked, ApprovalsKnown, Hosts
    <2> QED
      BY <1>a, <1>5, <2>1, <2>2 DEF RowsTyped, DomainAliasApproveCommit
  <1>6. CASE DomainAliasRejectCommit(r)
    <2>1. Remove({a \in {req[r].target} : StillOrdered(a)})
      BY <1>6 DEF DomainAliasRejectCommit, WithdrawOrder
    <2>2. phpIni' \subseteq phpIni /\ mail' = mail
      BY <1>6 DEF DomainAliasRejectCommit, WithdrawOrder
    <2> QED
      BY <1>a, <2>1, <2>2, RemoveTyped DEF RowsTyped
  <1>7. CASE SubdomainCreateCommit(r)
    <2>1. PICK s \in Subs \ used : Insert(s, req[r].parent, req[r].name, "toadd", Defaults)
      BY <1>7 DEF SubdomainCreateCommit
    <2>2. req[r].name \in Names \cup {None} /\ req[r].parent \in Parents \cup {None} /\ s \in Hosts
      BY <1>b DEF Requests, Hosts
    <2> QED
      BY <1>a, <2>1, <2>2, InsertTyped, Limits
  <1>8. CASE SubdomainUpdateCommit(r)
    <2>1. status' \in [Rows -> Statuses]
      BY <1>8, WriteTyped DEF SubdomainUpdateCommit
    <2> QED
      BY <1>a, <1>8, <2>1 DEF RowsTyped, SubdomainUpdateCommit
  <1>9. CASE SubdomainDeleteCommit(r)
    <2>1. status' \in [Rows -> Statuses]
      BY <1>9, WriteTyped DEF SubdomainDeleteCommit
    <2> QED
      BY <1>a, <1>9, <2>1 DEF RowsTyped, SubdomainDeleteCommit
  <1>10. CASE DomainUpdateCommit(r)
    <2>1. status' \in [Rows -> Statuses]
      BY <1>10, WriteTyped DEF DomainUpdateCommit
    <2> QED
      BY <1>a, <1>10, <2>1 DEF RowsTyped, DomainUpdateCommit
  <1>11. CASE CustomerUpdateCommit(r)
    <2>1. status' \in [Rows -> Statuses]
      BY <1>11, <1>a DEF CustomerUpdateCommit, Write, RowsTyped
    <2> QED
      BY <1>a, <1>11, <2>1 DEF RowsTyped, CustomerUpdateCommit
  <1>12. CASE CustomerSetStateCommit(r)
    <2>1. status' \in [Rows -> Statuses]
      BY <1>12, WriteTyped DEF CustomerSetStateCommit
    <2> QED
      BY <1>a, <1>12, <2>1 DEF RowsTyped, CustomerSetStateCommit
  <1> QED
    BY <1>1, <1>2, <1>3, <1>4, <1>5, <1>6, <1>7, <1>8, <1>9, <1>10, <1>11, <1>12 DEF CommitStep

---------------------------------------------------------------------------
(* The numbering survives every transaction, and so does the absence of    *)
(* mail accounts from orders.                                              *)
Numbered == HostsNumbered /\ MailNumbered /\ ApprovalsKnown

(* What a transaction that neither inserts nor approves may do. *)
Modest ==
    /\ used' = used
    /\ mail' \subseteq mail
    /\ \A h \in Rows : status[h] = "absent" => status'[h] = "absent"
    /\ \A h \in Rows : status'[h] = "ordered" => status[h] = "ordered"

LEMMA ModestKeeps ==
    ASSUME HostsNumbered, MailNumbered, OrdersHaveNoMail, Modest
    PROVE  HostsNumbered' /\ MailNumbered' /\ OrdersHaveNoMail'
  BY DEF HostsNumbered, MailNumbered, OrdersHaveNoMail, Modest, Exists, Hosts, Rows

LEMMA WriteModest ==
    ASSUME TypeOK, NEW S, NEW v \in Statuses \ {"ordered"}, status' = Write(S, v),
           used' = used, mail' \subseteq mail
    PROVE  Modest
  BY DEF TypeOK, Modest, Write, Exists

LEMMA RemoveModest ==
    ASSUME NEW S, Remove(S), mail' \subseteq mail
    PROVE  Modest
  BY DEF Modest, Remove

LEMMA CommitKeepsRows ==
    ASSUME TypeOK, Numbered, OrdersHaveNoMail, NEW r \in Workers, CommitStep(r)
    PROVE  HostsNumbered' /\ MailNumbered' /\ OrdersHaveNoMail' /\ used \subseteq used'
  <1> USE DEF Statuses, PendingStatuses
  <1>a. SUFFICES ASSUME ~Modest
                 PROVE  HostsNumbered' /\ MailNumbered' /\ OrdersHaveNoMail' /\ used \subseteq used'
    BY ModestKeeps DEF Modest, Numbered
  <1>1. CASE DomainAliasCreateCommit(r)
    <2>1. PICK a \in Aliases \ used :
             Insert(a, None, req[r].name, NewAliasStatus(req[r].role), NewAliasMail(req[r].role))
      BY <1>1 DEF DomainAliasCreateCommit
    <2>2. a \notin mail /\ a \in Rows
      BY DEF Numbered, MailNumbered, Rows
    <2>3. status'[a] = "ordered" => mail' = mail
      BY <2>1, <2>2 DEF Insert, NewAliasStatus, NewAliasMail, TypeOK
    <2>4. \A h \in Rows : h # a => status'[h] = status[h]
      BY <2>1 DEF Insert, TypeOK
    <2>5. used' = used \cup {a} /\ mail' \subseteq mail \cup {a}
      BY <2>1 DEF Insert
    <2> QED
      BY <2>2, <2>3, <2>4, <2>5
      DEF Numbered, HostsNumbered, MailNumbered, OrdersHaveNoMail, Exists, Hosts, Rows
  <1>2. CASE DomainAliasUpdateCommit(r)
    BY <1>a, <1>2, WriteModest DEF DomainAliasUpdateCommit
  <1>3. CASE DomainAliasDeleteCommit(r)
    BY <1>a, <1>3, WriteModest DEF DomainAliasDeleteCommit
  <1>4. CASE CancelOrderCommit(r)
    BY <1>a, <1>4, RemoveModest DEF CancelOrderCommit, WithdrawOrder
  <1>5. CASE DomainAliasApproveCommit(r)
    <2>1. req[r].target \in Aliases \cap used
      BY <1>5 DEF DomainAliasApproveCommit, Checked, Numbered, ApprovalsKnown
    <2>2. status'[req[r].target] # "ordered"
      BY <1>5, <2>1 DEF DomainAliasApproveCommit, Write, Exists, Rows
    <2>3. \A h \in Rows : /\ status'[h] = "ordered" => status[h] = "ordered"
                          /\ status[h] = "absent" => status'[h] = "absent"
      BY <1>5 DEF DomainAliasApproveCommit, Write, Exists
    <2>4. used' = used /\ mail' \subseteq mail \cup {req[r].target}
      BY <1>5 DEF DomainAliasApproveCommit
    <2> QED
      BY <2>1, <2>2, <2>3, <2>4
      DEF Numbered, HostsNumbered, MailNumbered, OrdersHaveNoMail, Exists, Hosts, Rows
  <1>6. CASE DomainAliasRejectCommit(r)
    BY <1>a, <1>6, RemoveModest DEF DomainAliasRejectCommit, WithdrawOrder
  <1>7. CASE SubdomainCreateCommit(r)
    <2>1. PICK s \in Subs \ used : Insert(s, req[r].parent, req[r].name, "toadd", Defaults)
      BY <1>7 DEF SubdomainCreateCommit
    <2>2. \A h \in Rows : h # s => status'[h] = status[h]
      BY <2>1 DEF Insert, TypeOK
    <2>3. used' = used \cup {s} /\ mail' \subseteq mail \cup {s} /\ s \notin Aliases
      BY <2>1, DistinctRows DEF Insert
    <2> QED
      BY <2>2, <2>3
      DEF Numbered, HostsNumbered, MailNumbered, OrdersHaveNoMail, Exists, Hosts, Rows
  <1>8. CASE SubdomainUpdateCommit(r)
    BY <1>a, <1>8, WriteModest DEF SubdomainUpdateCommit
  <1>9. CASE SubdomainDeleteCommit(r)
    BY <1>a, <1>9, WriteModest DEF SubdomainDeleteCommit
  <1>10. CASE DomainUpdateCommit(r)
    BY <1>a, <1>10, WriteModest DEF DomainUpdateCommit
  <1>11. CASE CustomerUpdateCommit(r)
    <2>1. /\ used' = used /\ mail' = mail
          /\ \A h \in Rows : status'[h] = "ordered" => status[h] = "ordered"
      BY <1>11 DEF CustomerUpdateCommit, Write
    <2>2. \A h \in Hosts : status[h] = "absent" => status'[h] = "absent"
      BY <1>11, DistinctRows DEF CustomerUpdateCommit, Write, Exists, Hosts, Rows
    <2> QED
      BY <2>1, <2>2
      DEF Numbered, HostsNumbered, MailNumbered, OrdersHaveNoMail, Exists, Hosts, Rows
  <1>12. CASE CustomerSetStateCommit(r)
    BY <1>a, <1>12, WriteModest DEF CustomerSetStateCommit
  <1> QED
    BY <1>1, <1>2, <1>3, <1>4, <1>5, <1>6, <1>7, <1>8, <1>9, <1>10, <1>11, <1>12 DEF CommitStep

---------------------------------------------------------------------------
(* The inductive invariant. *)
IInv == TypeOK /\ Numbered /\ OrdersHaveNoMail /\ NoStrandedWork

LEMMA InitInvariant == Init => IInv
  <1> SUFFICES ASSUME Init PROVE IInv
    OBVIOUS
  <1> USE DEF Init, Rows, Hosts, Statuses, PendingStatuses
  <1>1. Idle \in Requests
    BY DEF Idle, Requests, Ops, Roles
  <1>2. TypeOK
    <2>1. work \in [row : Rows \cup {None}, verb : Statuses]
      BY DEF NoWork
    <2>2. status \in [Rows -> Statuses] /\ req \in [Workers -> Requests]
      BY <1>1
    <2>3. lost \in 0..MaxLostPokes
      BY Limits
    <2> QED
      BY <2>1, <2>2, <2>3 DEF TypeOK
  <1>3. Numbered
    BY DistinctRows DEF Numbered, HostsNumbered, MailNumbered, ApprovalsKnown, Exists, Idle
  <1>4. OrdersHaveNoMail /\ NoStrandedWork
    BY DEF OrdersHaveNoMail, NoStrandedWork, Pending
  <1> QED
    BY <1>2, <1>3, <1>4 DEF IInv

LEMMA CommitKeeps ==
    ASSUME IInv, NEW r \in Workers, CommitStep(r)
    PROVE  IInv'
  <1>1. TypeOK /\ Numbered /\ OrdersHaveNoMail /\ NoStrandedWork /\ ApprovalsKnown
    BY DEF IInv, Numbered
  <1>2. CommitEffect(r)
    BY <1>1, CommitSteps
  <1>3. RowsTyped'
    BY <1>1, CommitRowsTyped
  <1>4. TypeOK'
    BY <1>1, <1>2, <1>3 DEF TypeOK, RowsTyped, CommitEffect, daemonVars
  <1>5. HostsNumbered' /\ MailNumbered' /\ OrdersHaveNoMail' /\ used \subseteq used'
    BY <1>1, CommitKeepsRows
  <1>6. ApprovalsKnown'
    <2>1. req[r] \in Requests
      BY <1>1 DEF TypeOK
    <2>2. req'[r].op = "domainAliasApprove" => req[r].op = req'[r].op /\ req'[r].target = req[r].target
      BY <1>2, <2>1 DEF CommitEffect, Idle, Requests
    <2> QED
      BY <1>1, <1>2, <1>5, <2>2 DEF ApprovalsKnown, CommitEffect
  <1>7. NoStrandedWork'
    <2> SUFFICES ASSUME lost' = 0, NEW h \in Rows, Pending(h)'
                 PROVE  WorkIsAnnounced(h)'
      BY DEF NoStrandedWork
    <2>1. CASE req'[r].phase = "committed"
      BY <2>1 DEF WorkIsAnnounced
    <2>2. CASE \A g \in Rows : status'[g] \in PendingStatuses => status[g] \in PendingStatuses
      <3>1. WorkIsAnnounced(h)
        BY <1>1, <1>2, <2>2 DEF Pending, NoStrandedWork, CommitEffect
      <3> QED
        BY <1>2, <3>1 DEF WorkIsAnnounced, CommitEffect, daemonVars
    <2> QED
      BY <1>1, <2>1, <2>2, CommitSteps
  <1> QED
    BY <1>4, <1>5, <1>6, <1>7 DEF IInv, Numbered

LEMMA CheckKeeps ==
    ASSUME IInv, NEW r \in Workers, CheckStep(r)
    PROVE  IInv'
  <1>1. TypeOK /\ Numbered /\ OrdersHaveNoMail /\ NoStrandedWork
    BY DEF IInv
  <1>2. CheckEffect(r)
    BY <1>1, CheckSteps
  <1>3. TypeOK' /\ OrdersHaveNoMail'
    BY <1>1, <1>2 DEF TypeOK, OrdersHaveNoMail, CheckEffect, rowVars, daemonVars
  <1>4. Numbered'
    <2>1. HostsNumbered' /\ MailNumbered'
      BY <1>1, <1>2 DEF Numbered, HostsNumbered, MailNumbered, Exists, CheckEffect, rowVars
    <2>2. req'[r].op = "domainAliasApprove" => req'[r].target \in Aliases /\ Exists(req'[r].target)
      BY <1>2 DEF CheckEffect, Admissible
    <2>3. ApprovalsKnown'
      BY <1>1, <1>2, <2>2
      DEF Numbered, HostsNumbered, ApprovalsKnown, CheckEffect, rowVars, Hosts
    <2> QED
      BY <2>1, <2>3 DEF Numbered
  <1>5. NoStrandedWork'
    BY <1>1, <1>2 DEF NoStrandedWork, WorkIsAnnounced, Pending, CheckEffect, rowVars, daemonVars
  <1> QED
    BY <1>3, <1>4, <1>5 DEF IInv

(* A worker that ends its request without touching a row. *)
EndEffect(r) ==
    /\ req' = [req EXCEPT ![r] = Idle]
    /\ UNCHANGED <<rowVars, daemonVars>>

LEMMA EndKeeps ==
    ASSUME IInv, NEW r \in Workers, EndEffect(r), poked' \in BOOLEAN, lost' \in 0..MaxLostPokes
    PROVE  TypeOK' /\ Numbered' /\ OrdersHaveNoMail'
  <1>1. Idle \in Requests /\ Idle.op # "domainAliasApprove"
    BY DEF Idle, Requests, Ops, Roles
  <1>2. TypeOK'
    BY <1>1 DEF IInv, TypeOK, EndEffect, rowVars, daemonVars
  <1>3. Numbered'
    BY <1>1 DEF IInv, TypeOK, Numbered, HostsNumbered, MailNumbered, ApprovalsKnown, Exists,
                EndEffect, rowVars
  <1>4. OrdersHaveNoMail'
    BY DEF IInv, OrdersHaveNoMail, EndEffect, rowVars
  <1> QED
    BY <1>2, <1>3, <1>4

LEMMA WorkerKeeps ==
    ASSUME IInv, NEW r \in Workers, WorkerStep(r)
    PROVE  IInv'
  <1>1. CASE CommitStep(r)
    BY <1>1, CommitKeeps
  <1>2. CASE SendRequest(r)
    <2>1. EndEffect(r) /\ poked' = TRUE /\ lost' = lost /\ lost' \in 0..MaxLostPokes
      BY <1>2 DEF SendRequest, EndEffect, rowVars, daemonVars, IInv, TypeOK
    <2>2. NoStrandedWork'
      BY <2>1 DEF NoStrandedWork, WorkIsAnnounced
    <2> QED
      BY <2>1, <2>2, EndKeeps DEF IInv
  <1>3. CASE RollBack(r)
    <2>1. /\ EndEffect(r) /\ poked' = poked /\ lost' = lost
          /\ poked' \in BOOLEAN /\ lost' \in 0..MaxLostPokes
      BY <1>3 DEF RollBack, EndEffect, rowVars, daemonVars, IInv, TypeOK
    <2>2. \A w \in Workers : req[w].phase = "committed" => req'[w].phase = "committed"
      BY <1>3 DEF RollBack, IInv, TypeOK
    <2>3. NoStrandedWork'
      BY <2>1, <2>2
      DEF IInv, NoStrandedWork, WorkIsAnnounced, Pending, EndEffect, rowVars, daemonVars
    <2> QED
      BY <2>1, <2>3, EndKeeps DEF IInv
  <1>4. CASE LosePoke(r)
    <2>1. /\ EndEffect(r) /\ poked' = poked /\ lost' = lost + 1 /\ lost \in Nat
          /\ poked' \in BOOLEAN /\ lost' \in 0..MaxLostPokes
      BY <1>4, Limits DEF LosePoke, EndEffect, rowVars, daemonVars, IInv, TypeOK
    <2>2. NoStrandedWork'
      BY <2>1 DEF NoStrandedWork
    <2> QED
      BY <2>1, <2>2, EndKeeps DEF IInv
  <1> QED
    BY <1>1, <1>2, <1>3, <1>4 DEF WorkerStep

(* The daemon only settles rows: it makes no order and asks for no work. *)
LEMMA OutcomeSettled ==
    ASSUME NEW v \in Statuses
    PROVE  Outcome(v) \in Statuses \ (PendingStatuses \cup {"ordered"})
  BY DEF Outcome, Statuses, PendingStatuses

LEMMA DaemonKeeps ==
    ASSUME IInv, DaemonStep
    PROVE  IInv'
  <1>1. TypeOK /\ Numbered /\ OrdersHaveNoMail /\ NoStrandedWork
    BY DEF IInv
  <1>2. CASE DaemonWake
    <2>1. TypeOK' /\ OrdersHaveNoMail'
      BY <1>1, <1>2 DEF TypeOK, OrdersHaveNoMail, DaemonWake, rowVars
    <2>2. Numbered'
      BY <1>1, <1>2
      DEF Numbered, HostsNumbered, MailNumbered, ApprovalsKnown, Exists, DaemonWake, rowVars
    <2>3. NoStrandedWork'
      BY <1>2 DEF NoStrandedWork, WorkIsAnnounced, Pending, DaemonWake, rowVars
    <2> QED
      BY <2>1, <2>2, <2>3 DEF IInv
  <1>3. CASE \E h \in Rows : DaemonRead(h)
    <2>1. PICK h \in Rows : DaemonRead(h)
      BY <1>3
    <2>2. work' \in [row : Rows \cup {None}, verb : Statuses]
      BY <1>1, <2>1 DEF DaemonRead, NoWork, TypeOK, Statuses
    <2>3. TypeOK' /\ OrdersHaveNoMail'
      BY <1>1, <2>1, <2>2 DEF TypeOK, OrdersHaveNoMail, DaemonRead, rowVars
    <2>4. Numbered'
      BY <1>1, <2>1
      DEF Numbered, HostsNumbered, MailNumbered, ApprovalsKnown, Exists, DaemonRead, rowVars
    <2>5. NoStrandedWork'
      <3>1. \A g \in Rows : g # NoWork.row
        BY DistinctRows DEF Rows, NoWork
      <3> SUFFICES ASSUME lost' = 0, NEW g \in Rows, Pending(g)'
                   PROVE  WorkIsAnnounced(g)'
        BY DEF NoStrandedWork
      <3>2. Pending(g) /\ WorkIsAnnounced(g)
        BY <1>1, <2>1 DEF NoStrandedWork, Pending, DaemonRead, rowVars
      <3>3. CASE g = h
        BY <2>1, <3>2, <3>3 DEF DaemonRead, WorkIsAnnounced
      <3>4. CASE g # h
        BY <2>1, <3>1, <3>2, <3>4 DEF DaemonRead, WorkIsAnnounced
      <3> QED
        BY <3>3, <3>4
    <2> QED
      BY <2>3, <2>4, <2>5 DEF IInv
  <1>4. CASE DaemonDone \/ DaemonFails
    <2>1. work.verb \in Statuses /\ NoWork \in [row : Rows \cup {None}, verb : Statuses]
      BY <1>1 DEF TypeOK, NoWork, Statuses
    <2>2. \A h \in Rows : \/ status'[h] = status[h] /\ h # work.row
                          \/ status'[h] \in Statuses \ (PendingStatuses \cup {"ordered"})
                               /\ (status[h] = "absent" => status'[h] = "absent")
      BY <1>1, <1>4, <2>1, OutcomeSettled
      DEF DaemonDone, DaemonFails, Remove, Write, Exists, TypeOK, Statuses, PendingStatuses
    <2>3. /\ status' \in [Rows -> Statuses]
          /\ parent' \in [Subs -> Parents \cup {None}]
          /\ name' \in [Hosts -> Names \cup {None}]
      <3>1. CASE DaemonDone /\ work.verb = "todelete"
        BY <1>1, <3>1 DEF DaemonDone, Remove, TypeOK, Statuses
      <3>2. CASE DaemonDone /\ work.verb # "todelete"
        BY <1>1, <2>1, <3>2, OutcomeSettled, WriteTyped DEF DaemonDone, TypeOK
      <3>3. CASE DaemonFails
        BY <1>1, <3>3, WriteTyped DEF DaemonFails, TypeOK, Statuses
      <3> QED
        BY <1>4, <3>1, <3>2, <3>3
    <2>4. /\ used' = used /\ work' = NoWork
          /\ UNCHANGED <<phpIni, mail, req, poked, queue, lost>>
      BY <1>4 DEF DaemonDone, DaemonFails, Remove
    <2>5. TypeOK'
      BY <1>1, <2>1, <2>3, <2>4 DEF TypeOK
    <2>6. Numbered' /\ OrdersHaveNoMail'
      BY <1>1, <2>2, <2>4
      DEF Numbered, HostsNumbered, MailNumbered, ApprovalsKnown, OrdersHaveNoMail, Exists,
          Hosts, Rows
    <2>7. NoStrandedWork'
      BY <1>1, <2>2, <2>4 DEF NoStrandedWork, WorkIsAnnounced, Pending
    <2> QED
      BY <2>5, <2>6, <2>7 DEF IInv
  <1> QED
    BY <1>2, <1>3, <1>4 DEF DaemonStep

THEOREM InvariantHolds == Spec => []IInv
  <1>1. Init => IInv
    BY InitInvariant
  <1>2. IInv /\ [Next]_vars => IInv'
    <2> SUFFICES ASSUME IInv, [Next]_vars PROVE IInv'
      OBVIOUS
    <2>1. CASE DaemonStep
      BY <2>1, DaemonKeeps
    <2>2. CASE \E r \in Workers : CheckStep(r) \/ WorkerStep(r)
      BY <2>2, CheckKeeps, WorkerKeeps
    <2>3. CASE UNCHANGED vars
      BY <2>3 DEF vars, rowVars, daemonVars, IInv, TypeOK, Numbered, HostsNumbered, MailNumbered,
                  ApprovalsKnown, OrdersHaveNoMail, NoStrandedWork, WorkIsAnnounced, Pending, Exists
    <2> QED
      BY <2>1, <2>2, <2>3 DEF Next
  <1> QED
    BY <1>1, <1>2, PTL DEF Spec

(* Every variable keeps its shape, whatever the clients send. *)
THEOREM TypeCorrect == Spec => []TypeOK
  BY InvariantHolds, PTL DEF IInv

(* An alias awaiting approval has no mail account, for any number of PHP   *)
(* processes deciding about the same order at once.                        *)
THEOREM OrdersKeepNoMail == Spec => []OrdersHaveNoMail
  BY InvariantHolds, PTL DEF IInv

(* As long as every commit is followed by its poke, no pending row is left *)
(* behind by the daemon, however commits, pokes and passes interleave.     *)
THEOREM NothingStranded == Spec => []NoStrandedWork
  BY InvariantHolds, PTL DEF IInv

---------------------------------------------------------------------------
(* Rows leave the database only as withdrawn orders or through the daemon. *)

LEMMA CommitRemovesOrders ==
    ASSUME TypeOK, NEW r \in Workers, CommitStep(r), NEW a \in Aliases, status'[a] = "absent"
    PROVE  status[a] \in {"absent", "ordered"}
  <1> USE DEF Rows, Hosts
  <1>1. CASE DomainAliasCreateCommit(r)
    BY <1>1 DEF DomainAliasCreateCommit, Insert, NewAliasStatus, TypeOK
  <1>2. CASE DomainAliasUpdateCommit(r)
    BY <1>2 DEF DomainAliasUpdateCommit, Write
  <1>3. CASE DomainAliasDeleteCommit(r)
    BY <1>3 DEF DomainAliasDeleteCommit, Write
  <1>4. CASE CancelOrderCommit(r)
    BY <1>4 DEF CancelOrderCommit, WithdrawOrder, Remove, StillOrdered
  <1>5. CASE DomainAliasApproveCommit(r)
    BY <1>5 DEF DomainAliasApproveCommit, Write
  <1>6. CASE DomainAliasRejectCommit(r)
    BY <1>6 DEF DomainAliasRejectCommit, WithdrawOrder, Remove, StillOrdered
  <1>7. CASE SubdomainCreateCommit(r)
    BY <1>7 DEF SubdomainCreateCommit, Insert, TypeOK
  <1>8. CASE SubdomainUpdateCommit(r)
    BY <1>8 DEF SubdomainUpdateCommit, Write
  <1>9. CASE SubdomainDeleteCommit(r)
    BY <1>9 DEF SubdomainDeleteCommit, Write
  <1>10. CASE DomainUpdateCommit(r)
    BY <1>10 DEF DomainUpdateCommit, Write
  <1>11. CASE CustomerUpdateCommit(r)
    BY <1>11 DEF CustomerUpdateCommit, Write
  <1>12. CASE CustomerSetStateCommit(r)
    BY <1>12 DEF CustomerSetStateCommit, Write
  <1> QED
    BY <1>1, <1>2, <1>3, <1>4, <1>5, <1>6, <1>7, <1>8, <1>9, <1>10, <1>11, <1>12 DEF CommitStep

(* A rejection or a cancellation that comes after the approval leaves the  *)
(* approved alias alone: DELETE ... AND alias_status = 'ordered' is enough.*)
THEOREM BuiltAliasesStay == Spec => BuiltAliasesLeaveThroughDaemon
  <1>1. ASSUME IInv, [Next]_vars, NEW a \in Aliases,
               status[a] \notin {"absent", "ordered"}, status'[a] = "absent"
        PROVE  work = [row |-> a, verb |-> "todelete"]
    <2>0. TypeOK /\ a \in Rows
      BY <1>1 DEF IInv, Rows
    <2>1. CASE DaemonDone \/ DaemonFails
      <3>1. work = [row |-> work.row, verb |-> work.verb]
        BY <2>0 DEF TypeOK
      <3> QED
        BY <1>1, <2>0, <2>1, <3>1 DEF DaemonDone, DaemonFails, Remove, Write, Outcome
    <2>2. CASE status' = status
      BY <1>1, <2>2
    <2>3. CASE \E r \in Workers : CommitStep(r)
      BY <1>1, <2>0, <2>3, CommitRemovesOrders
    <2>4. \/ DaemonDone \/ DaemonFails
          \/ status' = status
          \/ \E r \in Workers : CommitStep(r)
      BY <1>1, <2>0, CheckSteps
      DEF Next, DaemonStep, WorkerStep, DaemonWake, DaemonRead, SendRequest, RollBack, LosePoke,
          CheckEffect, vars, rowVars
    <2> QED
      BY <2>1, <2>2, <2>3, <2>4
  <1>2. IInv /\ [Next]_vars
        => [\A a \in Aliases :
                status[a] \notin {"absent", "ordered"} /\ status'[a] = "absent"
                => work = [row |-> a, verb |-> "todelete"]]_vars
    BY <1>1
  <1> QED
    BY <1>2, InvariantHolds, PTL DEF Spec, BuiltAliasesLeaveThroughDaemon

---------------------------------------------------------------------------
(* Where no customer is ever suspended, approval is the only way out of an *)
(* order other than its withdrawal.  The updates and the deletes of an     *)
(* alias decide on a row they read earlier and write it unconditionally:   *)
(* what saves the order is that no id is handed out twice and that no row  *)
(* goes back to 'ordered', so what they read as built stays built.         *)

Decided(q) ==
    /\ q.op \in {"suspend", "enable"} => "customerSetState" \in Operations
    /\ q.op = "domainAliasApprove" => q.role = "reseller"
    /\ q.op \in {"domainAliasUpdate", "domainAliasDelete"}
       => q.target \in Aliases \cap used /\ status[q.target] # "ordered"
    /\ q.op \in {"subdomainUpdate", "subdomainDelete"} => q.target \in Subs

OrdersGuarded ==
    /\ \A r \in Workers : Decided(req[r])
    /\ work.row \in Aliases => work.row \in used /\ status[work.row] # "ordered"

(* Only a new id is ever 'ordered' anew. *)
NoneReordered ==
    /\ used \subseteq used'
    /\ \A a \in Aliases \cap used : status'[a] = "ordered" => status[a] = "ordered"

LEMMA CommitReordersNone ==
    ASSUME IInv, NEW r \in Workers, CommitStep(r)
    PROVE  NoneReordered
  <1> USE DEF Rows, Hosts
  <1>0. TypeOK /\ used \subseteq used'
    BY CommitKeepsRows DEF IInv
  <1> SUFFICES ASSUME NEW a \in Aliases \cap used, status'[a] = "ordered"
               PROVE  status[a] = "ordered"
    BY <1>0 DEF NoneReordered
  <1>1. CASE DomainAliasCreateCommit(r)
    BY <1>0, <1>1 DEF DomainAliasCreateCommit, Insert, TypeOK
  <1>2. CASE DomainAliasUpdateCommit(r)
    BY <1>2 DEF DomainAliasUpdateCommit, Write
  <1>3. CASE DomainAliasDeleteCommit(r)
    BY <1>3 DEF DomainAliasDeleteCommit, Write
  <1>4. CASE CancelOrderCommit(r)
    BY <1>4 DEF CancelOrderCommit, WithdrawOrder, Remove
  <1>5. CASE DomainAliasApproveCommit(r)
    BY <1>5 DEF DomainAliasApproveCommit, Write
  <1>6. CASE DomainAliasRejectCommit(r)
    BY <1>6 DEF DomainAliasRejectCommit, WithdrawOrder, Remove
  <1>7. CASE SubdomainCreateCommit(r)
    BY <1>0, <1>7 DEF SubdomainCreateCommit, Insert, TypeOK
  <1>8. CASE SubdomainUpdateCommit(r)
    BY <1>8 DEF SubdomainUpdateCommit, Write
  <1>9. CASE SubdomainDeleteCommit(r)
    BY <1>9 DEF SubdomainDeleteCommit, Write
  <1>10. CASE DomainUpdateCommit(r)
    BY <1>10 DEF DomainUpdateCommit, Write
  <1>11. CASE CustomerUpdateCommit(r)
    BY <1>11 DEF CustomerUpdateCommit, Write
  <1>12. CASE CustomerSetStateCommit(r)
    BY <1>12 DEF CustomerSetStateCommit, Write
  <1> QED
    BY <1>1, <1>2, <1>3, <1>4, <1>5, <1>6, <1>7, <1>8, <1>9, <1>10, <1>11, <1>12 DEF CommitStep

(* What the guarded reads establish about the request they admit. *)
LEMMA ChecksDecide ==
    ASSUME IInv, NEW r \in Workers, CheckStep(r)
    PROVE  Decided(req'[r])
  <1> USE DEF IInv, TypeOK, Admit, Request, Idle, Decided
  <1>a. \A a \in Aliases : Exists(a) => a \in used
    BY DEF Numbered, HostsNumbered, Hosts
  <1>1. CASE DomainAliasCreateCheck(r)
    BY <1>1 DEF DomainAliasCreateCheck
  <1>2. CASE DomainAliasUpdateCheck(r)
    BY <1>2, <1>a DEF DomainAliasUpdateCheck, RequireOk, Exists
  <1>3. CASE DomainAliasDeleteCheck(r)
    <2>1. PICK a \in Aliases :
             \/ status[a] \in {"ok", "error"} /\ req' = [req EXCEPT ![r] = Request("domainAliasDelete", "customer", a)]
             \/ req' = [req EXCEPT ![r] = Request("cancelOrder", "customer", a)]
      BY <1>3 DEF DomainAliasDeleteCheck, RequireDeletable
    <2>2. \/ /\ req'[r] = Request("domainAliasDelete", "customer", a)
             /\ a \in used /\ status[a] # "ordered"
          \/ req'[r] = Request("cancelOrder", "customer", a)
      BY <2>1, <1>a DEF Exists
    <2> QED
      BY <2>2
  <1>4. CASE DomainAliasApproveCheck(r)
    BY <1>4 DEF DomainAliasApproveCheck, MayDecideOrders
  <1>5. CASE DomainAliasRejectCheck(r)
    BY <1>5 DEF DomainAliasRejectCheck
  <1>6. CASE SubdomainCreateCheck(r)
    BY <1>6 DEF SubdomainCreateCheck
  <1>7. CASE SubdomainUpdateCheck(r)
    BY <1>7 DEF SubdomainUpdateCheck
  <1>8. CASE SubdomainDeleteCheck(r)
    BY <1>8 DEF SubdomainDeleteCheck
  <1>9. CASE DomainUpdateCheck(r)
    BY <1>9 DEF DomainUpdateCheck
  <1>10. CASE CustomerUpdateCheck(r)
    BY <1>10 DEF CustomerUpdateCheck
  <1>11. CASE CustomerSetStateCheck(r)
    <2>1. "customerSetState" \in Operations
      BY <1>11 DEF CustomerSetStateCheck
    <2>2. \/ req' = [req EXCEPT ![r] = Request("suspend", "reseller", Dmn)]
          \/ req' = [req EXCEPT ![r] = Request("enable", "reseller", Dmn)]
      BY <1>11 DEF CustomerSetStateCheck
    <2>3. req'[r].op \in {"suspend", "enable"}
      BY <2>2
    <2> QED
      BY <2>1, <2>3
  <1> QED
    BY <1>1, <1>2, <1>3, <1>4, <1>5, <1>6, <1>7, <1>8, <1>9, <1>10, <1>11 DEF CheckStep

LEMMA DaemonReordersNone ==
    ASSUME IInv, DaemonStep
    PROVE  NoneReordered /\ req' = req
  <1>1. work.verb \in Statuses
    BY DEF IInv, TypeOK
  <1> QED
    BY <1>1, OutcomeSettled
    DEF DaemonStep, DaemonWake, DaemonRead, DaemonDone, DaemonFails, Remove, Write,
        NoneReordered, rowVars, Rows

LEMMA DaemonGuards ==
    ASSUME IInv, OrdersGuarded, DaemonStep
    PROVE  work'.row \in Aliases => work'.row \in used' /\ status'[work'.row] # "ordered"
  <1>0. NoWork.row \notin Aliases
    BY DistinctRows DEF NoWork
  <1>1. CASE DaemonWake
    BY <1>1, <1>0 DEF DaemonWake
  <1>2. CASE \E h \in Rows : DaemonRead(h)
    BY <1>2, <1>0
    DEF DaemonRead, IInv, Numbered, HostsNumbered, Exists, Pending, PendingStatuses, Hosts, rowVars
  <1>3. CASE DaemonDone \/ DaemonFails
    BY <1>3, <1>0 DEF DaemonDone, DaemonFails
  <1> QED
    BY <1>1, <1>2, <1>3 DEF DaemonStep

LEMMA GuardedKept ==
    ASSUME IInv, OrdersGuarded, [Next]_vars
    PROVE  OrdersGuarded'
  <1> USE DEF OrdersGuarded, Decided
  <1>1. ASSUME NEW r \in Workers, CheckStep(r)
        PROVE  OrdersGuarded'
    <2>1. CheckEffect(r) /\ Decided(req'[r])
      BY <1>1, CheckSteps, ChecksDecide DEF IInv
    <2> QED
      BY <2>1 DEF CheckEffect, rowVars, daemonVars
  <1>2. ASSUME NEW r \in Workers, CommitStep(r)
        PROVE  OrdersGuarded'
    <2>1. NoneReordered /\ CommitEffect(r)
      BY <1>2, CommitSteps, CommitReordersNone DEF IInv
    <2>2. \/ req'[r] = Idle
          \/ /\ req'[r].op = req[r].op /\ req'[r].role = req[r].role
             /\ req'[r].target = req[r].target
      BY <2>1 DEF CommitEffect, IInv, TypeOK, Requests
    <2>3. Decided(req[r])'
      BY <2>1, <2>2 DEF NoneReordered, Idle
    <2> QED
      BY <2>1, <2>3 DEF NoneReordered, CommitEffect, daemonVars
  <1>3. ASSUME NEW r \in Workers, SendRequest(r) \/ RollBack(r) \/ LosePoke(r)
        PROVE  OrdersGuarded'
    <2>1. EndEffect(r)
      BY <1>3 DEF SendRequest, RollBack, LosePoke, EndEffect, rowVars, daemonVars
    <2> QED
      BY <2>1 DEF EndEffect, Idle, IInv, TypeOK, rowVars, daemonVars
  <1>4. CASE DaemonStep
    <2>1. \A r \in Workers : Decided(req[r])'
      BY <1>4, DaemonReordersNone DEF NoneReordered
    <2> QED
      BY <1>4, <2>1, DaemonGuards
  <1>5. CASE UNCHANGED vars
    BY <1>5 DEF vars, rowVars, daemonVars
  <1> QED
    BY <1>1, <1>2, <1>3, <1>4, <1>5 DEF Next, WorkerStep

LEMMA CommitProvisionsByDecision ==
    ASSUME IInv, OrdersGuarded, NEW r \in Workers, CommitStep(r),
           NEW a \in Aliases, status[a] = "ordered", status'[a] \notin {"ordered", "absent"}
    PROVE  Approves(r, a) \/ Suspends(r)
  <1> USE DEF Rows, Hosts, OrdersGuarded, Decided
  <1>0. a \in used /\ TypeOK
    BY DEF IInv, Numbered, HostsNumbered, Exists
  <1>1. CASE DomainAliasCreateCommit(r)
    BY <1>0, <1>1 DEF DomainAliasCreateCommit, Insert, TypeOK
  <1>2. CASE DomainAliasUpdateCommit(r)
    BY <1>2 DEF DomainAliasUpdateCommit, Write, Checked
  <1>3. CASE DomainAliasDeleteCommit(r)
    BY <1>3, DistinctRows DEF DomainAliasDeleteCommit, Write, Checked, SubsOf
  <1>4. CASE CancelOrderCommit(r)
    BY <1>4 DEF CancelOrderCommit, WithdrawOrder, Remove
  <1>5. CASE DomainAliasApproveCommit(r)
    <2>1. a = req[r].target /\ Checked(r, "domainAliasApprove") /\ req[r].role = "reseller"
      BY <1>5 DEF DomainAliasApproveCommit, Write, Checked
    <2>2. req'[r].phase = "committed"
      BY <1>0, <1>5, <2>1, CommitEffects DEF DomainAliasApproveCommit, Checked
    <2> QED
      BY <2>1, <2>2 DEF Checked, Approves
  <1>6. CASE DomainAliasRejectCommit(r)
    BY <1>6 DEF DomainAliasRejectCommit, WithdrawOrder, Remove
  <1>7. CASE SubdomainCreateCommit(r)
    BY <1>0, <1>7, DistinctRows DEF SubdomainCreateCommit, Insert, TypeOK
  <1>8. CASE SubdomainUpdateCommit(r)
    BY <1>8, DistinctRows DEF SubdomainUpdateCommit, Write, Checked
  <1>9. CASE SubdomainDeleteCommit(r)
    BY <1>9, DistinctRows DEF SubdomainDeleteCommit, Write, Checked
  <1>10. CASE DomainUpdateCommit(r)
    BY <1>10, DistinctRows DEF DomainUpdateCommit, Write
  <1>11. CASE CustomerUpdateCommit(r)
    BY <1>11, DistinctRows DEF CustomerUpdateCommit, Write, Rescheduled
  <1>12. CASE CustomerSetStateCommit(r)
    <2>1. Checked(r, "suspend") \/ Checked(r, "enable")
      BY <1>12 DEF CustomerSetStateCommit
    <2>2. req'[r].phase = "committed"
      BY <1>0, <1>12, <2>1, CommitEffects DEF CustomerSetStateCommit, Checked
    <2> QED
      BY <2>1, <2>2 DEF Checked, Suspends
  <1> QED
    BY <1>1, <1>2, <1>3, <1>4, <1>5, <1>6, <1>7, <1>8, <1>9, <1>10, <1>11, <1>12 DEF CommitStep

LEMMA StepProvisionsByDecision ==
    ASSUME IInv, OrdersGuarded, [Next]_vars, NEW a \in Aliases,
           status[a] = "ordered", status'[a] \notin {"ordered", "absent"}
    PROVE  \E r \in Workers : Approves(r, a) \/ Suspends(r)
  <1>1. CASE \E r \in Workers : CommitStep(r)
    BY <1>1, CommitProvisionsByDecision
  <1>2. CASE DaemonDone \/ DaemonFails
    BY <1>2 DEF DaemonDone, DaemonFails, Remove, Write, OrdersGuarded, Rows
  <1>3. CASE status' = status
    BY <1>3
  <1>4. \/ DaemonDone \/ DaemonFails
        \/ status' = status
        \/ \E r \in Workers : CommitStep(r)
    BY CheckSteps
    DEF IInv, Next, DaemonStep, WorkerStep, DaemonWake, DaemonRead, SendRequest, RollBack,
        LosePoke, CheckEffect, vars, rowVars
  <1> QED
    BY <1>1, <1>2, <1>3, <1>4

LEMMA GuardedHolds == Spec => []OrdersGuarded
  <1>1. Init => OrdersGuarded
    BY DistinctRows DEF Init, OrdersGuarded, Decided, Idle, NoWork
  <1>2. IInv /\ OrdersGuarded /\ [Next]_vars => OrdersGuarded'
    BY GuardedKept
  <1> QED
    BY <1>1, <1>2, InvariantHolds, PTL DEF Spec

(* An order becomes an alias only in the transaction of an approval or of  *)
(* a suspension, whatever the other requests and the daemon are doing.     *)
THEOREM OrdersAwait == Spec => OrdersAwaitDecision
  <1>1. IInv /\ OrdersGuarded /\ [Next]_vars
        => [\A a \in Aliases :
                status[a] = "ordered" /\ status'[a] \notin {"ordered", "absent"}
                => \E r \in Workers : Approves(r, a) \/ Suspends(r)]_vars
    BY StepProvisionsByDecision
  <1> QED
    BY <1>1, InvariantHolds, GuardedHolds, PTL DEF Spec, OrdersAwaitDecision

(* Without suspensions, an order becomes an alias only in the transaction  *)
(* of an approval a reseller or an administrator asked for.  The premise   *)
(* is needed: customerSetState writes every alias of the customer.         *)
THEOREM ApprovalAloneProvisions ==
    ASSUME "customerSetState" \notin Operations
    PROVE  Spec => OnlyApprovalProvisions
  <1>1. OrdersGuarded => \A r \in Workers : ~Suspends(r)
    BY DEF OrdersGuarded, Decided, Suspends, Checked
  <1>2. IInv /\ OrdersGuarded /\ [Next]_vars
        => [\A a \in Aliases :
                status[a] = "ordered" /\ status'[a] \notin {"ordered", "absent"}
                => \E r \in Workers : Approves(r, a)]_vars
    BY <1>1, StepProvisionsByDecision
  <1> QED
    BY <1>2, InvariantHolds, GuardedHolds, PTL DEF Spec, OnlyApprovalProvisions

---------------------------------------------------------------------------
(***************************************************************************)
(* For any number of workers, hosts and names: two hosts share a name, a   *)
(* host's rows part from it, a pending row is written over or the limit of *)
(* aliases is passed only by transactions that others had overtaken.       *)
(*                                                                         *)
(* What a worker has read holds until it is overtaken: the daemon writes   *)
(* only rows that are pending, and no mutation goes on with one that is.   *)
(***************************************************************************)

(* An instance that sends what OverlapOperations lists, no updates of      *)
(* customers and no suspensions.                                           *)
InsertsAndDeletes == Operations \subseteq OverlapOperations

Waiting(r) == req[r].phase = "checked"

Creates == {"domainAliasCreate", "subdomainCreate"}

(* The updates whose target is the main domain. *)
OfDomain == {"domainUpdate", "customerUpdate"}

Decisions == {"cancelOrder", "domainAliasApprove", "domainAliasReject"}

(* The parent of a subdomain: the main domain, or an alias there has been. *)
Known == {Dmn} \cup (Aliases \cap used)

(* What the request of a waiting worker carries. *)
Carried(r) ==
    /\ req[r].target \in Rows
    /\ req[r].op = "subdomainCreate" => req[r].parent = req[r].target /\ req[r].target \in Known
    /\ req[r].op \in Decisions => req[r].target \in Aliases
    /\ req[r].op \in OfDomain => req[r].target = Dmn

(* The states in which its guard lets a mutation go on with a row. *)
Found(op) ==
    CASE op \in {"domainAliasDelete", "subdomainDelete"} -> {"ok", "error"}
      [] op \in Decisions -> {"ordered"}
      [] op \in {"customerUpdate", "enable"} -> {"ok", "disabled"}
      [] OTHER -> {"ok"}

(* What a worker that nobody has overtaken has read. *)
ReadStill(r) ==
    /\ status[req[r].target] \in Found(req[r].op)
    /\ req[r].op \in Creates => ~NameInUse(req[r].name)

Overtakable == overtaken \subseteq Workers /\ \A r \in overtaken : Waiting(r)

Working == work # NoWork => work.row \in Rows /\ Pending(work.row)

Hanging == \A s \in Subs : Exists(s) => parent[s] \in Known

ReadInv ==
    /\ Overtakable /\ Working /\ Hanging
    /\ \A r \in Workers : Waiting(r) => Carried(r) /\ (r \notin overtaken => ReadStill(r))
    /\ NamesDoubledByOverlap

---------------------------------------------------------------------------
(* The steps of OverlapSpec are steps of Spec. *)

LEMMA OverlapIsSpec == OverlapSpec => Spec
<1>1. OverlapInit => Init
  BY DEF OverlapInit
<1>2. [OverlapNext]_overlapVars => [Next]_vars
  BY DEF OverlapNext, OverlapCommit, OverlapOther, Next, WorkerStep, overlapVars
<1> QED  BY <1>1, <1>2, PTL DEF OverlapSpec, Spec

(* What is known of the rows. *)
HostInv == IInv /\ OrdersGuarded

LEMMA HostsHold == OverlapSpec => []HostInv
<1> QED  BY OverlapIsSpec, InvariantHolds, GuardedHolds, PTL DEF HostInv

---------------------------------------------------------------------------
(* What a step does to the rows. *)

NewHosts == used' \ used

(* No row comes back, and none is renamed or hung elsewhere. *)
Continuing ==
    /\ used \subseteq used' /\ used' \subseteq Hosts
    /\ \A h \in ({Dmn} \cup Hosts) \ NewHosts : Exists(h)' => Exists(h)
    /\ \A h \in Hosts \ NewHosts : Exists(h)' => name'[h] = name[h]
    /\ \A s \in Subs \ NewHosts : Exists(s)' => parent'[s] = parent[s]

(* Rows that are pending stay so. *)
Pends == \A h \in Rows : Pending(h) => Pending(h)'

LEMMA WriteContinues ==
  ASSUME TypeOK, NEW S, NEW v \in PendingStatuses, status' = Write(S, v), UNCHANGED <<used, parent, name>>
  PROVE  Continuing /\ Pends /\ NewHosts = {}
<1> QED  BY DEF TypeOK, Write, Continuing, Pends, NewHosts, Exists, Pending, PendingStatuses, Rows, Hosts

LEMMA RemoveContinues ==
  ASSUME TypeOK, NEW S \in SUBSET Rows, Remove(S)
  PROVE  Continuing /\ NewHosts = {} /\ \A h \in Rows \ S : status'[h] = status[h]
<1> QED  BY DEF TypeOK, Remove, Continuing, NewHosts, Exists, Rows, Hosts

LEMMA InsertContinues ==
  ASSUME TypeOK, HostsNumbered, NEW h \in Hosts \ used, NEW p, NEW n, NEW st, NEW withMail, Insert(h, p, n, st, withMail)
  PROVE  /\ Continuing /\ Pends /\ NewHosts = {h}
         /\ name'[h] = n /\ (h \in Subs => parent'[h] = p)
         /\ \A g \in Rows \ {h} : status'[g] = status[g]
<1>1. status[h] = "absent" /\ h \in Rows
  BY DEF HostsNumbered, Exists, Rows, Hosts
<1> QED  BY <1>1 DEF TypeOK, Insert, Continuing, Pends, NewHosts, Exists, Pending, PendingStatuses, Rows, Hosts

(* Every transaction continues, and a new host has the name it asked for. *)
Named(r) ==
    NewHosts # {} =>
        /\ req[r].op \in Creates
        /\ \E h \in Hosts : /\ NewHosts = {h} /\ name'[h] = req[r].name
                            /\ status[h] = "absent" /\ status'[h] # "absent"
                            /\ h \in Subs => parent'[h] = req[r].parent /\ req[r].op = "subdomainCreate"

LEMMA CommitContinues ==
  ASSUME TypeOK, HostsNumbered, NEW r \in Workers, CommitStep(r),
         req[r].op \in Decisions => req[r].target \in Rows
  PROVE  Continuing /\ Pends /\ Named(r)
<1>w. \A S, v : v \in PendingStatuses /\ status' = Write(S, v) /\ UNCHANGED <<used, parent, name>>
                => Continuing /\ Pends /\ Named(r)
  BY WriteContinues DEF Named
<1>i. ASSUME NEW h \in Hosts \ used, NEW p, NEW n, NEW st \in Statuses \ {"absent"}, NEW withMail,
             Insert(h, p, n, st, withMail), n = req[r].name, req[r].op \in Creates,
             h \in Subs => p = req[r].parent /\ req[r].op = "subdomainCreate"
      PROVE  Continuing /\ Pends /\ Named(r)
  <2>1. status[h] = "absent" /\ status'[h] = st /\ h \in Rows
    BY <1>i DEF HostsNumbered, Exists, Rows, Hosts, Insert, TypeOK
  <2>2. Continuing /\ Pends /\ NewHosts = {h} /\ name'[h] = n /\ (h \in Subs => parent'[h] = p)
    BY <1>i, InsertContinues
  <2> QED  BY <1>i, <2>1, <2>2 DEF Named
<1>r. ASSUME req[r].target \in Rows, WithdrawOrder(r)  PROVE Continuing /\ Pends /\ Named(r)
  <2> DEFINE S == {a \in {req[r].target} : StillOrdered(a)}
  <2>1. S \in SUBSET Rows /\ \A h \in S : status[h] = "ordered"
    BY <1>r DEF StillOrdered
  <2>2. Remove(S)
    BY <1>r DEF WithdrawOrder
  <2> HIDE DEF S
  <2>3. Continuing /\ NewHosts = {} /\ \A h \in Rows \ S : status'[h] = status[h]
    BY <2>1, <2>2, RemoveContinues
  <2> QED  BY <2>1, <2>3 DEF Named, Pends, Pending, PendingStatuses
<1>1. CASE DomainAliasCreateCommit(r)
  <2>1. PICK a \in Aliases \ used :
           Insert(a, None, req[r].name, NewAliasStatus(req[r].role), NewAliasMail(req[r].role))
    BY <1>1 DEF DomainAliasCreateCommit
  <2>2. NewAliasStatus(req[r].role) \in Statuses \ {"absent"} /\ a \in Hosts \ used /\ a \notin Subs
    BY DistinctRows DEF NewAliasStatus, Statuses, PendingStatuses, Hosts
  <2>3. req[r].op \in Creates
    BY <1>1 DEF DomainAliasCreateCommit, Checked, Creates
  <2> QED  BY <1>i, <2>1, <2>2, <2>3
<1>2. CASE DomainAliasUpdateCommit(r)
  BY <1>2, <1>w DEF DomainAliasUpdateCommit, PendingStatuses
<1>3. CASE DomainAliasDeleteCommit(r)
  BY <1>3, <1>w DEF DomainAliasDeleteCommit, PendingStatuses
<1>4. CASE CancelOrderCommit(r)
  BY <1>4, <1>r DEF CancelOrderCommit, Checked, Decisions
<1>5. CASE DomainAliasApproveCommit(r)
  BY <1>5, <1>w DEF DomainAliasApproveCommit, PendingStatuses
<1>6. CASE DomainAliasRejectCommit(r)
  BY <1>6, <1>r DEF DomainAliasRejectCommit, Checked, Decisions
<1>7. CASE SubdomainCreateCommit(r)
  <2>1. PICK s \in Subs \ used : Insert(s, req[r].parent, req[r].name, "toadd", Defaults)
    BY <1>7 DEF SubdomainCreateCommit
  <2>2. "toadd" \in Statuses \ {"absent"} /\ s \in Hosts \ used /\ req[r].op = "subdomainCreate"
    BY <1>7 DEF SubdomainCreateCommit, Checked, Statuses, PendingStatuses, Hosts
  <2> QED  BY <1>i, <2>1, <2>2 DEF Creates
<1>8. CASE SubdomainUpdateCommit(r)
  BY <1>8, <1>w DEF SubdomainUpdateCommit, PendingStatuses
<1>9. CASE SubdomainDeleteCommit(r)
  BY <1>9, <1>w DEF SubdomainDeleteCommit, PendingStatuses
<1>10. CASE DomainUpdateCommit(r)
  BY <1>10, <1>w DEF DomainUpdateCommit, PendingStatuses
<1>11. CASE CustomerUpdateCommit(r)
  <2>1. UNCHANGED <<used, parent, name>>
    BY <1>11 DEF CustomerUpdateCommit
  <2>2. \A h \in {Dmn} \cup Hosts : Exists(h)' => Exists(h)
    BY <1>11, DistinctRows DEF CustomerUpdateCommit, Write, Exists, Rows, Hosts
  <2>3. Pends
    BY <1>11 DEF CustomerUpdateCommit, Write, Pends, Pending, PendingStatuses
  <2> QED  BY <2>1, <2>2, <2>3 DEF Continuing, NewHosts, Named, TypeOK
<1>12. CASE CustomerSetStateCommit(r)
  BY <1>12, <1>w DEF CustomerSetStateCommit, PendingStatuses
<1> QED
  BY <1>1, <1>2, <1>3, <1>4, <1>5, <1>6, <1>7, <1>8, <1>9, <1>10, <1>11, <1>12 DEF CommitStep

(* Among the hosts there have been, none joins again or changes its name. *)
LEMMA JoinedKept ==
  ASSUME TypeOK, HostsNumbered, Hanging, Continuing, NEW h \in Hosts \ NewHosts, Joined(h)'
  PROVE  Joined(h) /\ name'[h] = name[h]
<1>1. Exists(h)' /\ Exists(h) /\ name'[h] = name[h]
  BY DEF Continuing, Joined
<1>2. ASSUME h \in Subs  PROVE Exists(parent[h])
  <2>1. parent'[h] = parent[h] /\ parent[h] \in Known
    BY <1>1, <1>2 DEF Continuing, Hanging
  <2>2. parent[h] \in ({Dmn} \cup Hosts) \ NewHosts
    BY <2>1, DistinctRows DEF Known, NewHosts, Hosts, Continuing
  <2>3. status'[parent[h]] # "absent"
    BY <1>2, <2>1 DEF Joined, Exists
  <2> QED  BY <2>2, <2>3 DEF Continuing, Exists
<1> QED  BY <1>1, <1>2 DEF Joined

LEMMA HangingKept ==
  ASSUME TypeOK, Hanging, Continuing,
         \A s \in Subs \cap NewHosts : parent'[s] \in Known
  PROVE  Hanging'
<1> SUFFICES ASSUME NEW s \in Subs, Exists(s)'  PROVE parent'[s] \in Known'
  BY DEF Hanging
<1>1. Known \subseteq Known'
  BY DEF Known, Continuing
<1>2. CASE s \in NewHosts
  BY <1>1, <1>2
<1>3. CASE s \notin NewHosts
  <2>1. Exists(s) /\ parent'[s] = parent[s]
    BY <1>3 DEF Continuing, Hosts
  <2> QED  BY <1>1, <2>1 DEF Hanging
<1> QED  BY <1>2, <1>3

---------------------------------------------------------------------------
(* The daemon spares what is not pending. *)

LEMMA DaemonContinues ==
  ASSUME TypeOK, Working, DaemonStep
  PROVE  /\ Continuing /\ NewHosts = {}
         /\ \A h \in Rows : ~Pending(h) => status'[h] = status[h]
         /\ Working' /\ UNCHANGED <<req, used>>
<1>1. CASE DaemonWake
  BY <1>1 DEF DaemonWake, rowVars, Continuing, NewHosts, Exists, Pending, Working, TypeOK
<1>2. CASE \E h \in Rows : DaemonRead(h)
  <2>1. PICK h \in Rows : DaemonRead(h)
    BY <1>2
  <2>2. UNCHANGED <<status, used, parent, name, req>>
    BY <2>1 DEF DaemonRead, rowVars
  <2>3. work' = NoWork \/ (work'.row = h /\ Pending(h)')
    BY <2>1, <2>2 DEF DaemonRead, Pending
  <2>4. Working'
    BY <2>2, <2>3 DEF Working, NoWork
  <2> QED  BY <2>2, <2>4 DEF Continuing, NewHosts, Exists, Pending, TypeOK
<1>3. CASE DaemonDone \/ DaemonFails
  <2>1. work # NoWork /\ work' = NoWork /\ UNCHANGED req
    BY <1>3 DEF DaemonDone, DaemonFails
  <2>2. work.row \in Rows /\ Pending(work.row)
    BY <2>1 DEF Working
  <2>3. Working'
    BY <2>1 DEF Working, NoWork
  <2>4. CASE Remove({work.row})
    <3>1. Continuing /\ NewHosts = {} /\ \A h \in Rows \ {work.row} : status'[h] = status[h]
      BY <2>2, <2>4, RemoveContinues
    <3>2. UNCHANGED used
      BY <2>4 DEF Remove
    <3> QED  BY <2>1, <2>2, <2>3, <3>1, <3>2
  <2>5. ASSUME NEW v \in Statuses, status' = Write({work.row}, v), UNCHANGED <<used, parent, name>>
        PROVE  /\ Continuing /\ NewHosts = {}
               /\ \A h \in Rows : ~Pending(h) => status'[h] = status[h]
    BY <2>2, <2>5, DistinctRows DEF Write, Continuing, NewHosts, Exists, TypeOK, Rows, Hosts
  <2>6. Outcome(work.verb) \in Statuses /\ "error" \in Statuses
    BY OutcomeSettled DEF TypeOK, Statuses
  <2>7. \/ Remove({work.row})
        \/ \E v \in Statuses : status' = Write({work.row}, v) /\ UNCHANGED <<used, parent, name>>
    BY <1>3, <2>6 DEF DaemonDone, DaemonFails
  <2> QED  BY <2>1, <2>3, <2>4, <2>5, <2>7 DEF Remove
<1> QED  BY <1>1, <1>2, <1>3 DEF DaemonStep

---------------------------------------------------------------------------
(* What has been read still holds of whoever has not been overtaken. *)

LEMMA ReadInitially == OverlapInit => ReadInv
<1> SUFFICES ASSUME OverlapInit  PROVE ReadInv
  OBVIOUS
<1>1. overtaken = {} /\ raced = {} /\ Init
  BY DEF OverlapInit
<1>2. \A r \in Workers : ~Waiting(r)
  BY <1>1 DEF Init, Waiting, Idle
<1>3. Working /\ Hanging /\ Overtakable
  BY <1>1, DistinctRows DEF Init, Working, Hanging, Overtakable, Exists, Rows
<1>4. NamesDoubledByOverlap
  BY <1>1, DistinctRows DEF Init, NamesDoubledByOverlap, Joined, Exists, Hosts, Rows
<1> QED  BY <1>2, <1>3, <1>4 DEF ReadInv

(* Every check has read what it relies on. *)
LEMMA ChecksRead ==
  ASSUME TypeOK, HostsNumbered, NEW r \in Workers, CheckStep(r)
  PROVE  Carried(r)' /\ ReadStill(r)'
<1>1. UNCHANGED rowVars /\ CheckEffect(r)
  BY CheckSteps DEF CheckEffect
<1>2. UNCHANGED <<status, used, parent, name, phpIni, mail>>
  BY <1>1 DEF rowVars
<1>3. \A p \in Parents : RequireOk(p) => p \in Known
  BY DEF Parents, RequireOk, HostsNumbered, Exists, Known, Hosts
<1>4. \A n : NameInUse(n)' <=> NameInUse(n)
  BY <1>2 DEF NameInUse, Joined, Exists
<1>5. ASSUME NEW q, Admit(r, q), q.target \in Rows,
             q.op = "subdomainCreate" => q.parent = q.target /\ q.target \in Known,
             q.op \in Decisions => q.target \in Aliases, q.op \in OfDomain => q.target = Dmn,
             status[q.target] \in Found(q.op),
             q.op \in Creates => ~NameInUse(q.name)
      PROVE  Carried(r)' /\ ReadStill(r)'
  <2>1. req'[r] = q
    BY <1>5 DEF Admit, TypeOK
  <2>2. Known' = Known
    BY <1>2 DEF Known
  <2>3. Carried(r)'
    BY <1>5, <2>1, <2>2 DEF Carried
  <2>4. ~NameInUse(q.name)' \/ q.op \notin Creates
    BY <1>4, <1>5
  <2>5. ReadStill(r)'
    BY <1>2, <1>5, <2>1, <2>4 DEF ReadStill, NameInUse, Joined, Exists
  <2> QED  BY <2>3, <2>5
<1>6. ASSUME NEW op, NEW role, NEW h \in Rows, Admit(r, Request(op, role, h)),
             op \notin Creates, op \in Decisions => h \in Aliases, op \in OfDomain => h = Dmn, status[h] \in Found(op)
      PROVE  Carried(r)' /\ ReadStill(r)'
  <2>1. Request(op, role, h).op = op /\ Request(op, role, h).target = h
    BY DEF Request, Idle
  <2> QED  BY <1>5, <1>6, <2>1 DEF Creates
<1>7. ASSUME NEW op \in Creates, NEW role, NEW h \in Parents, NEW p, NEW n, RequireOk(h), ~NameInUse(n),
             op = "subdomainCreate" => p = h,
             Admit(r, [Request(op, role, h) EXCEPT !.parent = p, !.name = n])
      PROVE  Carried(r)' /\ ReadStill(r)'
  <2> DEFINE q == [Request(op, role, h) EXCEPT !.parent = p, !.name = n]
  <2>1. q.op = op /\ q.target = h /\ q.parent = p /\ q.name = n
    BY DEF Request, Idle
  <2>2. h \in Rows /\ h \in Known
    BY <1>3, <1>7 DEF Parents, Rows
  <2>3. op \notin Decisions \cup OfDomain /\ status[h] \in Found(op)
    BY <1>7 DEF Creates, Decisions, OfDomain, Found, RequireOk
  <2> HIDE DEF q
  <2> QED  BY <1>5, <1>7, <2>1, <2>2, <2>3 DEF q
<1>8. CASE DomainAliasCreateCheck(r)
  <2>1. PICK role \in Roles, n \in Names : RequireOk(Dmn) /\ ~NameInUse(n)
                        /\ Admit(r, [Request("domainAliasCreate", role, Dmn) EXCEPT !.name = n])
    BY <1>8 DEF DomainAliasCreateCheck
  <2> DEFINE q == [Request("domainAliasCreate", role, Dmn) EXCEPT !.name = n]
  <2>2. q.op = "domainAliasCreate" /\ q.target = Dmn /\ q.name = n /\ Dmn \in Rows
    BY DEF Request, Idle, Rows
  <2>3. Admit(r, q)
    BY <2>1
  <2> HIDE DEF q
  <2>4. q.op \notin Decisions \cup OfDomain /\ status[q.target] \in Found(q.op)
    BY <2>1, <2>2 DEF Found, Decisions, OfDomain, RequireOk
  <2> QED  BY <1>5, <2>1, <2>2, <2>3, <2>4
<1>9. CASE SubdomainCreateCheck(r)
  <2>1. PICK p \in Parents, n \in Names : RequireOk(p) /\ ~NameInUse(n)
                 /\ Admit(r, [Request("subdomainCreate", "customer", p) EXCEPT !.parent = p, !.name = n])
    BY <1>9 DEF SubdomainCreateCheck
  <2> QED  BY <1>7, <2>1 DEF Creates
<1>10. CASE DomainAliasUpdateCheck(r)
  BY <1>10, <1>6 DEF DomainAliasUpdateCheck, RequireOk, Found, Decisions, Creates, OfDomain, Rows
<1>11. CASE DomainAliasDeleteCheck(r)
  BY <1>11, <1>6 DEF DomainAliasDeleteCheck, RequireDeletable, Found, Decisions, Creates, OfDomain, Rows
<1>12. CASE DomainAliasApproveCheck(r)
  BY <1>12, <1>6 DEF DomainAliasApproveCheck, Found, Decisions, Creates, OfDomain, Rows
<1>13. CASE DomainAliasRejectCheck(r)
  BY <1>13, <1>6 DEF DomainAliasRejectCheck, Found, Decisions, Creates, OfDomain, Rows
<1>14. CASE SubdomainUpdateCheck(r)
  BY <1>14, <1>6 DEF SubdomainUpdateCheck, RequireOk, Found, Decisions, Creates, OfDomain, Rows
<1>15. CASE SubdomainDeleteCheck(r)
  BY <1>15, <1>6 DEF SubdomainDeleteCheck, RequireDeletable, Found, Decisions, Creates, OfDomain, Rows
<1>16. CASE DomainUpdateCheck(r)
  BY <1>16, <1>6 DEF DomainUpdateCheck, RequireOk, Found, Decisions, Creates, OfDomain, Rows
<1>17. CASE CustomerUpdateCheck(r)
  <2>1. PICK named \in SUBSET Fields : status[Dmn] \in {"ok", "disabled"}
             /\ Admit(r, [Request("customerUpdate", "reseller", Dmn) EXCEPT !.named = named])
    BY <1>17 DEF CustomerUpdateCheck, RequireOk
  <2> DEFINE q == [Request("customerUpdate", "reseller", Dmn) EXCEPT !.named = named]
  <2>2. q.op = "customerUpdate" /\ q.target = Dmn /\ Dmn \in Rows
    BY DEF Request, Idle, Rows
  <2> HIDE DEF q
  <2> QED  BY <1>5, <2>1, <2>2 DEF q, Found, Decisions, Creates, OfDomain
<1>18. CASE CustomerSetStateCheck(r)
  BY <1>18, <1>6 DEF CustomerSetStateCheck, Found, Decisions, Creates, OfDomain, Rows
<1> QED
  BY <1>8, <1>9, <1>10, <1>11, <1>12, <1>13, <1>14, <1>15, <1>16, <1>17, <1>18 DEF CheckStep

(* A worker whose request and whose rows stay as they are. *)
LEMMA SameRead ==
  ASSUME NEW q \in Workers, UNCHANGED rowVars, req'[q] = req[q]
  PROVE  (Carried(q)' <=> Carried(q)) /\ (ReadStill(q)' <=> ReadStill(q)) /\ (Waiting(q)' <=> Waiting(q))
<1>1. UNCHANGED <<status, used, parent, name>>
  BY DEF rowVars
<1>2. Waiting(q)' <=> Waiting(q)
  BY DEF Waiting
<1>3. Carried(q)' <=> Carried(q)
  BY <1>1 DEF Carried, Known
<1>4. ReadStill(q)' <=> ReadStill(q)
  BY <1>1 DEF ReadStill, NameInUse, Joined, Exists
<1> QED  BY <1>2, <1>3, <1>4

LEMMA SameRows ==
  ASSUME UNCHANGED rowVars, UNCHANGED raced
  PROVE  /\ Hanging => Hanging'
         /\ NamesDoubledByOverlap => NamesDoubledByOverlap'
<1>1. UNCHANGED <<status, used, parent, name>>
  BY DEF rowVars
<1>2. Hanging => Hanging'
  BY <1>1 DEF Hanging, Exists, Known
<1>3. NamesDoubledByOverlap => NamesDoubledByOverlap'
  BY <1>1 DEF NamesDoubledByOverlap, Joined, Exists
<1> QED  BY <1>2, <1>3

(* A check, or the end of a request. *)
LEMMA OtherReads ==
  ASSUME HostInv, ReadInv, NEW r \in Workers, OverlapOther(r)
  PROVE  ReadInv'
<1>0. TypeOK /\ HostsNumbered
  BY DEF HostInv, IInv, Numbered
<1>1. UNCHANGED <<rowVars, work>> /\ UNCHANGED raced
  BY CheckSteps, <1>0 DEF OverlapOther, CheckEffect, SendRequest, RollBack, LosePoke, daemonVars
<1>2. \A q \in Workers : q # r => req'[q] = req[q]
  BY CheckSteps, <1>0 DEF OverlapOther, CheckEffect, SendRequest, RollBack, LosePoke, TypeOK
<1>3. overtaken' = overtaken \ {r} /\ (Waiting(r)' => Carried(r)' /\ ReadStill(r)')
  <2>1. CASE CheckStep(r)
    <3>1. req[r].phase = "idle"
      BY <2>1, <1>0, CheckSteps DEF CheckEffect
    <3>2. ~RollBack(r) /\ r \notin overtaken
      BY <3>1 DEF RollBack, ReadInv, Overtakable, Waiting
    <3> QED  BY <1>0, <2>1, <3>2, ChecksRead DEF OverlapOther
  <2>2. CASE SendRequest(r) \/ RollBack(r) \/ LosePoke(r)
    <3>1. req'[r] = Idle
      BY <2>2, <1>0 DEF SendRequest, RollBack, LosePoke, TypeOK
    <3>2. ~Waiting(r)'
      BY <3>1 DEF Waiting, Idle
    <3>3. SendRequest(r) \/ LosePoke(r) => r \notin overtaken
      BY DEF SendRequest, LosePoke, ReadInv, Overtakable, Waiting
    <3> QED  BY <2>2, <3>2, <3>3 DEF OverlapOther, RollBack
  <2> QED  BY <2>1, <2>2 DEF OverlapOther
<1>4. \A q \in Workers : q # r => (Carried(q)' <=> Carried(q)) /\ (ReadStill(q)' <=> ReadStill(q)) /\ (Waiting(q)' <=> Waiting(q))
  BY <1>1, <1>2, SameRead
<1>5. Hanging' /\ NamesDoubledByOverlap'
  BY <1>1, SameRows DEF ReadInv
<1>6. Working'
  BY <1>1 DEF ReadInv, Working, rowVars, Pending
<1>7. Overtakable'
  BY <1>3, <1>4 DEF ReadInv, Overtakable
<1>8. \A q \in Workers : Waiting(q)' => Carried(q)' /\ (q \notin overtaken' => ReadStill(q)')
  BY <1>3, <1>4 DEF ReadInv
<1> QED  BY <1>5, <1>6, <1>7, <1>8 DEF ReadInv

LEMMA DaemonReads ==
  ASSUME HostInv, ReadInv, DaemonStep, UNCHANGED <<overtaken, raced>>
  PROVE  ReadInv'
<1>0. TypeOK /\ HostsNumbered /\ Working /\ Hanging
  BY DEF HostInv, IInv, Numbered, ReadInv
<1>1. /\ Continuing /\ NewHosts = {} /\ Working' /\ UNCHANGED <<req, used>>
      /\ \A h \in Rows : ~Pending(h) => status'[h] = status[h]
  BY <1>0, DaemonContinues
<1>2. Hanging'
  BY <1>0, <1>1, HangingKept
<1>3. \A h \in Hosts : Joined(h)' => Joined(h) /\ name'[h] = name[h]
  BY <1>0, <1>1, JoinedKept
<1>4. NamesDoubledByOverlap'
  BY <1>3 DEF NamesDoubledByOverlap, ReadInv
<1>5. ASSUME NEW q \in Workers, Waiting(q)
      PROVE  Carried(q)' /\ (q \notin overtaken => ReadStill(q)')
  <2>1. Carried(q) /\ (q \notin overtaken => ReadStill(q))
    BY <1>5 DEF ReadInv
  <2>2. Known' = Known
    BY <1>1 DEF Known
  <2>3. Carried(q)'
    BY <1>1, <2>1, <2>2 DEF Carried
  <2>4. ASSUME ReadStill(q)  PROVE ReadStill(q)'
    <3>1. status[req[q].target] \notin PendingStatuses
      BY <2>4 DEF ReadStill, Found, PendingStatuses
    <3>2. status'[req[q].target] = status[req[q].target]
      BY <1>1, <2>1, <3>1 DEF Carried, Pending
    <3>3. NameInUse(req[q].name)' => NameInUse(req[q].name)
      BY <1>1, <1>3 DEF NameInUse
    <3> QED  BY <1>1, <2>4, <3>2, <3>3 DEF ReadStill
  <2> QED  BY <2>1, <2>3, <2>4
<1>6. \A q \in Workers : Waiting(q)' <=> Waiting(q)
  BY <1>1 DEF Waiting
<1>7. Overtakable'
  BY <1>6 DEF Overtakable, ReadInv, Waiting
<1> QED  BY <1>1, <1>2, <1>4, <1>5, <1>6, <1>7 DEF ReadInv

(* Whoever still waits after a transaction has been overtaken by it.  A    *)
(* new host has a name nobody had, or was inserted by an overtaken worker. *)
LEMMA CommitReads ==
  ASSUME HostInv, ReadInv, NEW r \in Workers, OverlapCommit(r)
  PROVE  ReadInv'
<1>0. TypeOK /\ HostsNumbered /\ Working /\ Hanging /\ Waiting(r) /\ Carried(r)
  <2>1. Waiting(r)
    BY CommitSteps DEF OverlapCommit, HostInv, IInv, CommitEffect, Waiting
  <2> QED  BY <2>1 DEF HostInv, IInv, Numbered, ReadInv
<1>1. Continuing /\ Pends /\ Named(r)
  BY <1>0, CommitContinues DEF OverlapCommit, Carried
<1>2. /\ work' = work /\ \A w \in Workers : w # r => req'[w] = req[w]
      /\ req'[r].phase # "checked"
  BY <1>0, CommitSteps DEF OverlapCommit, CommitEffect, Idle, daemonVars, TypeOK, Requests
<1>3. overtaken' = (overtaken \cup {w \in Workers : Waiting(w)}) \ {r}
  BY DEF OverlapCommit, Waiting
<1>4. Overtakable'
  BY <1>2, <1>3 DEF ReadInv, Overtakable, Waiting
<1>5. Working'
  BY <1>1, <1>2 DEF Working, ReadInv, Pends
<1>6. ASSUME NEW q \in Workers, Waiting(q)'
      PROVE  Carried(q)' /\ q \in overtaken'
  <2>1. q # r /\ req'[q] = req[q] /\ Waiting(q)
    BY <1>2, <1>6 DEF Waiting
  <2>2. Known \subseteq Known'
    BY <1>1 DEF Known, Continuing
  <2>3. Carried(q)'
    BY <2>1, <2>2 DEF Carried, ReadInv
  <2> QED  BY <1>3, <2>1, <2>3
<1>7. Hanging'
  <2>1. ASSUME NEW s \in Subs \cap NewHosts  PROVE parent'[s] \in Known
    BY <1>0, <1>1 DEF Named, Carried
  <2> QED  BY <1>0, <1>1, <2>1, HangingKept
<1>8. NamesDoubledByOverlap'
  <2>1. raced \subseteq raced'
    BY DEF OverlapCommit
  <2>2. \A h \in Hosts \ NewHosts : Joined(h)' => Joined(h) /\ name'[h] = name[h]
    BY <1>0, <1>1, JoinedKept
  <2>3. ASSUME NEW h \in NewHosts, h \notin raced', NEW g \in Hosts \ raced', g # h, Joined(g)'
        PROVE  name'[g] # name'[h]
    <3>1. /\ NewHosts = {h} /\ h \in Hosts /\ name'[h] = req[r].name /\ req[r].op \in Creates
          /\ status'[h] # status[h]
      BY <1>1, <2>3 DEF Named
    <3>2. r \notin overtaken
      BY <2>3, <3>1 DEF OverlapCommit, WritesHost
    <3>3. ~NameInUse(req[r].name)
      BY <1>0, <3>1, <3>2 DEF ReadInv, ReadStill
    <3>4. Joined(g) /\ name'[g] = name[g]
      BY <2>2, <2>3, <3>1
    <3> QED  BY <3>1, <3>3, <3>4 DEF NameInUse
  <2>4. ASSUME NEW g \in Hosts \ raced', NEW h \in Hosts \ raced', g # h, Joined(g)', Joined(h)'
        PROVE  name'[g] # name'[h]
    <3>1. CASE g \in NewHosts \/ h \in NewHosts
      BY <2>3, <2>4, <3>1
    <3>2. CASE g \notin NewHosts /\ h \notin NewHosts
      BY <2>1, <2>2, <2>4, <3>2 DEF ReadInv, NamesDoubledByOverlap
    <3> QED  BY <3>1, <3>2
  <2> QED  BY <2>4 DEF NamesDoubledByOverlap
<1> QED  BY <1>4, <1>5, <1>6, <1>7, <1>8 DEF ReadInv

LEMMA ReadKeeps == HostInv /\ ReadInv /\ [OverlapNext]_overlapVars => ReadInv'
<1> SUFFICES ASSUME HostInv, ReadInv, [OverlapNext]_overlapVars  PROVE ReadInv'
  OBVIOUS
<1>1. CASE DaemonStep /\ UNCHANGED <<overtaken, raced>>
  BY <1>1, DaemonReads
<1>2. CASE \E r \in Workers : OverlapCommit(r) \/ OverlapOther(r)
  BY <1>2, CommitReads, OtherReads
<1>3. CASE UNCHANGED overlapVars
  <2>1. UNCHANGED rowVars /\ UNCHANGED <<req, work, overtaken, raced, status>>
    BY <1>3 DEF overlapVars, vars, daemonVars, rowVars
  <2>2. \A q \in Workers : (Carried(q)' <=> Carried(q)) /\ (ReadStill(q)' <=> ReadStill(q)) /\ (Waiting(q)' <=> Waiting(q))
    BY <2>1, SameRead
  <2>3. Hanging' /\ NamesDoubledByOverlap'
    BY <2>1, SameRows DEF ReadInv
  <2>4. Working' /\ Overtakable'
    BY <2>1 DEF ReadInv, Working, Overtakable, Waiting, Pending
  <2> QED  BY <2>1, <2>2, <2>3, <2>4 DEF ReadInv
<1> QED  BY <1>1, <1>2, <1>3 DEF OverlapNext

LEMMA ReadsHold == OverlapSpec => [](HostInv /\ ReadInv)
<1>1. OverlapSpec => OverlapInit /\ [][OverlapNext]_overlapVars
  BY DEF OverlapSpec
<1> QED  BY <1>1, ReadInitially, ReadKeeps, HostsHold, PTL

(* Two hosts have one name only where a create was overtaken between its   *)
(* look-up and its insert: for any number of workers, hosts and names, and *)
(* whatever mutations the clients send.                                    *)
THEOREM NamesDoubleByOverlap == OverlapSpec => []NamesDoubledByOverlap
<1> QED  BY ReadsHold, PTL DEF ReadInv

(* A transaction writes over a pending row only where that is its target,  *)
(* or a row it writes along with it.                                       *)
LEMMA CommitSparesPending ==
  ASSUME TypeOK, HostsNumbered, NEW r \in Workers, CommitStep(r), Carried(r),
         NEW h \in Rows, Pending(h), status'[h] # status[h]
  PROVE  h = req[r].target \/ WritesAlong(r, h)
<1>1. ASSUME NEW S, NEW v, status' = Write(S, v)  PROVE h \in S
  BY <1>1 DEF Write
<1>2. ASSUME NEW S, Remove(S)  PROVE h \in S
  BY <1>2 DEF Remove
<1>3. ASSUME NEW g \in Hosts \ used, NEW p, NEW n, NEW v, NEW m, Insert(g, p, n, v, m)  PROVE FALSE
  <2>1. h = g
    BY <1>3 DEF Insert, TypeOK
  <2> QED  BY <1>3, <2>1 DEF HostsNumbered, Exists, Pending, PendingStatuses
<1>4. ~(DomainAliasCreateCommit(r) \/ SubdomainCreateCommit(r))
  BY <1>3 DEF DomainAliasCreateCommit, SubdomainCreateCommit, Hosts
<1>5. CASE \/ DomainAliasUpdateCommit(r) \/ DomainAliasApproveCommit(r) \/ SubdomainUpdateCommit(r)
           \/ SubdomainDeleteCommit(r)
  BY <1>1, <1>5 DEF DomainAliasUpdateCommit, DomainAliasApproveCommit, SubdomainUpdateCommit, SubdomainDeleteCommit
<1>6. CASE DomainAliasDeleteCommit(r)
  BY <1>1, <1>6 DEF DomainAliasDeleteCommit, Checked, WritesAlong
<1>7. CASE CancelOrderCommit(r) \/ DomainAliasRejectCommit(r)
  BY <1>2, <1>7 DEF CancelOrderCommit, DomainAliasRejectCommit, WithdrawOrder
<1>8. CASE DomainUpdateCommit(r)
  BY <1>1, <1>8 DEF DomainUpdateCommit, Checked, Carried, OfDomain
<1>9. CASE CustomerUpdateCommit(r)
  BY <1>9 DEF CustomerUpdateCommit, Checked, Write, Rescheduled, WritesAlong, Carried, OfDomain
<1>10. CASE CustomerSetStateCommit(r)
  BY <1>10 DEF CustomerSetStateCommit, Checked, WritesAlong
<1> QED  BY <1>4, <1>5, <1>6, <1>7, <1>8, <1>9, <1>10 DEF CommitStep

(* A mutation that was not overtaken writes over a verb the daemon has     *)
(* still to carry out only in the rows a suspension, an update of the      *)
(* customer or the deletion of an alias writes along, and never in its     *)
(* target - whatever mutations the clients send.                           *)
THEOREM PendingKeptFromWorkers == OverlapSpec => PendingWrittenByOverlap
<1>1. ASSUME HostInv, ReadInv, [OverlapNext]_overlapVars,
             NEW r \in Workers \ overtaken, NEW h \in Rows,
             req[r].phase = "checked", req'[r].phase # "checked", Pending(h), status'[h] # status[h]
      PROVE  h # req[r].target /\ WritesAlong(r, h)
  <2>1. ReadStill(r) /\ Carried(r)
    BY <1>1 DEF ReadInv, Waiting
  <2>2. ~Pending(req[r].target)
    BY <2>1 DEF ReadStill, Found, Pending, PendingStatuses
  <2>3. TypeOK /\ HostsNumbered
    BY <1>1 DEF HostInv, IInv, Numbered
  <2>4. ~DaemonStep /\ ~UNCHANGED overlapVars
    BY <1>1 DEF DaemonStep, DaemonWake, DaemonRead, DaemonDone, DaemonFails, overlapVars, vars
  <2>5. PICK w \in Workers : OverlapCommit(w) \/ OverlapOther(w)
    BY <1>1, <2>4 DEF OverlapNext
  <2>6. ~OverlapOther(w)
    <3>1. CheckStep(w) => UNCHANGED rowVars
      BY <2>3, CheckSteps DEF CheckEffect
    <3> QED  BY <1>1, <3>1 DEF OverlapOther, SendRequest, RollBack, LosePoke, rowVars
  <2>7. CommitStep(w) /\ w = r
    BY <1>1, <2>3, <2>5, <2>6, CommitSteps DEF OverlapCommit, CommitEffect
  <2> QED  BY <1>1, <2>1, <2>2, <2>3, <2>7, CommitSparesPending
<1>2. HostInv /\ ReadInv /\ [OverlapNext]_overlapVars =>
         [\A r \in Workers \ overtaken, h \in Rows :
             /\ req[r].phase = "checked"
             /\ req'[r].phase # "checked"
             /\ Pending(h)
             /\ status'[h] # status[h]
             => h # req[r].target /\ WritesAlong(r, h)]_overlapVars
  BY <1>1
<1>3. OverlapSpec => [][OverlapNext]_overlapVars
  BY DEF OverlapSpec
<1> QED  BY <1>2, <1>3, ReadsHold, PTL DEF PendingWrittenByOverlap

---------------------------------------------------------------------------
(* The tables of a host.  These promises are about inserts and deletes: a  *)
(* suspension or an update of the customer writes every host without       *)
(* having read it.                                                         *)

Offered(r) == req[r].op \in OverlapOperations \cup {"cancelOrder"}

(* The daemon is at work on what the row says. *)
Matching == \A h \in Hosts \ raced : work.row = h => work.verb = status[h]

(* The php_ini row is there while the host is going to be served, and      *)
(* nothing is left of one that is gone or going.                           *)
Tables(h) ==
    /\ h \in phpIni \cup mail => status[h] \notin {"absent", "todelete"}
    /\ status[h] \notin {"absent", "todelete", "error"} => h \in phpIni

(* A subdomain that is not on its way out has a parent that is not either. *)
Hung(s) ==
    status[s] \notin {"absent", "todelete", "error"} =>
        /\ status[parent[s]] \notin {"absent", "todelete", "ordered"}
        /\ work # [row |-> parent[s], verb |-> "todelete"]

TableInv ==
    /\ \A r \in Workers : Waiting(r) => Offered(r)
    /\ status[Dmn] = "ok"
    /\ Matching
    /\ \A h \in Hosts \ raced : Tables(h)
    /\ \A s \in Subs \ raced : Hung(s)

(* What waits for its transaction is what the clients send. *)
LEMMA ChecksOffer ==
  ASSUME TypeOK, InsertsAndDeletes, NEW r \in Workers, CheckStep(r)
  PROVE  Offered(r)'
<1> USE DEF Admit, TypeOK, Request, Idle, Offered, InsertsAndDeletes, OverlapOperations
<1>1. CASE DomainAliasCreateCheck(r)
  BY <1>1 DEF DomainAliasCreateCheck
<1>2. CASE DomainAliasUpdateCheck(r)
  BY <1>2 DEF DomainAliasUpdateCheck
<1>3. CASE DomainAliasDeleteCheck(r)
  <2>1. PICK op \in {"domainAliasDelete", "cancelOrder"}, a \in Aliases : Admit(r, Request(op, "customer", a))
    BY <1>3 DEF DomainAliasDeleteCheck
  <2> QED  BY <2>1
<1>4. CASE DomainAliasApproveCheck(r)
  BY <1>4 DEF DomainAliasApproveCheck
<1>5. CASE DomainAliasRejectCheck(r)
  BY <1>5 DEF DomainAliasRejectCheck
<1>6. CASE SubdomainCreateCheck(r)
  BY <1>6 DEF SubdomainCreateCheck
<1>7. CASE SubdomainUpdateCheck(r)
  BY <1>7 DEF SubdomainUpdateCheck
<1>8. CASE SubdomainDeleteCheck(r)
  BY <1>8 DEF SubdomainDeleteCheck
<1>9. CASE DomainUpdateCheck(r) \/ CustomerUpdateCheck(r) \/ CustomerSetStateCheck(r)
  BY <1>9 DEF DomainUpdateCheck, CustomerUpdateCheck, CustomerSetStateCheck
<1> QED  BY <1>1, <1>2, <1>3, <1>4, <1>5, <1>6, <1>7, <1>8, <1>9 DEF CheckStep

(* And then its transaction is one of these. *)
LEMMA OfferedCommits ==
  ASSUME NEW r \in Workers, CommitStep(r), Offered(r)
  PROVE  \/ DomainAliasCreateCommit(r) \/ DomainAliasDeleteCommit(r) \/ CancelOrderCommit(r)
         \/ DomainAliasApproveCommit(r) \/ DomainAliasRejectCommit(r) \/ SubdomainCreateCommit(r)
         \/ SubdomainUpdateCommit(r) \/ SubdomainDeleteCommit(r)
<1> QED
  BY DEF CommitStep, Offered, OverlapOperations, Checked, DomainAliasUpdateCommit, DomainUpdateCommit,
         CustomerUpdateCommit, CustomerSetStateCommit

(* An order that is withdrawn. *)
LEMMA Withdrawn ==
  ASSUME TypeOK, NEW r \in Workers, WithdrawOrder(r), req[r].target \in Aliases
  PROVE  /\ \A h \in Rows : status'[h] = IF h = req[r].target /\ status[h] = "ordered" THEN "absent" ELSE status[h]
         /\ \A s \in Subs : parent'[s] = parent[s]
         /\ phpIni' = phpIni \ {req[r].target} /\ mail' = mail
<1> QED  BY DistinctRows DEF WithdrawOrder, Remove, StillOrdered, TypeOK

(* A worker that nobody has overtaken leaves the tables of every host in   *)
(* order.                                                                  *)
LEMMA CommitTables ==
  ASSUME HostInv, ReadInv, NEW r \in Workers \ overtaken, CommitStep(r), Offered(r), Waiting(r),
         NEW h \in Hosts, Tables(h)
  PROVE  Tables(h)'
<1>0. TypeOK /\ HostsNumbered /\ OrdersHaveNoMail /\ h \in Rows /\ Carried(r) /\ ReadStill(r)
  BY DEF HostInv, IInv, Numbered, Rows, Hosts, ReadInv
<1> DEFINE t == req[r].target
<1>1. CASE DomainAliasCreateCommit(r)
  <2>1. PICK a \in Aliases \ used :
           Insert(a, None, req[r].name, NewAliasStatus(req[r].role), NewAliasMail(req[r].role))
    BY <1>1 DEF DomainAliasCreateCommit
  <2>2. NewAliasStatus(req[r].role) \in {"toadd", "ordered"}
    BY DEF NewAliasStatus
  <2> QED  BY <1>0, <2>1, <2>2 DEF Insert, Tables, TypeOK
<1>2. CASE DomainAliasDeleteCommit(r)
  BY <1>0, <1>2 DEF DomainAliasDeleteCommit, Write, Tables, Exists
<1>3. CASE CancelOrderCommit(r) \/ DomainAliasRejectCommit(r)
  <2>1. t \in Aliases /\ status[t] = "ordered" /\ WithdrawOrder(r)
    BY <1>0, <1>3 DEF Carried, ReadStill, Found, Decisions, CancelOrderCommit, DomainAliasRejectCommit, Checked
  <2> QED  BY <1>0, <2>1, Withdrawn DEF Tables, OrdersHaveNoMail
<1>4. CASE DomainAliasApproveCommit(r)
  <2>1. t \in Aliases /\ status[t] = "ordered"
    BY <1>0, <1>4 DEF Carried, ReadStill, Found, Decisions, DomainAliasApproveCommit, Checked
  <2> QED  BY <1>0, <1>4, <2>1 DEF DomainAliasApproveCommit, Write, Tables, Exists
<1>5. CASE SubdomainCreateCommit(r)
  <2>1. PICK s \in Subs \ used : Insert(s, req[r].parent, req[r].name, "toadd", Defaults)
    BY <1>5 DEF SubdomainCreateCommit
  <2> QED  BY <1>0, <2>1 DEF Insert, Tables, TypeOK
<1>6. CASE SubdomainUpdateCommit(r)
  <2>1. status[t] = "ok"
    BY <1>0, <1>6 DEF ReadStill, Found, Decisions, SubdomainUpdateCommit, Checked
  <2> QED  BY <1>0, <1>6, <2>1 DEF SubdomainUpdateCommit, Write, Tables, Exists
<1>7. CASE SubdomainDeleteCommit(r)
  BY <1>0, <1>7 DEF SubdomainDeleteCommit, Write, Tables, Exists
<1> QED  BY OfferedCommits, <1>1, <1>2, <1>3, <1>4, <1>5, <1>6, <1>7

(* Whatever a transaction does, overtaken or not, a subdomain that it has  *)
(* not changed, or changed as it had read it, keeps its parent.            *)
LEMMA CommitHung ==
  ASSUME HostInv, ReadInv, NEW r \in Workers, CommitStep(r), Offered(r), Waiting(r), UNCHANGED work,
         NEW s \in Subs, Hung(s), r \in overtaken => status'[s] = status[s], status[Dmn] = "ok"
  PROVE  Hung(s)'
<1>0. /\ TypeOK /\ HostsNumbered /\ Decided(req[r]) /\ s \in Rows /\ Carried(r) /\ (r \notin overtaken => ReadStill(r))
      /\ Hanging /\ Working /\ s \notin {Dmn} \cup Aliases
  BY DistinctRows DEF HostInv, IInv, Numbered, OrdersGuarded, Rows, ReadInv
<1> DEFINE t == req[r].target
<1> DEFINE p == parent[s]
<1>a. Exists(s) => p \in {Dmn} \cup Aliases /\ p \in Rows /\ p \in Known
  BY <1>0 DEF Hanging, Known, Rows
<1>1. CASE DomainAliasCreateCommit(r)
  <2>1. PICK a \in Aliases \ used :
           Insert(a, None, req[r].name, NewAliasStatus(req[r].role), NewAliasMail(req[r].role))
    BY <1>1 DEF DomainAliasCreateCommit
  <2>2. status'[s] = status[s] /\ parent'[s] = parent[s] /\ \A h \in Rows : h # a => status'[h] = status[h]
    BY <1>0, <2>1 DEF Insert, TypeOK
  <2>3. Exists(s) => p # a
    BY <1>a, <2>1, DistinctRows DEF Known
  <2> QED  BY <1>a, <2>2, <2>3 DEF Hung, Exists
<1>2. CASE DomainAliasDeleteCommit(r)
  <2> DEFINE gone == {t} \cup SubsOf(t)
  <2>1. status' = Write(gone, "todelete") /\ parent' = parent /\ t \in Aliases
    BY <1>0, <1>2 DEF DomainAliasDeleteCommit, Decided, Checked
  <2>2. CASE s \in gone
    BY <1>0, <2>1, <2>2 DEF Write, Hung, Exists
  <2>3. CASE s \notin gone
    <3>1. Exists(s) => p \notin gone
      BY <1>a, <2>3, DistinctRows DEF SubsOf
    <3> QED  BY <1>0, <1>a, <2>1, <2>3, <3>1 DEF Write, Hung, Exists
  <2> QED  BY <2>2, <2>3
<1>3. CASE CancelOrderCommit(r) \/ DomainAliasRejectCommit(r)
  <2>1. t \in Aliases /\ WithdrawOrder(r)
    BY <1>0, <1>3 DEF Carried, Decisions, CancelOrderCommit, DomainAliasRejectCommit, Checked
  <2> QED  BY <1>0, <1>a, <2>1, Withdrawn DEF Hung, Exists
<1>4. CASE DomainAliasApproveCommit(r)
  <2>1. t \in Aliases
    BY <1>0, <1>4 DEF Carried, Decisions, DomainAliasApproveCommit, Checked
  <2> QED  BY <1>0, <1>a, <1>4, <2>1 DEF DomainAliasApproveCommit, Write, Hung, Exists
<1>5. CASE SubdomainCreateCommit(r)
  <2>1. PICK n \in Subs \ used : Insert(n, req[r].parent, req[r].name, "toadd", Defaults)
    BY <1>5 DEF SubdomainCreateCommit
  <2>2. /\ \A h \in Rows : h # n => status'[h] = status[h]
        /\ status'[n] = "toadd" /\ status[n] = "absent" /\ parent'[n] = req[r].parent
        /\ \A q \in Subs : q # n => parent'[q] = parent[q]
    BY <1>0, <2>1 DEF Insert, TypeOK, HostsNumbered, Exists, Rows, Hosts
  <2>3. n \notin {Dmn} \cup Aliases
    BY DistinctRows
  <2>4. CASE s = n
    <3>1. r \notin overtaken
      BY <2>2, <2>4
    <3>2. req[r].parent = t /\ t \in Known /\ status[t] = "ok"
      BY <1>0, <1>5, <3>1 DEF SubdomainCreateCommit, Checked, Carried, ReadStill, Found, Decisions
    <3>3. t \in Rows /\ t # n /\ status'[t] = "ok"
      BY <2>2, <2>3, <3>2 DEF Known, Rows
    <3>4. work # [row |-> t, verb |-> "todelete"]
      <4>1. SUFFICES ASSUME work = [row |-> t, verb |-> "todelete"]  PROVE FALSE
        OBVIOUS
      <4>2. work.row = t /\ work # NoWork
        BY <3>3, <4>1, DistinctRows DEF NoWork, Rows
      <4> QED  BY <1>0, <3>2, <4>2 DEF Working, Pending, PendingStatuses
    <3> QED  BY <2>2, <2>4, <3>2, <3>3, <3>4 DEF Hung
  <2>5. CASE s # n
    BY <1>0, <1>a, <2>2, <2>3, <2>5 DEF Hung, Exists
  <2> QED  BY <2>4, <2>5
<1>6. CASE SubdomainUpdateCommit(r)
  <2>1. t \in Subs /\ status' = Write({t}, "tochange") /\ parent' = parent
    BY <1>0, <1>6 DEF SubdomainUpdateCommit, Decided, Checked
  <2>2. p \in {Dmn} \cup Aliases => p # t
    BY <2>1, DistinctRows
  <2>3. status'[s] \notin {"absent", "todelete", "error"} => status[s] \notin {"absent", "todelete", "error"}
    <3>1. CASE r \in overtaken
      BY <3>1
    <3>2. CASE r \notin overtaken
      <4>1. status[t] = "ok"
        BY <1>0, <1>6, <3>2 DEF ReadStill, Found, Decisions, SubdomainUpdateCommit, Checked
      <4> QED  BY <1>0, <2>1, <4>1 DEF Write
    <3> QED  BY <3>1, <3>2
  <2> QED  BY <1>0, <1>a, <2>1, <2>2, <2>3 DEF Write, Hung, Exists
<1>7. CASE SubdomainDeleteCommit(r)
  <2>1. t \in Subs /\ status' = Write({t}, "todelete") /\ parent' = parent
    BY <1>0, <1>7 DEF SubdomainDeleteCommit, Decided, Checked
  <2>2. p \in {Dmn} \cup Aliases => p # t
    BY <2>1, DistinctRows
  <2> QED  BY <1>0, <1>a, <2>1, <2>2 DEF Write, Hung, Exists
<1> QED  BY OfferedCommits, <1>1, <1>2, <1>3, <1>4, <1>5, <1>6, <1>7

LEMMA CommitSparesDomain ==
  ASSUME HostInv, ReadInv, NEW r \in Workers, CommitStep(r), Offered(r), Waiting(r)
  PROVE  status'[Dmn] = status[Dmn]
<1>0. TypeOK /\ Decided(req[r]) /\ Carried(r) /\ Dmn \in Rows /\ Dmn \notin Hosts
  BY DistinctRows DEF HostInv, IInv, OrdersGuarded, Rows, Hosts, ReadInv
<1>1. CASE DomainAliasCreateCommit(r) \/ SubdomainCreateCommit(r)
  <2>1. \E h \in Hosts : \E p, n, st, m : Insert(h, p, n, st, m)
    BY <1>1 DEF DomainAliasCreateCommit, SubdomainCreateCommit, Hosts
  <2> QED  BY <1>0, <2>1 DEF Insert, TypeOK
<1>2. CASE CancelOrderCommit(r) \/ DomainAliasRejectCommit(r)
  <2>1. req[r].target \in Aliases /\ WithdrawOrder(r)
    BY <1>0, <1>2 DEF Carried, Decisions, CancelOrderCommit, DomainAliasRejectCommit, Checked
  <2> QED  BY <1>0, <2>1, Withdrawn DEF Hosts
<1>3. CASE DomainAliasDeleteCommit(r) \/ DomainAliasApproveCommit(r)
           \/ SubdomainUpdateCommit(r) \/ SubdomainDeleteCommit(r)
  <2>1. req[r].target \in Hosts
    BY <1>0, <1>3 DEF Decided, Carried, Decisions, Hosts, Checked, DomainAliasDeleteCommit,
                      DomainAliasApproveCommit, SubdomainUpdateCommit, SubdomainDeleteCommit
  <2>2. \E S \in SUBSET Hosts : \E v : status' = Write(S, v)
    BY <1>3, <2>1 DEF DomainAliasDeleteCommit, DomainAliasApproveCommit, SubdomainUpdateCommit,
                      SubdomainDeleteCommit, SubsOf, Hosts
  <2> QED  BY <1>0, <2>2 DEF Write
<1> QED  BY OfferedCommits, <1>1, <1>2, <1>3

LEMMA TablesInitially == OverlapInit => TableInv
<1> SUFFICES ASSUME OverlapInit  PROVE TableInv
  OBVIOUS
<1>1. /\ \A r \in Workers : ~Waiting(r)
      /\ status[Dmn] = "ok" /\ work.row = None /\ phpIni = {} /\ mail = {}
      /\ \A h \in Hosts : status[h] = "absent" /\ h # None
  BY DistinctRows DEF OverlapInit, Init, Waiting, Idle, NoWork, Hosts, Rows
<1> QED  BY <1>1 DEF TableInv, Matching, Tables, Hung, Hosts

LEMMA CommitKeepsTables ==
  ASSUME HostInv, ReadInv, TableInv, NEW r \in Workers, OverlapCommit(r)
  PROVE  TableInv'
<1>1. /\ CommitStep(r) /\ CommitEffect(r) /\ Waiting(r) /\ Offered(r) /\ work' = work /\ TypeOK
      /\ raced' = raced \cup {h \in Hosts : WritesHost(h) /\ (r \in overtaken \/ work.row = h)}
  <2>1. CommitStep(r) /\ CommitEffect(r) /\ TypeOK
    BY CommitSteps DEF OverlapCommit, HostInv, IInv
  <2>2. Waiting(r) /\ work' = work
    BY <2>1 DEF CommitEffect, Waiting, daemonVars
  <2> QED  BY <2>1, <2>2 DEF OverlapCommit, TableInv
<1>2. ASSUME NEW h \in Hosts \ raced'
      PROVE  h \in Hosts \ raced /\ (WritesHost(h) => r \notin overtaken /\ work.row # h)
  BY <1>1, <1>2
<1>3. Matching'
  BY <1>1, <1>2 DEF Matching, TableInv, WritesHost
<1>4. ASSUME NEW h \in Hosts \ raced'  PROVE Tables(h)'
  <2>1. Tables(h)
    BY <1>2, <1>4 DEF TableInv
  <2>2. CASE r \in overtaken
    BY <1>2, <1>4, <2>1, <2>2 DEF Tables, WritesHost
  <2>3. CASE r \notin overtaken
    BY <1>1, <2>1, <2>3, CommitTables
  <2> QED  BY <2>2, <2>3
<1>5. ASSUME NEW s \in Subs \ raced'  PROVE Hung(s)'
  <2>1. s \in Hosts \ raced'
    BY DEF Hosts
  <2>2. Hung(s) /\ (r \in overtaken => status'[s] = status[s]) /\ status[Dmn] = "ok"
    BY <1>2, <2>1 DEF TableInv, WritesHost
  <2> QED  BY <1>1, <2>2, CommitHung
<1>6. status'[Dmn] = "ok"
  BY <1>1, CommitSparesDomain DEF TableInv
<1>7. ASSUME NEW q \in Workers, Waiting(q)'  PROVE Offered(q)'
  <2>1. q # r
    BY <1>1, <1>7 DEF CommitEffect, Waiting, Idle, TypeOK, Requests
  <2> QED  BY <1>1, <1>7, <2>1 DEF CommitEffect, Waiting, TableInv, Offered
<1> QED  BY <1>3, <1>4, <1>5, <1>6, <1>7 DEF TableInv

LEMMA OtherKeepsTables ==
  ASSUME HostInv, ReadInv, TableInv, InsertsAndDeletes, NEW r \in Workers, OverlapOther(r)
  PROVE  TableInv'
<1>0. TypeOK
  BY DEF HostInv, IInv
<1>1. UNCHANGED <<rowVars, work>> /\ UNCHANGED raced
  BY CheckSteps, <1>0 DEF OverlapOther, CheckEffect, SendRequest, RollBack, LosePoke, daemonVars
<1>2. \A q \in Workers : q # r => req'[q] = req[q]
  BY CheckSteps, <1>0 DEF OverlapOther, CheckEffect, SendRequest, RollBack, LosePoke, TypeOK
<1>3. Waiting(r)' => Offered(r)'
  <2>1. CASE CheckStep(r)
    BY <1>0, <2>1, ChecksOffer
  <2>2. CASE SendRequest(r) \/ RollBack(r) \/ LosePoke(r)
    <3>1. req'[r] = Idle
      BY <2>2, <1>0 DEF SendRequest, RollBack, LosePoke, TypeOK
    <3> QED  BY <3>1 DEF Waiting, Idle
  <2> QED  BY <2>1, <2>2 DEF OverlapOther
<1>4. \A q \in Workers : Waiting(q)' => Offered(q)'
  BY <1>2, <1>3 DEF TableInv, Waiting, Offered
<1>5. UNCHANGED <<status, parent, phpIni, mail, work, raced>>
  BY <1>1 DEF rowVars
<1> QED  BY <1>4, <1>5 DEF TableInv, Matching, Tables, Hung

(* The daemon finishes what the row says, and takes nothing out that still *)
(* has tables or a subdomain.                                              *)
LEMMA DaemonKeepsTables ==
  ASSUME HostInv, ReadInv, TableInv, DaemonStep, UNCHANGED <<overtaken, raced>>
  PROVE  TableInv'
<1>0. TypeOK /\ Working /\ Hanging /\ status[Dmn] = "ok" /\ Dmn \in Rows /\ Dmn \notin Hosts
  BY DistinctRows DEF HostInv, IInv, ReadInv, TableInv, Rows, Hosts
<1>1. UNCHANGED <<req, phpIni, mail>>
  BY DEF DaemonStep, DaemonWake, DaemonRead, DaemonDone, DaemonFails, rowVars
<1>2. status'[Dmn] = "ok"
  BY <1>0, DaemonContinues DEF Pending, PendingStatuses
<1>3. \A q \in Workers : Waiting(q)' => Offered(q)'
  BY <1>1 DEF TableInv, Waiting, Offered
<1>4. CASE DaemonWake
  <2>1. UNCHANGED <<status, parent, phpIni, mail, work, raced>>
    BY <1>4 DEF DaemonWake, rowVars
  <2> QED  BY <1>3, <2>1 DEF TableInv, Matching, Tables, Hung
<1>5. CASE \E h \in Rows : DaemonRead(h)
  <2>1. PICK h \in Rows : DaemonRead(h)
    BY <1>5
  <2>2. /\ UNCHANGED <<status, parent, phpIni, mail, raced>>
        /\ work' = NoWork \/ work' = [row |-> h, verb |-> status[h]]
    BY <2>1 DEF DaemonRead, rowVars
  <2>3. Matching'
    BY <2>2, DistinctRows DEF Matching, NoWork, Hosts
  <2>4. ASSUME NEW s \in Subs \ raced  PROVE Hung(s)'
    <3>1. Hung(s)
      BY DEF TableInv
    <3>2. ASSUME work' = [row |-> parent[s], verb |-> "todelete"], Exists(s)  PROVE status[parent[s]] = "todelete"
      <4>1. work'.row = parent[s] /\ work'.verb = "todelete"
        BY <3>2
      <4> QED  BY <2>2, <4>1 DEF NoWork
    <3> QED  BY <2>2, <3>1, <3>2 DEF Hung, Exists
  <2> QED  BY <1>2, <1>3, <2>2, <2>3, <2>4 DEF TableInv, Tables
<1>6. CASE DaemonDone \/ DaemonFails
  <2> DEFINE w == work.row
  <2>1. /\ w \in Rows /\ status[w] \in PendingStatuses /\ work' = NoWork /\ work = [row |-> w, verb |-> work.verb]
        /\ w \notin raced /\ w \in Hosts => work.verb = status[w]
        /\ \A s \in Subs : s # w => parent'[s] = parent[s]
    <3>1. work # NoWork /\ work' = NoWork /\ \A s \in Subs : s # w => parent'[s] = parent[s]
      BY <1>6 DEF DaemonDone, DaemonFails, Remove
    <3> QED  BY <1>0, <3>1 DEF Working, Pending, TableInv, Matching, TypeOK
  <2>2. \A h \in Rows : h # w => status'[h] = status[h]
    BY <1>6 DEF DaemonDone, DaemonFails, Remove, Write
  <2>3. \/ status'[w] = "error"
        \/ work.verb = "todelete" /\ status'[w] = "absent"
        \/ work.verb # "todelete" /\ status'[w] \in {"ok", "disabled"} /\ \A s \in Subs : parent'[s] = parent[s]
    BY <1>6, <2>1 DEF DaemonDone, DaemonFails, Remove, Write, Exists, Outcome, PendingStatuses
  <2>4. Matching'
    BY <2>1, DistinctRows DEF Matching, NoWork, Hosts
  <2>5. ASSUME NEW h \in Hosts \ raced  PROVE Tables(h)'
    <3>1. Tables(h) /\ h \in Rows
      BY DEF TableInv, Rows, Hosts
    <3>2. CASE h # w
      BY <1>1, <2>2, <3>1, <3>2 DEF Tables
    <3>3. CASE h = w
      BY <1>1, <2>1, <2>3, <3>1, <3>3 DEF Tables, PendingStatuses
    <3> QED  BY <3>2, <3>3
  <2>6. ASSUME NEW s \in Subs \ raced  PROVE Hung(s)'
    <3>1. Hung(s) /\ s \in Rows /\ s \in Hosts
      BY DEF TableInv, Rows, Hosts
    <3>2. Exists(s) => parent[s] \in Rows /\ parent[s] # s /\ parent[s] # None
      BY <1>0, DistinctRows DEF Hanging, Known, Rows
    <3>3. NoWork.row = None
      BY DEF NoWork
    <3>4. CASE s = w
      <4>1. SUFFICES ASSUME status'[s] \notin {"absent", "todelete", "error"}
                     PROVE  Hung(s)'
        BY DEF Hung
      <4>2. work.verb # "todelete" /\ parent'[s] = parent[s] /\ work.verb = status[s]
        BY <2>1, <2>3, <3>1, <3>4, <4>1
      <4>3. status[s] \notin {"absent", "todelete", "error"} /\ Exists(s)
        BY <2>1, <3>4, <4>2 DEF PendingStatuses, Exists
      <4>4. status'[parent[s]] = status[parent[s]]
        BY <2>2, <3>2, <3>4, <4>3
      <4>5. NoWork # [row |-> parent[s], verb |-> "todelete"]
        BY <3>2, <3>3, <4>3
      <4> QED  BY <2>1, <3>1, <4>2, <4>3, <4>4, <4>5 DEF Hung
    <3>5. CASE s # w
      <4>1. SUFFICES ASSUME status[s] \notin {"absent", "todelete", "error"}
                     PROVE  Hung(s)'
        BY <2>2, <3>1, <3>5 DEF Hung
      <4>2. Exists(s) /\ parent'[s] = parent[s] /\ status'[s] = status[s]
        BY <2>1, <2>2, <3>1, <3>5, <4>1 DEF Exists
      <4>3. status'[parent[s]] \notin {"absent", "todelete", "ordered"}
        <5>1. CASE parent[s] = w
          BY <2>1, <2>3, <3>1, <4>1, <5>1 DEF Hung
        <5>2. CASE parent[s] # w
          BY <2>2, <3>1, <3>2, <4>1, <4>2, <5>2 DEF Hung
        <5> QED  BY <5>1, <5>2
      <4>4. NoWork # [row |-> parent[s], verb |-> "todelete"]
        BY <3>2, <3>3, <4>2
      <4> QED  BY <2>1, <4>2, <4>3, <4>4 DEF Hung
    <3> QED  BY <3>4, <3>5
  <2> QED  BY <1>2, <1>3, <2>4, <2>5, <2>6 DEF TableInv
<1> QED  BY <1>4, <1>5, <1>6 DEF DaemonStep

LEMMA TablesKeep ==
  ASSUME InsertsAndDeletes
  PROVE  HostInv /\ ReadInv /\ TableInv /\ [OverlapNext]_overlapVars => TableInv'
<1> SUFFICES ASSUME HostInv, ReadInv, TableInv, [OverlapNext]_overlapVars  PROVE TableInv'
  OBVIOUS
<1>1. CASE DaemonStep /\ UNCHANGED <<overtaken, raced>>
  BY <1>1, DaemonKeepsTables
<1>2. CASE \E r \in Workers : OverlapCommit(r) \/ OverlapOther(r)
  BY <1>2, CommitKeepsTables, OtherKeepsTables
<1>3. CASE UNCHANGED overlapVars
  BY <1>3 DEF overlapVars, vars, rowVars, daemonVars, TableInv, Waiting, Offered, Matching, Tables, Hung
<1> QED  BY <1>1, <1>2, <1>3 DEF OverlapNext

LEMMA TablesHold ==
  ASSUME InsertsAndDeletes
  PROVE  OverlapSpec => [](HostInv /\ ReadInv /\ TableInv)
<1>1. OverlapSpec => OverlapInit /\ [][OverlapNext]_overlapVars
  BY DEF OverlapSpec
<1>2. HostInv /\ ReadInv /\ TableInv /\ [OverlapNext]_overlapVars => TableInv'
  BY TablesKeep
<1> QED  BY <1>1, <1>2, TablesInitially, ReadsHold, PTL

(* The php_ini row and the mail accounts of a host go with it, a host that *)
(* will be served has its php_ini row, and a subdomain does not outlive    *)
(* its alias, unless an overtaken transaction wrote it: for any number of  *)
(* workers and hosts that are created, decided on, changed and deleted.    *)
THEOREM HostTablesPartByOverlap ==
  ASSUME InsertsAndDeletes
  PROVE  OverlapSpec => []HostTablesByOverlap
<1>1. TableInv => HostTablesByOverlap
  <2> SUFFICES ASSUME TableInv  PROVE HostTablesByOverlap
    OBVIOUS
  <2>1. \A h \in Hosts \ raced : PartsFollowHost(h)
    BY DEF TableInv, Tables, PartsFollowHost, Served, Exists
  <2>2. \A s \in Subs \ raced : KeepsParent(s)
    BY DEF TableInv, Hung, KeepsParent, Exists
  <2> QED  BY <2>1, <2>2 DEF HostTablesByOverlap, Untouched
<1> QED  BY <1>1, TablesHold, PTL

---------------------------------------------------------------------------
(* The limit of aliases. *)

Counted == {a \in Aliases : status[a] \notin {"absent", "ordered", "todelete"}}

(* What is excused: an alias an overtaken worker wrote, or one whose       *)
(* deletion failed and which counts again.                                 *)
Excess == raced \cap Aliases # {} \/ \E a \in Aliases : status[a] = "error"

(* Who is about to insert an alias has found room for it. *)
Roomy(r) == Waiting(r) /\ req[r].op = "domainAliasCreate" => HasRoom(AliasLimit, AliasCount) \/ Excess

RoomInv == IsFiniteSet(used) /\ \A r \in Workers \ overtaken : Roomy(r)

LEMMA Counting ==
  ASSUME HostInv, IsFiniteSet(used)
  PROVE  /\ IsFiniteSet(Counted) /\ AliasCount = Cardinality(Counted) /\ AliasCount \in Nat
<1>1. Counted \subseteq used
  BY DEF HostInv, IInv, Numbered, HostsNumbered, Counted, Exists, Hosts
<1>2. IsFiniteSet(Counted)
  BY <1>1, FS_Subset
<1>3. AliasCount = Cardinality(Counted)
  BY DEF AliasCount, Counted
<1> QED  BY <1>2, <1>3, FS_CardinalityType

LEMMA CountsLess ==
  ASSUME HostInv, IsFiniteSet(used), Counted' \subseteq Counted
  PROVE  AliasCount' <= AliasCount /\ AliasCount' \in Nat /\ AliasCount \in Nat
<1>1. IsFiniteSet(Counted') /\ Cardinality(Counted') <= Cardinality(Counted)
  BY Counting, FS_Subset
<1>2. AliasCount' = Cardinality(Counted')
  BY DEF AliasCount, Counted
<1> QED  BY <1>1, <1>2, Counting, FS_CardinalityType

(* Only the daemon's failure, or its work on an alias that was overtaken,  *)
(* makes it count more.                                                    *)
LEMMA DaemonCounts ==
  ASSUME HostInv, ReadInv, TableInv, DaemonStep
  PROVE  Counted' \subseteq Counted \/ raced \cap Aliases # {} \/ \E a \in Aliases : status'[a] = "error"
<1>1. CASE DaemonWake \/ \E h \in Rows : DaemonRead(h)
  BY <1>1 DEF DaemonWake, DaemonRead, rowVars, Counted
<1>2. CASE DaemonDone \/ DaemonFails
  <2> DEFINE w == work.row
  <2>1. w \in Rows /\ status[w] \in PendingStatuses /\ \A h \in Rows : h # w => status'[h] = status[h]
    BY <1>2 DEF ReadInv, Working, Pending, DaemonDone, DaemonFails, Remove, Write
  <2>2. CASE w \in Aliases \ raced
    <3>1. work.verb = status[w]
      BY <2>2 DEF TableInv, Matching, Hosts
    <3>2. \/ status'[w] = "error" \/ status'[w] = "absent" \/ work.verb # "todelete"
      BY <1>2, <2>1 DEF DaemonDone, DaemonFails, Remove, Write, Exists, PendingStatuses
    <3>3. status'[w] # "error" => Counted' \subseteq Counted
      BY <2>1, <3>1, <3>2 DEF Counted, PendingStatuses, Rows
    <3> QED  BY <2>2, <3>3
  <2>3. CASE w \notin Aliases
    BY <2>1, <2>3 DEF Counted, Rows
  <2> QED  BY <2>2, <2>3
<1> QED  BY <1>1, <1>2 DEF DaemonStep

LEMMA RoomInitially == OverlapInit => RoomInv
<1> QED  BY FS_EmptySet DEF OverlapInit, Init, RoomInv, Roomy, Waiting, Idle

(* A check that goes on to an insert has found room. *)
LEMMA ChecksFindRoom ==
  ASSUME TypeOK, NEW r \in Workers, CheckStep(r)
  PROVE  req'[r].op = "domainAliasCreate" => HasRoom(AliasLimit, AliasCount)
<1> USE DEF Admit, TypeOK, Request, Idle
<1>1. CASE DomainAliasCreateCheck(r)
  BY <1>1 DEF DomainAliasCreateCheck
<1>2. CASE DomainAliasUpdateCheck(r)
  BY <1>2 DEF DomainAliasUpdateCheck
<1>3. CASE DomainAliasDeleteCheck(r)
  <2>1. PICK op \in {"domainAliasDelete", "cancelOrder"}, a \in Aliases : Admit(r, Request(op, "customer", a))
    BY <1>3 DEF DomainAliasDeleteCheck
  <2> QED  BY <2>1
<1>4. CASE DomainAliasApproveCheck(r)
  BY <1>4 DEF DomainAliasApproveCheck
<1>5. CASE DomainAliasRejectCheck(r)
  BY <1>5 DEF DomainAliasRejectCheck
<1>6. CASE SubdomainCreateCheck(r)
  BY <1>6 DEF SubdomainCreateCheck
<1>7. CASE SubdomainUpdateCheck(r)
  BY <1>7 DEF SubdomainUpdateCheck
<1>8. CASE SubdomainDeleteCheck(r)
  BY <1>8 DEF SubdomainDeleteCheck
<1>9. CASE DomainUpdateCheck(r)
  BY <1>9 DEF DomainUpdateCheck
<1>10. CASE CustomerUpdateCheck(r)
  BY <1>10 DEF CustomerUpdateCheck
<1>11. CASE CustomerSetStateCheck(r)
  <2>1. PICK op \in {"suspend", "enable"} : Admit(r, Request(op, "reseller", Dmn))
    BY <1>11 DEF CustomerSetStateCheck
  <2> QED  BY <2>1
<1> QED
  BY <1>1, <1>2, <1>3, <1>4, <1>5, <1>6, <1>7, <1>8, <1>9, <1>10, <1>11 DEF CheckStep

(* An id at most is handed out at a time. *)
LEMMA UsedFinite ==
  ASSUME HostInv, ReadInv, [OverlapNext]_overlapVars, IsFiniteSet(used)
  PROVE  IsFiniteSet(used')
<1>0. TypeOK /\ HostsNumbered /\ Working
  BY DEF HostInv, IInv, Numbered, ReadInv
<1>1. NewHosts = {} \/ \E h : NewHosts = {h}
  <2>1. ASSUME NEW r \in Workers, OverlapCommit(r)  PROVE NewHosts = {} \/ \E h : NewHosts = {h}
    <3>1. CommitStep(r) /\ Carried(r)
      BY <1>0, <2>1, CommitSteps DEF OverlapCommit, CommitEffect, ReadInv, Waiting
    <3>2. Named(r)
      BY <1>0, <3>1, CommitContinues DEF Carried
    <3> QED  BY <3>2 DEF Named
  <2>2. ASSUME NEW r \in Workers, OverlapOther(r)  PROVE NewHosts = {}
    BY <1>0, <2>2, CheckSteps DEF OverlapOther, CheckEffect, SendRequest, RollBack, LosePoke, rowVars, NewHosts
  <2>3. CASE DaemonStep
    BY <1>0, <2>3, DaemonContinues
  <2>4. CASE UNCHANGED overlapVars
    BY <2>4 DEF overlapVars, vars, rowVars, NewHosts
  <2> QED  BY <2>1, <2>2, <2>3, <2>4 DEF OverlapNext
<1>2. IsFiniteSet(used \cup NewHosts)
  BY <1>1, FS_AddElement
<1>3. used' \subseteq used \cup NewHosts
  BY DEF NewHosts
<1> QED  BY <1>2, <1>3, FS_Subset

LEMMA RoomKeeps ==
  ASSUME HostInv, ReadInv, TableInv, RoomInv, [OverlapNext]_overlapVars
  PROVE  RoomInv'
<1>0. TypeOK /\ HostsNumbered /\ Working /\ IsFiniteSet(used) /\ AliasLimit \in Nat
  BY Limits DEF HostInv, IInv, Numbered, ReadInv, RoomInv
<1>a. ASSUME NEW q \in Workers, UNCHANGED <<status, raced>>, req'[q] = req[q], Roomy(q)  PROVE Roomy(q)'
  BY <1>a DEF Roomy, Waiting, HasRoom, AliasCount, Excess
<1>1. ASSUME NEW r \in Workers, OverlapCommit(r), NEW q \in Workers \ overtaken'
      PROVE  Roomy(q)'
  <2>1. /\ CommitEffect(r) /\ overtaken' = (overtaken \cup {w \in Workers : Waiting(w)}) \ {r}
    BY <1>0, <1>1, CommitSteps DEF OverlapCommit, Waiting
  <2>2. CASE q = r
    BY <2>1, <2>2 DEF CommitEffect, Idle, Roomy, Waiting, Requests, TypeOK
  <2>3. CASE q # r
    BY <2>1, <2>3, <1>1 DEF CommitEffect, Roomy, Waiting
  <2> QED  BY <2>2, <2>3
<1>2. ASSUME NEW r \in Workers, OverlapOther(r), NEW q \in Workers \ overtaken'
      PROVE  Roomy(q)'
  <2>1. UNCHANGED <<status, raced>> /\ overtaken \subseteq overtaken' \cup {r}
    BY CheckSteps, <1>0, <1>2 DEF OverlapOther, CheckEffect, SendRequest, RollBack, LosePoke, rowVars
  <2>2. CASE q # r
    <3>1. req'[q] = req[q]
      BY CheckSteps, <1>0, <1>2, <2>2 DEF OverlapOther, CheckEffect, SendRequest, RollBack, LosePoke, TypeOK
    <3> QED  BY <1>a, <1>2, <2>1, <2>2, <3>1 DEF RoomInv
  <2>3. CASE q = r /\ CheckStep(r)
    <3>1. req'[r].op = "domainAliasCreate" => HasRoom(AliasLimit, AliasCount)
      BY <1>0, <2>3, ChecksFindRoom
    <3> QED  BY <2>1, <2>3, <3>1 DEF Roomy, HasRoom, AliasCount
  <2>4. CASE q = r /\ (SendRequest(r) \/ RollBack(r) \/ LosePoke(r))
    <3>1. req'[r] = Idle
      BY <2>4, <1>0 DEF SendRequest, RollBack, LosePoke, TypeOK
    <3> QED  BY <2>4, <3>1 DEF Roomy, Waiting, Idle
  <2> QED  BY <1>2, <2>2, <2>3, <2>4 DEF OverlapOther
<1>3. ASSUME DaemonStep, UNCHANGED <<overtaken, raced>>, NEW q \in Workers \ overtaken'
      PROVE  Roomy(q)'
  <2>1. Roomy(q) /\ req' = req
    BY <1>0, <1>3, DaemonContinues DEF RoomInv
  <2>2. \A a \in Aliases : status[a] = "error" => status'[a] = "error"
    BY <1>0, <1>3, DaemonContinues DEF Pending, PendingStatuses, Rows
  <2>3. Excess => Excess'
    BY <1>3, <2>2 DEF Excess
  <2>4. Counted' \subseteq Counted \/ Excess'
    BY <1>3, DaemonCounts DEF Excess
  <2>5. Counted' \subseteq Counted => (HasRoom(AliasLimit, AliasCount) => HasRoom(AliasLimit, AliasCount)')
    BY <1>0, CountsLess DEF HasRoom
  <2> QED  BY <2>1, <2>3, <2>4, <2>5 DEF Roomy, Waiting
<1>4. ASSUME UNCHANGED overlapVars, NEW q \in Workers \ overtaken'
      PROVE  Roomy(q)'
  BY <1>a, <1>4 DEF overlapVars, vars, rowVars, RoomInv
<1> QED  BY <1>0, <1>1, <1>2, <1>3, <1>4, UsedFinite DEF OverlapNext, RoomInv

LEMMA RoomHolds ==
  ASSUME InsertsAndDeletes
  PROVE  OverlapSpec => [](HostInv /\ ReadInv /\ TableInv /\ RoomInv)
<1>1. OverlapSpec => OverlapInit /\ [][OverlapNext]_overlapVars
  BY DEF OverlapSpec
<1>2. HostInv /\ ReadInv /\ TableInv /\ RoomInv /\ [OverlapNext]_overlapVars => RoomInv'
  BY RoomKeeps
<1> QED  BY <1>1, <1>2, RoomInitially, TablesHold, PTL

(* What the property excuses. *)
Excused == \/ Excess'
           \/ \E r \in Workers, a \in Aliases : Approves(r, a)

(* An insert that found room leaves no more than the limit. *)
LEMMA InsertCounts ==
  ASSUME HostInv, ReadInv, RoomInv, NEW r \in Workers, OverlapCommit(r), DomainAliasCreateCommit(r),
         AliasLimit # 0, AliasCount' > AliasLimit
  PROVE  Excused
<1>0. TypeOK /\ HostsNumbered /\ IsFiniteSet(used) /\ AliasLimit \in Nat
  BY Limits DEF HostInv, IInv, Numbered, RoomInv
<1>1. PICK a \in Aliases \ used :
         Insert(a, None, req[r].name, NewAliasStatus(req[r].role), NewAliasMail(req[r].role))
  BY DEF DomainAliasCreateCommit
<1>2. /\ status[a] = "absent" /\ status'[a] \in {"toadd", "ordered"} /\ a \in Hosts
      /\ \A b \in Aliases : b # a => status'[b] = status[b]
  BY <1>0, <1>1 DEF Insert, NewAliasStatus, TypeOK, HostsNumbered, Exists, Rows, Hosts
<1>3. CASE r \in overtaken
  <2>1. a \in raced'
    BY <1>2, <1>3 DEF OverlapCommit, WritesHost
  <2> QED  BY <2>1 DEF Excused, Excess
<1>4. CASE r \notin overtaken
  <2>1. HasRoom(AliasLimit, AliasCount) \/ Excess
    BY <1>4 DEF RoomInv, Roomy, Waiting, DomainAliasCreateCommit, Checked
  <2>2. CASE Excess
    <3>1. raced \subseteq raced'
      BY DEF OverlapCommit
    <3>2. \A b \in Aliases : status[b] = "error" => status'[b] = "error"
      BY <1>2
    <3> QED  BY <2>2, <3>1, <3>2 DEF Excused, Excess
  <2>3. CASE HasRoom(AliasLimit, AliasCount)
    <3>1. Counted' \subseteq Counted \cup {a} /\ a \notin Counted
      BY <1>2 DEF Counted
    <3>2. IsFiniteSet(Counted) /\ AliasCount = Cardinality(Counted) /\ AliasCount \in Nat
      BY <1>0, Counting
    <3>3. IsFiniteSet(Counted \cup {a}) /\ Cardinality(Counted \cup {a}) = AliasCount + 1
      BY <3>1, <3>2, FS_AddElement
    <3>4. IsFiniteSet(Counted') /\ Cardinality(Counted') <= AliasCount + 1
      BY <3>1, <3>3, FS_Subset
    <3>5. AliasCount' = Cardinality(Counted') /\ Cardinality(Counted') \in Nat
      BY <3>4, FS_CardinalityType DEF AliasCount, Counted
    <3>6. AliasCount < AliasLimit
      BY <2>3 DEF HasRoom
    <3> QED  BY <1>0, <3>2, <3>4, <3>5, <3>6
  <2> QED  BY <2>1, <2>2, <2>3
<1> QED  BY <1>3, <1>4

LEMMA CommitCounts ==
  ASSUME HostInv, ReadInv, TableInv, RoomInv, NEW r \in Workers, OverlapCommit(r),
         AliasLimit # 0, AliasCount' > AliasCount, AliasCount' > AliasLimit
  PROVE  Excused
<1>0. /\ TypeOK /\ HostsNumbered /\ Decided(req[r]) /\ IsFiniteSet(used)
      /\ CommitStep(r) /\ CommitEffect(r) /\ Waiting(r) /\ Carried(r) /\ Offered(r)
  <2>1. TypeOK /\ HostsNumbered /\ Decided(req[r]) /\ IsFiniteSet(used) /\ CommitStep(r)
    BY DEF HostInv, IInv, Numbered, OrdersGuarded, RoomInv, OverlapCommit
  <2>2. CommitEffect(r) /\ Waiting(r)
    BY <2>1, CommitSteps DEF CommitEffect, Waiting
  <2> QED  BY <2>1, <2>2 DEF ReadInv, TableInv
<1>1. ~(Counted' \subseteq Counted)
  BY <1>0, CountsLess
<1>2. CASE DomainAliasCreateCommit(r)
  BY <1>2, InsertCounts
<1>3. CASE DomainAliasApproveCommit(r)
  <2>1. req[r].target \in Aliases /\ req[r].role = "reseller" /\ Checked(r, "domainAliasApprove")
    BY <1>0, <1>3 DEF Carried, Decisions, Decided, DomainAliasApproveCommit, Checked
  <2>2. req'[r] # req[r]
    BY <1>0 DEF CommitEffect, Idle, Waiting, TypeOK, Requests
  <2> QED  BY <2>1, <2>2 DEF Excused, Approves
<1>4. CASE CancelOrderCommit(r) \/ DomainAliasRejectCommit(r)
  <2>1. req[r].target \in Aliases /\ WithdrawOrder(r)
    BY <1>0, <1>4 DEF Carried, Decisions, CancelOrderCommit, DomainAliasRejectCommit, Checked
  <2> QED  BY <1>0, <1>1, <2>1, Withdrawn DEF Counted, Rows
<1>5. CASE DomainAliasDeleteCommit(r)
  BY <1>1, <1>5 DEF DomainAliasDeleteCommit, Write, Counted, Rows
<1>6. CASE SubdomainCreateCommit(r)
  <2>1. PICK s \in Subs \ used : Insert(s, req[r].parent, req[r].name, "toadd", Defaults)
    BY <1>6 DEF SubdomainCreateCommit
  <2> QED  BY <1>0, <1>1, <2>1, DistinctRows DEF Insert, Counted, TypeOK
<1>7. CASE SubdomainUpdateCommit(r) \/ SubdomainDeleteCommit(r)
  <2>1. req[r].target \in Subs
    BY <1>0, <1>7 DEF Decided, SubdomainUpdateCommit, SubdomainDeleteCommit, Checked
  <2> QED  BY <1>1, <1>7, <2>1, DistinctRows DEF SubdomainUpdateCommit, SubdomainDeleteCommit, Write, Counted, Rows
<1> QED  BY <1>0, OfferedCommits, <1>2, <1>3, <1>4, <1>5, <1>6, <1>7

(* A customer gets past the limit of aliases only by an approval, which    *)
(* nothing measures, by a deletion that fails, or where an overtaken       *)
(* worker has written an alias: for any number of workers, aliases and     *)
(* limits.                                                                 *)
THEOREM LimitsPassedByOverlap ==
  ASSUME InsertsAndDeletes
  PROVE  OverlapSpec => LimitPassedByOverlap
<1>1. ASSUME HostInv, ReadInv, TableInv, RoomInv, [OverlapNext]_overlapVars,
             AliasLimit # 0, AliasCount' > AliasCount, AliasCount' > AliasLimit
      PROVE  Excused
  <2>0. IsFiniteSet(used) /\ TypeOK
    BY <1>1 DEF RoomInv, HostInv, IInv
  <2>1. ~(Counted' \subseteq Counted)
    BY <1>1, <2>0, CountsLess
  <2>2. CASE \E r \in Workers : OverlapCommit(r)
    BY <1>1, <2>2, CommitCounts
  <2>3. CASE \E r \in Workers : OverlapOther(r)
    BY <2>0, <2>1, <2>3, CheckSteps
       DEF OverlapOther, CheckEffect, SendRequest, RollBack, LosePoke, rowVars, Counted
  <2>4. CASE DaemonStep /\ UNCHANGED <<overtaken, raced>>
    BY <1>1, <2>1, <2>4, DaemonCounts DEF Excused, Excess
  <2>5. CASE UNCHANGED overlapVars
    BY <2>1, <2>5 DEF overlapVars, vars, rowVars, Counted
  <2> QED  BY <1>1, <2>2, <2>3, <2>4, <2>5 DEF OverlapNext
<1>2. HostInv /\ ReadInv /\ TableInv /\ RoomInv /\ [OverlapNext]_overlapVars
      => [/\ AliasLimit # 0
          /\ AliasCount' > AliasCount
          /\ AliasCount' > AliasLimit
          => \/ raced' \cap Aliases # {}
             \/ \E r \in Workers, a \in Aliases : Approves(r, a)
             \/ \E a \in Aliases : status'[a] = "error"]_overlapVars
  BY <1>1 DEF Excused, Excess
<1> QED  BY <1>2, RoomHolds, PTL DEF OverlapSpec, LimitPassedByOverlap
=============================================================================
