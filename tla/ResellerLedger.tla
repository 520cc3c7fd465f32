--------------------------- MODULE ResellerLedger ---------------------------
(***************************************************************************)
(* What resellers may hand out and what they have handed out: the limits   *)
(* and counters in reseller_props, the limits in the customers' domain     *)
(* rows and what the customers use of them, and the hosting plans.         *)
(*                                                                         *)
(* Every operation reads the rows it decides on and writes later, in one   *)
(* transaction that does not repeat the decision.  The counters are        *)
(* derived: update_reseller_c_props() of the panel computes them anew from *)
(* the customers' rows within the transaction that changed those.          *)
(*                                                                         *)
(* Contacts, passwords, addresses and features are data: of an update that *)
(* changes them the model keeps which rows it schedules.  What a hosting   *)
(* plan promises is left out: a plan only says which limits are asked for, *)
(* and they are checked like any others when it is used.  Traffic and disk *)
(* space, which the panel measures itself, are left out, and so is the use *)
(* that a failed deletion of a host or an address brings back, which       *)
(* HostLifecycle and MailAccounts have.                                    *)
(***************************************************************************)
EXTENDS Integers, FiniteSets, Functions

CONSTANTS
    Procs,      \* PHP processes
    Resellers,  \* ids of resellers
    Customers,  \* ids of customers
    Plans,      \* ids of hosting plans
    Names,      \* names of hosting plans
    Services,   \* the services of this instance, of AllServices
    Limits,     \* the limits asked for: -1 withheld, 0 unlimited, or a number
    MaxUse,     \* how much of a service a customer uses at most
    Operations, \* the requests made in this instance, of AllOperations
    Failing,    \* the rows the daemon may fail at in this instance, of "admin" and "domain"
    None        \* no reseller, no customer, no plan, no name

AllServices == {"subdomains", "domainAliases", "mailAccounts", "ftpUsers", "sqlDatabases", "sqlUsers"}

AllOperations ==
    {"resellerUpdate", "resellerDelete", "customerCreate", "customerUpdate", "customerSetState",
     "customerDelete", "hostingPlanCreate", "hostingPlanUpdate", "use"}

ASSUME Configured ==
    /\ IsFiniteSet(Customers)
    /\ Services \subseteq AllServices
    /\ Limits \subseteq Nat \cup {-1}
    /\ Operations \subseteq AllOperations
    /\ Failing \subseteq {"admin", "domain"}
    /\ MaxUse \in Nat
    /\ None \notin Resellers \cup Customers \cup Plans \cup Names
    /\ Customers \cap Plans = {}

WITHHELD  == -1
UNLIMITED == 0

Allowances == Services \cup {"customers"}

VARIABLES
    reseller,  \* "absent", "ok" or "gone": the reseller's rows in admin and reseller_props
    max,       \* the max_* columns of reseller_props
    current,   \* the current_* columns of reseller_props
    customer,  \* the customers' rows in admin and domain
    used,      \* what each customer uses of each service
    plan,      \* hosting_plans
    proc,      \* the transaction each process has decided on
    overtaken  \* processes whose reseller was written to since they decided

vars == <<reseller, max, current, customer, used, plan, proc, overtaken>>

---------------------------------------------------------------------------

(* "error" is any other text, which is what the daemon writes on failure.  *)
AccountStatuses == {"absent", "toadd", "tochangepwd", "ok", "todelete", "error"}

DomainStatuses ==
    {"absent", "toadd", "tochange", "ok", "todisable", "disabled", "toenable", "todelete", "error"}

Rows ==
    [owner : Resellers \cup {None}, admin : AccountStatuses, domain : DomainStatuses,
     limit : [Services -> Limits \cup {0}]]

NoRows == [owner |-> None, admin |-> "absent", domain |-> "absent", limit |-> [s \in Services |-> 0]]

Unused == [reseller |-> None]

Deleted == [reseller |-> None, name |-> None]

(* accounts()->customer() joins the two. *)
IsCustomer(c) == customer[c].admin # "absent" /\ customer[c].domain # "absent"

CustomersOf(r) == {c \in Customers : customer[c].admin # "absent" /\ customer[c].owner = r}

PlansOf(r) == {h \in Plans : plan[h].reseller = r}

Handed(c, s, rows) == IF rows[c].limit[s] > 0 THEN rows[c].limit[s] ELSE 0

Counted(r, rows) ==
    {c \in Customers : /\ rows[c].owner = r
                       /\ rows[c].admin # "absent"
                       /\ rows[c].domain \notin {"absent", "todelete"}}

(* What a reseller's customers hold together, by these rows. *)
Totals(r, rows) ==
    [s \in Allowances |->
        IF s = "customers" THEN Cardinality(Counted(r, rows))
                           ELSE SumFunction([c \in Counted(r, rows) |-> Handed(c, s, rows)])]

(* updateResellerCounters(), an UPDATE that finds no row of a reseller     *)
(* that is gone.                                                           *)
Recount(r) ==
    current' = IF reseller[r] = "ok" THEN [current EXCEPT ![r] = Totals(r, customer')] ELSE current

---------------------------------------------------------------------------
(* Support\LimitRules. *)

Fits_UsedAnyway(r, c, s, new) ==   \* mutant: what is used may be withheld
    LET have == customer[c].limit[s]
        top  == max[r][s]
    IN  \/ have = WITHHELD
        \/ /\ ~(top # UNLIMITED /\ new = UNLIMITED)
           /\ ~(top # UNLIMITED /\ new > (top - current[r][s]) + have)
           /\ ~(new \notin {WITHHELD, UNLIMITED} /\ new < used[c][s])

(* The four tests of an update; a service withheld until now is not tested. *)
Fits(r, c, s, new) ==
    LET have == customer[c].limit[s]
        top  == max[r][s]
    IN  \/ have = WITHHELD
        \/ /\ ~(top # UNLIMITED /\ new = UNLIMITED)
           /\ ~(new = WITHHELD /\ used[c][s] > 0)
           /\ ~(top # UNLIMITED /\ new > (top - current[r][s]) + have)
           /\ ~(new \notin {WITHHELD, UNLIMITED} /\ new < used[c][s])

(* Neither SQL service is given without the other. *)
SqlTogether(c, wanted) ==
    {"sqlDatabases", "sqlUsers"} \subseteq Services =>
        \A s, o \in {"sqlDatabases", "sqlUsers"} :
            customer[c].limit[s] # WITHHELD /\ wanted[s] # WITHHELD => wanted[o] # WITHHELD

(* In the create rule, mail and FTP accounts are measured even if withheld. *)
Escapable == {"subdomains", "domainAliases", "sqlDatabases", "sqlUsers"}

Refused_Alone(r, s, wanted) ==   \* mutant: what others hold is not counted
    /\ max[r][s] # UNLIMITED
    /\ ~(s \in Escapable /\ wanted[s] = WITHHELD)
    /\ wanted[s] = UNLIMITED \/ wanted[s] > max[r][s]

Refused(r, s, wanted) ==
    /\ max[r][s] # UNLIMITED
    /\ ~(s \in Escapable /\ wanted[s] = WITHHELD)
    /\ \/ wanted[s] = UNLIMITED
       \/ s = "sqlUsers" /\ "sqlDatabases" \in Services /\ wanted["sqlDatabases"] = WITHHELD
       \/ current[r][s] + wanted[s] > max[r][s]

(* createReason(), for new customers and for hosting plans. *)
HasRoomFor(r, wanted) ==
    /\ max[r]["customers"] = UNLIMITED \/ current[r]["customers"] + 1 <= max[r]["customers"]
    /\ \A s \in Services : ~Refused(r, s, wanted)

(* checkNotBelowUsed() *)
NotBelowUsed(r, s, new) ==
    CASE new = WITHHELD  -> current[r][s] = 0
      [] new = UNLIMITED -> TRUE
      [] OTHER           -> new >= current[r][s]

---------------------------------------------------------------------------
(* Requests. *)

NoLimits == [s \in {} |-> 0]

Idle ==
    [op |-> "none", reseller |-> None, subject |-> None, limits |-> NoLimits, name |-> None, writes |-> {}]

Wanted == UNION {[S -> Limits] : S \in SUBSET Allowances}

(* What customerSetState schedules a domain for. *)
Verbs == {"todisable", "toenable"}

Works ==
    {Idle} \cup [op : Operations, reseller : Resellers, subject : Customers \cup Plans \cup {None},
                limits : Wanted, name : Names \cup Services \cup Verbs \cup {None},
                writes : SUBSET {"admin", "domain"}]

Work(op, r, subject, limits, name) ==
    [op |-> op, reseller |-> r, subject |-> subject, limits |-> limits, name |-> name, writes |-> {}]

Busy(p) == proc[p] # Idle

Doing(p, op) == Busy(p) /\ proc[p].op = op

(* The guards are passed, and the transaction follows. *)
Decide(p, work) ==
    /\ work.op \in Operations
    /\ proc' = [proc EXCEPT ![p] = work]
    /\ overtaken' = overtaken \ {p}
    /\ UNCHANGED <<reseller, max, current, customer, used, plan>>

(* The transaction is over, and overtakes the others of this reseller. *)
Commit(p) ==
    /\ proc' = [proc EXCEPT ![p] = Idle]
    /\ overtaken' = (overtaken \cup {q \in Procs : Busy(q) /\ proc[q].reseller = proc[p].reseller}) \ {p}

RollBack(p) ==
    /\ Busy(p)
    /\ proc' = [proc EXCEPT ![p] = Idle]
    /\ overtaken' = overtaken \ {p}
    /\ UNCHANGED <<reseller, max, current, customer, used, plan>>

---------------------------------------------------------------------------
(* ResellerService. *)

(* An administrator names every limit, and the counters begin at zero.     *)
ResellerCreate(r, limits) ==
    /\ reseller[r] = "absent"
    /\ limits["customers"] # WITHHELD
    /\ reseller' = [reseller EXCEPT ![r] = "ok"]
    /\ max' = [max EXCEPT ![r] = limits]
    /\ UNCHANGED <<current, customer, used, plan, proc, overtaken>>

ResellerUpdateCheck(p, r, limits) ==
    /\ reseller[r] = "ok"
    /\ DOMAIN limits # {}
    /\ "customers" \in DOMAIN limits => limits["customers"] # WITHHELD
    /\ \A s \in DOMAIN limits : NotBelowUsed(r, s, limits[s])
    /\ Decide(p, Work("resellerUpdate", r, None, limits, None))

(* The limits named are written, and the others stay. *)
ResellerUpdateCommit(p) ==
    LET r      == proc[p].reseller
        limits == proc[p].limits
    IN  /\ Doing(p, "resellerUpdate")
        /\ max' = IF reseller[r] = "ok"
                  THEN [max EXCEPT ![r] = [s \in Allowances |->
                           IF s \in DOMAIN limits THEN limits[s] ELSE max[r][s]]]
                  ELSE max
        /\ Commit(p)
        /\ UNCHANGED <<reseller, current, customer, used, plan>>

(* Any customer counts, one that is being deleted too. *)
ResellerDeleteCheck(p, r) ==
    /\ reseller[r] = "ok"
    /\ CustomersOf(r) = {}
    /\ Decide(p, Work("resellerDelete", r, None, NoLimits, None))

ResellerDeleteCommit_KeepsPlans(p) ==   \* mutant
    /\ Doing(p, "resellerDelete")
    /\ reseller' = [reseller EXCEPT ![proc[p].reseller] = "gone"]
    /\ Commit(p)
    /\ UNCHANGED <<max, current, customer, used, plan>>

(* deleteReseller(): the plans go with a reseller that is still there.     *)
ResellerDeleteCommit(p) ==
    LET r == proc[p].reseller
    IN  /\ Doing(p, "resellerDelete")
        /\ reseller' = [reseller EXCEPT ![r] = "gone"]
        /\ plan' = [h \in Plans |-> IF reseller[r] = "ok" /\ h \in PlansOf(r) THEN Deleted ELSE plan[h]]
        /\ Commit(p)
        /\ UNCHANGED <<max, current, customer, used>>

---------------------------------------------------------------------------
(* HostingPlanService. *)

NameTaken_OnUpdate(r, name, own) ==   \* mutant: a creation does not ask
    own # None /\ \E h \in PlansOf(r) : plan[h].name = name

(* An update leaves the plan's own row out. *)
NameTaken(r, name, own) == \E h \in PlansOf(r) \ {own} : plan[h].name = name

HostingPlanCreateCheck(p, r, name) ==
    /\ reseller[r] = "ok"
    /\ \E limits \in [Services -> Limits] : HasRoomFor(r, limits)
    /\ ~NameTaken(r, name, None)
    /\ Decide(p, Work("hostingPlanCreate", r, None, NoLimits, name))

HostingPlanCreateCommit(p, h) ==
    /\ Doing(p, "hostingPlanCreate")
    /\ plan[h] = Unused
    /\ plan' = [plan EXCEPT ![h] = [reseller |-> proc[p].reseller, name |-> proc[p].name]]
    /\ Commit(p)
    /\ UNCHANGED <<reseller, max, current, customer, used>>

HostingPlanUpdateCheck(p, h, name) ==
    LET r == plan[h].reseller
    IN  /\ r # None
        /\ reseller[r] = "ok"
        /\ \E limits \in [Services -> Limits] : HasRoomFor(r, limits)
        /\ ~NameTaken(r, name, h)
        /\ Decide(p, Work("hostingPlanUpdate", r, h, NoLimits, name))

HostingPlanUpdateCommit_AnyRow(p) ==   \* mutant
    /\ Doing(p, "hostingPlanUpdate")
    /\ plan' = [plan EXCEPT ![proc[p].subject].name = proc[p].name]
    /\ Commit(p)
    /\ UNCHANGED <<reseller, max, current, customer, used>>

HostingPlanUpdateCommit(p) ==
    LET h == proc[p].subject
    IN  /\ Doing(p, "hostingPlanUpdate")
        /\ plan' = IF plan[h].reseller # None THEN [plan EXCEPT ![h].name = proc[p].name] ELSE plan
        /\ Commit(p)
        /\ UNCHANGED <<reseller, max, current, customer, used>>

(* One DELETE, which finds the row or does not. *)
HostingPlanDelete(h) ==
    /\ plan[h].reseller # None
    /\ plan' = [plan EXCEPT ![h] = Deleted]
    /\ UNCHANGED <<reseller, max, current, customer, used, proc, overtaken>>

---------------------------------------------------------------------------
(* CustomerService. *)

CustomerCreateCheck(p, r, limits) ==
    /\ reseller[r] = "ok"
    /\ HasRoomFor(r, limits)
    /\ Decide(p, Work("customerCreate", r, None, limits, None))

CustomerCreateCommit_NoRecount(p, c) ==   \* mutant
    /\ Doing(p, "customerCreate")
    /\ customer[c] = NoRows
    /\ customer' = [customer EXCEPT ![c] =
           [owner |-> proc[p].reseller, admin |-> "toadd", domain |-> "toadd", limit |-> proc[p].limits]]
    /\ Commit(p)
    /\ UNCHANGED <<reseller, max, current, used, plan>>

CustomerCreateCommit(p, c) ==
    /\ Doing(p, "customerCreate")
    /\ customer[c] = NoRows
    /\ customer' = [customer EXCEPT ![c] =
           [owner |-> proc[p].reseller, admin |-> "toadd", domain |-> "toadd", limit |-> proc[p].limits]]
    /\ Recount(proc[p].reseller)
    /\ Commit(p)
    /\ UNCHANGED <<reseller, max, used, plan>>

UpdateOf(c, limits, writes) ==
    [Work("customerUpdate", customer[c].owner, c, limits, None) EXCEPT !.writes = writes]

CustomerUpdateCheck_AnyState(p, c, limits, writes) ==   \* mutant
    /\ IsCustomer(c) /\ reseller[customer[c].owner] = "ok"
    /\ limits # NoLimits =>
          /\ "domain" \in writes
          /\ SqlTogether(c, limits) /\ \A s \in Services : Fits(customer[c].owner, c, s, limits[s])
    /\ Decide(p, UpdateOf(c, limits, writes))

(* A password schedules the account's row; limits, which are all named, or *)
(* an address schedule the domain's; a contact or an expiry neither.  Only *)
(* an expiry is accepted on a disabled domain.                             *)
CustomerUpdateCheck(p, c, limits, writes) ==
    LET r == customer[c].owner
    IN  /\ IsCustomer(c)
        /\ customer[c].domain = "ok" \/ (writes = {} /\ customer[c].domain = "disabled")
        /\ reseller[r] = "ok"
        /\ limits # NoLimits =>
              /\ "domain" \in writes
              /\ SqlTogether(c, limits) /\ \A s \in Services : Fits(r, c, s, limits[s])
        /\ Decide(p, UpdateOf(c, limits, writes))

(* The verbs are written over whatever the rows say by now.  The customer  *)
(* is read again for its reseller, and one that is not there rolls all of  *)
(* it back.                                                                *)
CustomerUpdateCommit(p) ==
    LET c      == proc[p].subject
        writes == proc[p].writes
    IN  /\ Doing(p, "customerUpdate")
        /\ IsCustomer(c)
        /\ customer' = [customer EXCEPT ![c].limit = IF proc[p].limits = NoLimits THEN @ ELSE proc[p].limits,
                                        ![c].admin = IF "admin" \in writes THEN "tochangepwd" ELSE @,
                                        ![c].domain = IF "domain" \in writes THEN "tochange" ELSE @]
        /\ Recount(customer[c].owner)
        /\ Commit(p)
        /\ UNCHANGED <<reseller, max, used, plan>>

CustomerSetStateCheck(p, c, verb) ==
    /\ IsCustomer(c)
    /\ customer[c].domain = IF verb = "todisable" THEN "ok" ELSE "disabled"
    /\ Decide(p, Work("customerSetState", customer[c].owner, c, NoLimits, verb))

(* Over whatever the domain's row says by now, and without a recount.      *)
CustomerSetStateCommit(p) ==
    LET c == proc[p].subject
    IN  /\ Doing(p, "customerSetState")
        /\ customer' = [customer EXCEPT ![c].domain = IF @ = "absent" THEN @ ELSE proc[p].name]
        /\ Commit(p)
        /\ UNCHANGED <<reseller, max, current, used, plan>>

(* The account must be settled, whatever its domain is. *)
CustomerDeleteCheck(p, c) ==
    /\ IsCustomer(c) /\ customer[c].admin \in {"ok", "error", "disabled"}
    /\ Decide(p, Work("customerDelete", customer[c].owner, c, NoLimits, None))

(* deleteCustomer() of the panel, which finds the row or does nothing.     *)
CustomerDeleteCommit(p) ==
    LET c == proc[p].subject
    IN  /\ Doing(p, "customerDelete")
        /\ IF customer[c].admin # "absent"
           THEN /\ customer' = [customer EXCEPT ![c].admin = "todelete",
                                                ![c].domain = IF @ = "absent" THEN @ ELSE "todelete"]
                /\ used' = [used EXCEPT ![c] = [s \in Services |-> 0]]
                /\ Recount(customer[c].owner)
           ELSE UNCHANGED <<customer, used, current>>
        /\ Commit(p)
        /\ UNCHANGED <<reseller, max, plan>>

---------------------------------------------------------------------------
(* The mutations that use a service, as far as the ledger is concerned.    *)

(* Guard::requireQuota() over Quota::fromCustomerLimit(). *)
HasRoom(c, s) == customer[c].limit[s] = UNLIMITED \/ used[c][s] < customer[c].limit[s]

(* A database may be created for a customer in any state; the other        *)
(* services ask that a host is settled, which is left out.                 *)
UseCheck(p, c, s) ==
    /\ IsCustomer(c)
    /\ HasRoom(c, s)
    /\ Decide(p, Work("use", customer[c].owner, c, NoLimits, s))

UseCommit(p) ==
    LET c == proc[p].subject
        s == proc[p].name
    IN  /\ Doing(p, "use")
        /\ used[c][s] < MaxUse
        /\ used' = [used EXCEPT ![c][s] = @ + 1]
        /\ Commit(p)
        /\ UNCHANGED <<reseller, max, current, customer, plan>>

GiveUp(c, s) ==
    /\ used[c][s] > 0
    /\ used' = [used EXCEPT ![c][s] = @ - 1]
    /\ UNCHANGED <<reseller, max, current, customer, plan, proc, overtaken>>

(* How the daemon leaves a row that has this status, if it does not fail;  *)
(* a row that is settled it leaves alone.                                  *)
Outcome(status) ==
    CASE status = "todelete"  -> "absent"
      [] status = "todisable" -> "disabled"
      [] OTHER                -> "ok"

Pending == {"toadd", "tochange", "tochangepwd", "toenable", "todisable", "todelete"}

(* The daemon carries out what a status asks for, row by row, or fails to  *)
(* and leaves the row with an error.                                       *)
Settle(c) ==
    /\ \/ /\ customer[c].admin \in Pending
          /\ \/ customer' = [customer EXCEPT ![c].admin = Outcome(@)]
             \/ "admin" \in Failing /\ customer' = [customer EXCEPT ![c].admin = "error"]
       \/ /\ customer[c].domain \in Pending
          /\ \/ customer' = [customer EXCEPT ![c].domain = Outcome(@)]
             \/ "domain" \in Failing /\ customer' = [customer EXCEPT ![c].domain = "error"]
    /\ UNCHANGED <<reseller, max, current, used, plan, proc, overtaken>>

---------------------------------------------------------------------------

Init ==
    /\ reseller = [r \in Resellers |-> "absent"]
    /\ max = [r \in Resellers |-> [s \in Allowances |-> 0]]
    /\ current = [r \in Resellers |-> [s \in Allowances |-> 0]]
    /\ customer = [c \in Customers |-> NoRows]
    /\ used = [c \in Customers |-> [s \in Services |-> 0]]
    /\ plan = [h \in Plans |-> Unused]
    /\ proc = [p \in Procs |-> Idle]
    /\ overtaken = {}

(* A process that decides on nothing yet takes a request. *)
Check(p) ==
    /\ ~Busy(p)
    /\ \/ \E r \in Resellers :
             \/ \E limits \in Wanted : ResellerUpdateCheck(p, r, limits)
             \/ ResellerDeleteCheck(p, r)
             \/ \E name \in Names : HostingPlanCreateCheck(p, r, name)
             \/ \E limits \in [Services -> Limits] : CustomerCreateCheck(p, r, limits)
       \/ \E h \in Plans, name \in Names : HostingPlanUpdateCheck(p, h, name)
       \/ \E c \in Customers :
             \/ \E limits \in [Services -> Limits] \cup {NoLimits}, writes \in SUBSET {"admin", "domain"} :
                   CustomerUpdateCheck(p, c, limits, writes)
             \/ \E verb \in Verbs : CustomerSetStateCheck(p, c, verb)
             \/ CustomerDeleteCheck(p, c)
             \/ \E s \in Services : UseCheck(p, c, s)

Transaction(p) ==
    \/ ResellerUpdateCommit(p)
    \/ ResellerDeleteCommit(p)
    \/ \E h \in Plans : HostingPlanCreateCommit(p, h)
    \/ HostingPlanUpdateCommit(p)
    \/ \E c \in Customers : CustomerCreateCommit(p, c)
    \/ CustomerUpdateCommit(p)
    \/ CustomerSetStateCommit(p)
    \/ CustomerDeleteCommit(p)
    \/ UseCommit(p)
    \/ RollBack(p)

Next ==
    \/ \E p \in Procs : Check(p) \/ Transaction(p)
    \/ \E r \in Resellers, limits \in [Allowances -> Limits] : ResellerCreate(r, limits)
    \/ \E h \in Plans : HostingPlanDelete(h)
    \/ \E c \in Customers : Settle(c) \/ \E s \in Services : GiveUp(c, s)

Spec == Init /\ [][Next]_vars

---------------------------------------------------------------------------
(* Properties. *)

(* Every variable has its shape. *)
TypeOK ==
    /\ reseller \in [Resellers -> {"absent", "ok", "gone"}]
    /\ max \in [Resellers -> [Allowances -> Limits \cup {0}]]
    /\ current \in [Resellers -> [Allowances -> Nat]]
    /\ customer \in [Customers -> Rows]
    /\ used \in [Customers -> [Services -> 0..MaxUse]]
    /\ plan \in [Plans -> [reseller : Resellers, name : Names] \cup {Unused, Deleted}]
    /\ proc \in [Procs -> Works]
    /\ overtaken \subseteq Procs

(* Process p ends a transaction that others of its reseller have overtaken *)
(* since it decided.                                                       *)
Overtaken(p) == p \in overtaken /\ Busy(p) /\ proc'[p] # proc[p]

(* The daemon fails to take a customer's domain, which counts again. *)
DeletionFails(c) == customer[c].domain = "todelete" /\ customer'[c].domain = "error"

(* The daemon takes the account of a customer that still counts: one whose *)
(* domain it failed to take, or one that was brought back.                 *)
AccountTaken(c) == c \in Counted(customer[c].owner, customer) /\ customer'[c].admin = "absent"

(* Process p suspends or enables a domain over what others wrote meanwhile. *)
SuspendsLate(p) == Doing(p, "customerSetState") /\ Overtaken(p)

Agree(r) == current[r] = Totals(r, customer)

(* The counters say what the customers' rows say, through creations,       *)
(* updates, suspensions, deletions and the daemon: they part from the rows *)
(* only where nobody computes them, when the daemon fails to delete or     *)
(* takes an account whose domain counts, and where a suspension that was   *)
(* overtaken by a deletion makes the customer count again.                 *)
CountersFollow ==
    [][\A r \in Resellers :
        reseller[r] = "ok" /\ ~Agree(r)' /\ Agree(r) =>
            \/ \E p \in Procs : SuspendsLate(p)
            \/ \E c \in Customers : customer[c].owner = r /\ (DeletionFails(c) \/ AccountTaken(c))]_vars

Exceeds(held, limit) == limit # UNLIMITED /\ held > (IF limit = WITHHELD THEN 0 ELSE limit)

Oversold(r) ==
    LET held == Totals(r, customer)
    IN  \E s \in Allowances : Exceeds(held[s], max[r][s])

(* A customer is given a service it did not have. *)
Regrants(p) ==
    /\ Doing(p, "customerUpdate") /\ proc'[p] # proc[p]
    /\ proc[p].limits # NoLimits
    /\ \E s \in Services : customer[proc[p].subject].limit[s] = WITHHELD /\ proc[p].limits[s] # WITHHELD

(* The counters have parted from the rows, and say less. *)
Understated(r) ==
    LET held == Totals(r, customer)
    IN  \E s \in Allowances : current[r][s] < held[s]

(* A reseller's customers hold no more than the reseller has.  What goes   *)
(* past it: transactions that overtake each other, updates that give a     *)
(* withheld service back, which are not checked, a deletion that fails     *)
(* after its room was given away, and checks against counters that say     *)
(* less than the rows.                                                     *)
OversoldByOverlap ==
    [][\A r \in Resellers :
        reseller[r] = "ok" /\ Oversold(r)' /\ ~Oversold(r) =>
            \/ \E p \in Procs : Overtaken(p) \/ Regrants(p)
            \/ \E c \in Customers : customer[c].owner = r /\ DeletionFails(c)
            \/ Understated(r)]_vars

Overused(c) == \E s \in Services : Exceeds(used[c][s], customer[c].limit[s])

(* A customer uses no more of a service than its limit, whichever of the   *)
(* two changes: only transactions that overtake each other get past it.    *)
OverusedByOverlap ==
    [][\A c \in Customers : ~Overused(c) /\ Overused(c)' => \E p \in Procs : Overtaken(p)]_vars

Orphaned(x) ==
    \/ x \in Customers /\ customer[x].admin # "absent" /\ reseller[customer[x].owner] # "ok"
    \/ x \in Plans /\ plan[x].reseller # None /\ reseller[plan[x].reseller] # "ok"

(* Neither a customer nor a plan is without its reseller, but where the    *)
(* deletion of the reseller and its creation overtake each other.          *)
OrphanedByOverlap ==
    [][\A x \in Customers \cup Plans :
        ~Orphaned(x) /\ Orphaned(x)' => \E p \in Procs : Overtaken(p)]_vars

Namesakes(g, h) == plan[g].reseller # None /\ plan[g] = plan[h]

(* Two plans of a reseller never have one name, but by overtaking.         *)
NamesakesByOverlap ==
    [][\A g, h \in Plans :
        g # h /\ ~Namesakes(g, h) /\ Namesakes(g, h)' => \E p \in Procs : Overtaken(p)]_vars

(* The domain is put back to work although the account is being deleted.   *)
BroughtBack(c) ==
    /\ customer[c].admin \in {"todelete", "absent"}
    /\ customer[c].domain \notin {"todelete", "absent", "error"}

(* Neither row of a customer that is being deleted is put back to work:    *)
(* the daemon takes it or fails.  Only a transaction that was overtaken by *)
(* the deletion writes over one of them, and once it has put the domain    *)
(* back, a later change of the password does so with the account.          *)
DeletionStands ==
    [][\A c \in Customers, row \in {"admin", "domain"} :
        customer[c][row] = "todelete" /\ customer'[c][row] \notin {"todelete", "absent", "error"} =>
            BroughtBack(c) \/ \E p \in Procs : Overtaken(p)]_vars
=============================================================================
