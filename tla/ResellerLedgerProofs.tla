------------------------ MODULE ResellerLedgerProofs ------------------------
(***************************************************************************)
(* What holds of ResellerLedger for any number of processes, resellers,    *)
(* customers, plans and services, and any limits.                          *)
(***************************************************************************)
EXTENDS ResellerLedger, FiniteSums, FiniteSetTheorems, TLAPS

---------------------------------------------------------------------------
(* The inductive invariant. *)

(* What a decided request is about does not change under it. *)
Facts(w) ==
    /\ w # Idle => reseller[w.reseller] # "absent"
    /\ w.op = "customerCreate" => w.limits \in [Services -> Limits]
    /\ w.op = "customerUpdate" => w.limits \in [Services -> Limits] \cup {NoLimits}
    /\ w.op \in {"customerUpdate", "customerSetState", "customerDelete", "use"} =>
          w.subject \in Customers /\ customer[w.subject].owner = w.reseller
    /\ w.op = "customerSetState" => w.name \in Verbs
    /\ w.op = "use" => w.name \in Services
    /\ w.op \in {"hostingPlanCreate", "hostingPlanUpdate"} => w.name \in Names
    /\ w.op = "hostingPlanUpdate" =>
          /\ w.subject \in Plans
          /\ plan[w.subject] # Unused
          /\ plan[w.subject].reseller \in {w.reseller, None}

(* What a limit has to leave room for. *)
Leaves(c, limits) ==
    \A s \in Services :
        \/ customer[c].limit[s] = WITHHELD
        \/ /\ limits[s] = WITHHELD => used[c][s] = 0
           /\ limits[s] \notin {WITHHELD, UNLIMITED} => used[c][s] <= limits[s]

(* What was checked still holds, until another request overtakes.          *)
Promise(w) ==
    /\ w.op \in {"customerCreate", "hostingPlanCreate", "hostingPlanUpdate"} => reseller[w.reseller] = "ok"
    /\ w.op = "resellerDelete" => CustomersOf(w.reseller) = {}
    /\ w.op = "hostingPlanCreate" => ~NameTaken(w.reseller, w.name, None)
    /\ w.op = "hostingPlanUpdate" => ~NameTaken(w.reseller, w.name, w.subject)
    /\ w.op \in {"customerUpdate", "customerSetState"} => customer[w.subject].domain \in {"ok", "disabled"}
    /\ w.op = "customerUpdate" /\ w.limits # NoLimits => Leaves(w.subject, w.limits)
    /\ w.op = "use" => HasRoom(w.subject, w.name)

(* Rows that were never inserted. *)
Fresh ==
    /\ \A r \in Resellers : reseller[r] = "absent" =>
          /\ current[r] = [s \in Allowances |-> 0]
          /\ \A c \in Customers : customer[c].owner # r
    /\ \A c \in Customers : customer[c] = NoRows => used[c] = [s \in Services |-> 0]
    /\ \A c \in Customers : customer[c].owner = None => customer[c] = NoRows

IInv ==
    /\ TypeOK
    /\ Fresh
    /\ \A p \in Procs : Facts(proc[p]) /\ (p \notin overtaken => Promise(proc[p]))

---------------------------------------------------------------------------
(* Shapes. *)

LEMMA IdleWork ==
    /\ Idle \in Works
    /\ \A w \in Works : w # Idle => /\ w.op \in Operations
                                   /\ w.reseller \in Resellers
                                   /\ w.subject \in Customers \cup Plans \cup {None}
                                   /\ w.limits \in Wanted
                                   /\ w.name \in Names \cup Services \cup Verbs \cup {None}
    /\ Idle.op = "none"
    /\ "none" \notin Operations
  BY Configured DEF Idle, Works, AllOperations

LEMMA WorkType ==
    ASSUME NEW op \in Operations, NEW r \in Resellers, NEW x \in Customers \cup Plans \cup {None},
           NEW limits \in Wanted, NEW name \in Names \cup Services \cup Verbs \cup {None}
    PROVE  Work(op, r, x, limits, name) \in Works
  BY DEF Work, Works

LEMMA WorkFields ==
    \A op, r, x, limits, name :
        LET w == Work(op, r, x, limits, name)
        IN  w.op = op /\ w.reseller = r /\ w.subject = x /\ w.limits = limits /\ w.name = name
  BY DEF Work

LEMMA UpdateWork ==
    ASSUME NEW c \in Customers, customer[c].owner \in Resellers, NEW limits \in Wanted,
           NEW writes \in SUBSET {"admin", "domain"}, NEW p, Decide(p, UpdateOf(c, limits, writes))
    PROVE  LET w == UpdateOf(c, limits, writes)
           IN  /\ w \in Works /\ w.op = "customerUpdate" /\ w.reseller = customer[c].owner
               /\ w.subject = c /\ w.limits = limits /\ w.writes = writes
  <1> DEFINE w == UpdateOf(c, limits, writes)
  <1>1. w = [op |-> "customerUpdate", reseller |-> customer[c].owner, subject |-> c, limits |-> limits,
             name |-> None, writes |-> writes]
    BY DEF UpdateOf, Work
  <1>2. w.op \in Operations
    BY DEF Decide
  <1> QED
    BY <1>1, <1>2 DEF Works

LEMMA WantedLimits ==
    /\ NoLimits \in Wanted
    /\ \A limits \in [Services -> Limits] : limits \in Wanted
    /\ \A limits \in Wanted : /\ DOMAIN limits \subseteq Allowances
                              /\ \A s \in DOMAIN limits : limits[s] \in Limits
  <1>1. NoLimits \in [{} -> Limits] /\ {} \in SUBSET Allowances
    BY DEF NoLimits
  <1>2. Services \in SUBSET Allowances
    BY DEF Allowances
  <1> QED
    BY <1>1, <1>2 DEF Wanted

LEMMA PlanKinds ==
    /\ Unused # Deleted
    /\ Unused.reseller = None /\ Deleted.reseller = None
    /\ \A h \in [reseller : Resellers, name : Names] : h # Unused /\ h # Deleted /\ h.reseller # None
  <1>1. DOMAIN Unused = {"reseller"} /\ DOMAIN Deleted = {"reseller", "name"}
    BY DEF Unused, Deleted
  <1>2. "name" \notin {"reseller"}
    OBVIOUS
  <1>3. Unused.reseller = None /\ Deleted.reseller = None
    BY DEF Unused, Deleted
  <1> QED
    BY <1>1, <1>2, <1>3, Configured

---------------------------------------------------------------------------
(* The totals. *)

LEMMA EmptySum == \A f \in [{} -> Int] : SumFunction(f) = 0
  <1> SUFFICES ASSUME NEW f \in [{} -> Int]
               PROVE  SumFunction(f) = 0
    OBVIOUS
  <1>1. DOMAIN f = {}
    OBVIOUS
  <1>2. SumFunctionOnSet(f, {}) = 0
    BY DEF SumFunctionOnSet, FoldFunctionOnSet, MapThenFoldSet
  <1> QED
    BY <1>1, <1>2 DEF SumFunction

(* A reseller without customers has handed out nothing. *)
LEMMA NothingHanded ==
    ASSUME NEW r, NEW rows, Counted(r, rows) = {}
    PROVE  Totals(r, rows) = [s \in Allowances |-> 0]
  <1>1. ASSUME NEW s \in Allowances
        PROVE  (IF s = "customers" THEN Cardinality(Counted(r, rows))
                                   ELSE SumFunction([c \in Counted(r, rows) |-> Handed(c, s, rows)])) = 0
    <2>1. [c \in Counted(r, rows) |-> Handed(c, s, rows)] \in [{} -> Int]
      OBVIOUS
    <2>2. SumFunction([c \in Counted(r, rows) |-> Handed(c, s, rows)]) = 0
      BY <2>1, EmptySum
    <2>3. Cardinality(Counted(r, rows)) = 0
      BY FS_EmptySet
    <2> QED
      BY <2>2, <2>3
  <1> QED
    BY <1>1 DEF Totals

(* The totals depend on the customers that count and on their limits.      *)
LEMMA SameTotals ==
    ASSUME NEW r, NEW rows, NEW new, Counted(r, new) = Counted(r, rows),
           \A c \in Counted(r, rows) : new[c].limit = rows[c].limit
    PROVE  Totals(r, new) = Totals(r, rows)
  <1>1. ASSUME NEW s \in Allowances
        PROVE  [c \in Counted(r, new) |-> Handed(c, s, new)] = [c \in Counted(r, rows) |-> Handed(c, s, rows)]
    BY DEF Handed
  <1> QED
    BY <1>1 DEF Totals

(* A customer's part in the totals of r.                                   *)
Part(r, c, s, rows) ==
    IF c \notin Counted(r, rows) THEN 0 ELSE IF s = "customers" THEN 1 ELSE Handed(c, s, rows)

LEMMA Numbers ==
    /\ \A x \in Limits \cup {0} : x \in Int /\ (x < 0 => x = WITHHELD)
    /\ \A rows \in [Customers -> Rows], c \in Customers :
          rows[c].limit \in [Services -> Limits \cup {0}] /\ \A s \in Services : Handed(c, s, rows) \in Nat
  <1>1. \A x \in Limits \cup {0} : x \in Int /\ (x < 0 => x = WITHHELD)
    BY Configured DEF WITHHELD
  <1>2. ASSUME NEW rows \in [Customers -> Rows], NEW c \in Customers
        PROVE  rows[c].limit \in [Services -> Limits \cup {0}] /\ \A s \in Services : Handed(c, s, rows) \in Nat
    <2>1. rows[c].limit \in [Services -> Limits \cup {0}]
      BY DEF Rows
    <2>2. \A s \in Services : rows[c].limit[s] \in Int
      BY <1>1, <2>1
    <2> QED
      BY <2>1, <2>2 DEF Handed
  <1> QED
    BY <1>1, <1>2

LEMMA NoSuchService == "customers" \notin Services
  BY Configured DEF AllServices

(* When one customer's rows change, what the others hold together stays.   *)
LEMMA TotalsChange ==
    ASSUME NEW rows \in [Customers -> Rows], NEW new \in [Customers -> Rows],
           NEW c \in Customers, \A b \in Customers : b # c => new[b] = rows[b],
           NEW r, NEW s \in Allowances
    PROVE  \E rest \in Nat : /\ Totals(r, rows)[s] = Part(r, c, s, rows) + rest
                            /\ Totals(r, new)[s] = Part(r, c, s, new) + rest
  <1> DEFINE others == Counted(r, rows) \ {c}
  <1>1. Counted(r, new) \ {c} = others /\ c \notin others
    BY DEF Counted
  <1>2. IsFiniteSet(others) /\ IsFiniteSet(Counted(r, rows)) /\ IsFiniteSet(Counted(r, new))
    <2>1. others \in SUBSET Customers /\ Counted(r, rows) \in SUBSET Customers /\ Counted(r, new) \in SUBSET Customers
      BY DEF Counted
    <2> QED
      BY <2>1, FS_Subset, Configured
  <1>3. CASE s = "customers"
    <2>1. ASSUME NEW any, IsFiniteSet(Counted(r, any)), Counted(r, any) \ {c} = others
          PROVE  Totals(r, any)[s] = Part(r, c, s, any) + Cardinality(others)
      <3>1. Totals(r, any)[s] = Cardinality(Counted(r, any))
        BY <1>3 DEF Totals
      <3>2. Cardinality(others) = IF c \in Counted(r, any) THEN Cardinality(Counted(r, any)) - 1
                                                           ELSE Cardinality(Counted(r, any))
        BY <2>1, FS_RemoveElement
      <3>3. Cardinality(Counted(r, any)) \in Nat
        BY <2>1, FS_CardinalityType
      <3> QED
        BY <1>3, <3>1, <3>2, <3>3 DEF Part
    <2>2. Cardinality(others) \in Nat
      BY <1>2, FS_CardinalityType
    <2> QED
      BY <1>1, <1>2, <2>1, <2>2
  <1>4. CASE s \in Services
    <2> DEFINE held(any) == [b \in Counted(r, any) |-> Handed(b, s, any)]
               rest(any) == [b \in Counted(r, any) \ {c} |-> Handed(b, s, any)]
    <2>1. ASSUME NEW any \in [Customers -> Rows], IsFiniteSet(Counted(r, any))
          PROVE  /\ Totals(r, any)[s] = Part(r, c, s, any) + SumFunction(rest(any))
                 /\ SumFunction(rest(any)) \in Nat
      <3>1. Totals(r, any)[s] = SumFunction(held(any))
        BY <1>4, NoSuchService DEF Totals
      <3>2. held(any) \in [Counted(r, any) -> Nat] /\ rest(any) \in [Counted(r, any) \ {c} -> Nat]
        BY <1>4, Numbers DEF Counted
      <3>3. IsFiniteSet(Counted(r, any) \ {c})
        BY <2>1, FS_RemoveElement
      <3>4. SumFunction(rest(any)) \in Nat
        BY <3>2, <3>3, SumOfFunction
      <3>5. CASE c \in Counted(r, any)
        <4> DEFINE fun == held(any)
        <4>1. fun[c] = Handed(c, s, any) /\ [z \in Counted(r, any) \ {c} |-> fun[z]] = rest(any)
          BY <3>5
        <4>2. fun \in [Counted(r, any) -> Nat]
          BY <3>2
        <4> HIDE DEF fun
        <4>3. SumFunction(fun) = fun[c] + SumFunction([z \in Counted(r, any) \ {c} |-> fun[z]])
          BY <2>1, <3>5, <4>2, SumOfFunction
        <4>4. SumFunction(held(any)) = Handed(c, s, any) + SumFunction(rest(any))
          BY <4>1, <4>3 DEF fun
        <4> QED
          BY <1>4, <3>1, <3>4, <3>5, <4>4, NoSuchService DEF Part
      <3>6. CASE c \notin Counted(r, any)
        <4>1. rest(any) = held(any)
          BY <3>6
        <4> QED
          BY <3>1, <3>4, <3>6, <4>1 DEF Part
      <3> QED
        BY <3>4, <3>5, <3>6
    <2>2. rest(new) = rest(rows)
      <3>1. \A b \in others : Handed(b, s, new) = Handed(b, s, rows)
        BY DEF Counted, Handed
      <3> QED
        BY <1>1, <3>1
    <2> HIDE DEF rest
    <2> QED
      BY <1>2, <2>1, <2>2
  <1> QED
    BY <1>3, <1>4 DEF Allowances

LEMMA PartsAreNumbers ==
    ASSUME NEW rows \in [Customers -> Rows], NEW r, NEW s \in Allowances, NEW c \in Customers
    PROVE  Part(r, c, s, rows) \in Nat
  BY Numbers DEF Part, Allowances

LEMMA TotalsAreNumbers ==
    ASSUME NEW rows \in [Customers -> Rows], NEW r
    PROVE  Totals(r, rows) \in [Allowances -> Nat]
  <1>1. ASSUME NEW s \in Allowances  PROVE Totals(r, rows)[s] \in Nat
    <2>1. CASE Customers = {}
      <3>1. Totals(r, rows) = [z \in Allowances |-> 0]
        BY <2>1, NothingHanded DEF Counted
      <3> QED
        BY <3>1
    <2>2. ASSUME NEW c \in Customers  PROVE Totals(r, rows)[s] \in Nat
      BY TotalsChange, PartsAreNumbers
    <2> QED
      BY <2>1, <2>2
  <1> QED
    BY <1>1 DEF Totals

---------------------------------------------------------------------------
(* A request that is decided on, or rolled back: nothing but its process   *)
(* changes.                                                                *)

LEMMA ProcKeeps ==
    ASSUME IInv, NEW p \in Procs, NEW w \in Works, Facts(w), Promise(w),
           proc' = [proc EXCEPT ![p] = w], overtaken' = overtaken \ {p},
           UNCHANGED <<reseller, max, current, customer, used, plan>>
    PROVE  IInv'
  <1>1. proc' \in [Procs -> Works] /\ overtaken' \subseteq Procs
    BY DEF IInv, TypeOK
  <1>2. TypeOK'
    BY <1>1 DEF IInv, TypeOK
  <1>3. Fresh'
    BY DEF IInv, Fresh
  <1>4. \A v \in Works : (Facts(v) => Facts(v)') /\ (Promise(v) => Promise(v)')
    BY DEF Facts, Promise, CustomersOf, NameTaken, PlansOf, Leaves, HasRoom
  <1>5. ASSUME NEW q \in Procs
        PROVE  Facts(proc[q])' /\ (q \notin overtaken => Promise(proc[q]))'
    <2>1. CASE q = p
      <3>1. proc'[q] = w
        BY <2>1 DEF IInv, TypeOK
      <3>2. Facts(w)' /\ Promise(w)'
        BY <1>4
      <3> QED
        BY <3>1, <3>2 DEF Facts, Promise
    <2>2. CASE q # p
      <3>1. proc'[q] = proc[q] /\ proc[q] \in Works /\ (q \in overtaken' <=> q \in overtaken)
        BY <2>2 DEF IInv, TypeOK
      <3>2. Facts(proc[q]) /\ (q \notin overtaken => Promise(proc[q]))
        BY DEF IInv
      <3>3. \A v \in Works : proc'[q] = v => (Facts(v)' => Facts(proc[q])') /\ (Promise(v)' => Promise(proc[q])')
        BY DEF Facts, Promise
      <3> QED
        BY <3>1, <3>2, <3>3, <1>4
    <2> QED
      BY <2>1, <2>2
  <1> QED
    BY <1>2, <1>3, <1>5 DEF IInv

LEMMA DecideKeeps ==
    ASSUME IInv, NEW p \in Procs, NEW w \in Works, Decide(p, w), Facts(w), Promise(w)
    PROVE  IInv'
  BY ProcKeeps DEF Decide

LEMMA RollBackKeeps ==
    ASSUME IInv, NEW p \in Procs, RollBack(p)
    PROVE  IInv'
  <1>1. Facts(Idle) /\ Promise(Idle) /\ Idle \in Works
    BY IdleWork DEF Facts, Promise
  <1> QED
    BY <1>1, ProcKeeps DEF RollBack

(* A request that is over: what it changes must not touch the facts of the *)
(* others, nor what was promised to those it does not overtake.            *)
LEMMA CommitKeeps ==
    ASSUME IInv, NEW p \in Procs, Busy(p), Commit(p),
           NEW r, r = proc[p].reseller,
           TypeOK => TypeOK', Fresh',
           \A v \in Works : Facts(v) => Facts(v)',
           \A v \in Works : Facts(v) /\ v.reseller # r /\ Promise(v) => Promise(v)'
    PROVE  IInv'
  <1>1. ASSUME NEW q \in Procs
        PROVE  Facts(proc[q])' /\ (q \notin overtaken => Promise(proc[q]))'
    <2> DEFINE v == proc'[q]
    <2>1. CASE q = p
      <3>1. proc'[q] = Idle
        BY <2>1 DEF IInv, TypeOK, Commit
      <3> QED
        BY <3>1, IdleWork DEF Facts, Promise
    <2>2. CASE q # p
      <3>1. proc'[q] = proc[q] /\ proc[q] \in Works
        BY <2>2 DEF IInv, TypeOK, Commit
      <3>2. Facts(proc[q]) /\ (q \notin overtaken => Promise(proc[q]))
        BY DEF IInv
      <3>3. \A u \in Works : proc'[q] = u => (Facts(u)' => Facts(proc[q])') /\ (Promise(u)' => Promise(proc[q])')
        BY DEF Facts, Promise
      <3>4. Facts(proc[q])'
        BY <3>1, <3>2, <3>3
      <3>5. CASE proc[q] = Idle
        <4>1. proc'[q].op = "none"
          BY <3>1, <3>5, IdleWork
        <4> QED
          BY <3>4, <4>1 DEF Promise
      <3>6. CASE proc[q] # Idle /\ q \notin overtaken'
        <4>1. q \notin overtaken /\ proc[q].reseller # r
          BY <2>2, <3>6 DEF Commit, Busy
        <4> QED
          BY <3>1, <3>2, <3>3, <3>4, <4>1
      <3> QED
        BY <3>4, <3>5, <3>6
    <2> QED
      BY <2>1, <2>2
  <1> QED
    BY <1>1 DEF IInv

(* A step of nobody's request. *)
LEMMA RestKeeps ==
    ASSUME IInv, UNCHANGED <<proc, overtaken>>, TypeOK', Fresh',
           \A v \in Works : Facts(v) => Facts(v)',
           \A v \in Works : Facts(v) /\ Promise(v) => Promise(v)'
    PROVE  IInv'
  <1>1. ASSUME NEW q \in Procs
        PROVE  Facts(proc[q])' /\ (q \notin overtaken => Promise(proc[q]))'
    <2>1. proc[q] \in Works /\ Facts(proc[q]) /\ (q \notin overtaken => Promise(proc[q]))
      BY DEF IInv, TypeOK
    <2>2. \A u \in Works : proc'[q] = u => (Facts(u)' => Facts(proc[q])') /\ (Promise(u)' => Promise(proc[q])')
      BY DEF Facts, Promise
    <2> QED
      BY <2>1, <2>2
  <1> QED
    BY <1>1 DEF IInv

---------------------------------------------------------------------------
(* The checks. *)

LEMMA DecideWork ==
    ASSUME NEW p \in Procs, NEW op, NEW r \in Resellers, NEW x \in Customers \cup Plans \cup {None},
           NEW limits \in Wanted, NEW name \in Names \cup Services \cup Verbs \cup {None},
           Decide(p, Work(op, r, x, limits, name))
    PROVE  Work(op, r, x, limits, name) \in Works
  <1>1. op \in Operations
    BY DEF Decide, Work
  <1> QED
    BY <1>1, WorkType

LEMMA RowFacts ==
    ASSUME TypeOK, Fresh, NEW c \in Customers, customer[c].admin # "absent"
    PROVE  /\ customer[c].owner \in Resellers
           /\ customer[c].limit \in [Services -> Limits \cup {0}]
           /\ reseller[customer[c].owner] # "absent"
  <1>1. customer[c] \in Rows
    BY DEF TypeOK
  <1>2. customer[c] # NoRows
    BY DEF NoRows
  <1>3. customer[c].owner \in Resellers
    BY <1>1, <1>2 DEF Rows, Fresh
  <1>4. reseller[customer[c].owner] # "absent"
    BY <1>3 DEF Fresh
  <1> QED
    BY <1>1, <1>3, <1>4 DEF Rows

LEMMA ResellerChecks ==
    ASSUME IInv, NEW p \in Procs, NEW r \in Resellers
    PROVE  /\ \A limits \in Wanted : ResellerUpdateCheck(p, r, limits) => IInv'
           /\ ResellerDeleteCheck(p, r) => IInv'
           /\ \A name \in Names : HostingPlanCreateCheck(p, r, name) => IInv'
           /\ \A limits \in [Services -> Limits] : CustomerCreateCheck(p, r, limits) => IInv'
  <1>1. ASSUME NEW limits \in Wanted, ResellerUpdateCheck(p, r, limits)
        PROVE  IInv'
    <2> DEFINE w == Work("resellerUpdate", r, None, limits, None)
    <2>1. Decide(p, w) /\ reseller[r] = "ok"
      BY <1>1 DEF ResellerUpdateCheck
    <2>2. w \in Works /\ w.op = "resellerUpdate" /\ w.reseller = r
      BY <2>1, DecideWork, WorkFields
    <2>3. Facts(w) /\ Promise(w)
      BY <2>1, <2>2 DEF Facts, Promise
    <2> QED
      BY <2>1, <2>2, <2>3, DecideKeeps
  <1>2. ASSUME ResellerDeleteCheck(p, r)
        PROVE  IInv'
    <2> DEFINE w == Work("resellerDelete", r, None, NoLimits, None)
    <2>1. Decide(p, w) /\ reseller[r] = "ok" /\ CustomersOf(r) = {}
      BY <1>2 DEF ResellerDeleteCheck
    <2>2. w \in Works /\ w.op = "resellerDelete" /\ w.reseller = r
      BY <2>1, DecideWork, WorkFields, WantedLimits
    <2>3. Facts(w) /\ Promise(w)
      BY <2>1, <2>2 DEF Facts, Promise
    <2> QED
      BY <2>1, <2>2, <2>3, DecideKeeps
  <1>3. ASSUME NEW name \in Names, HostingPlanCreateCheck(p, r, name)
        PROVE  IInv'
    <2> DEFINE w == Work("hostingPlanCreate", r, None, NoLimits, name)
    <2>1. Decide(p, w) /\ reseller[r] = "ok" /\ ~NameTaken(r, name, None)
      BY <1>3 DEF HostingPlanCreateCheck
    <2>2. w \in Works /\ w.op = "hostingPlanCreate" /\ w.reseller = r /\ w.name = name
      BY <2>1, DecideWork, WorkFields, WantedLimits
    <2>3. Facts(w) /\ Promise(w)
      BY <2>1, <2>2 DEF Facts, Promise
    <2> QED
      BY <2>1, <2>2, <2>3, DecideKeeps
  <1>4. ASSUME NEW limits \in [Services -> Limits], CustomerCreateCheck(p, r, limits)
        PROVE  IInv'
    <2> DEFINE w == Work("customerCreate", r, None, limits, None)
    <2>1. Decide(p, w) /\ reseller[r] = "ok"
      BY <1>4 DEF CustomerCreateCheck
    <2>2. w \in Works /\ w.op = "customerCreate" /\ w.reseller = r /\ w.limits = limits
      BY <2>1, DecideWork, WorkFields, WantedLimits
    <2>3. Facts(w) /\ Promise(w)
      BY <2>1, <2>2 DEF Facts, Promise
    <2> QED
      BY <2>1, <2>2, <2>3, DecideKeeps
  <1> QED
    BY <1>1, <1>2, <1>3, <1>4

LEMMA PlanChecks ==
    ASSUME IInv, NEW p \in Procs, NEW h \in Plans, NEW name \in Names,
           HostingPlanUpdateCheck(p, h, name)
    PROVE  IInv'
  <1> DEFINE r == plan[h].reseller
             w == Work("hostingPlanUpdate", r, h, NoLimits, name)
  <1>1. Decide(p, w) /\ reseller[r] = "ok" /\ ~NameTaken(r, name, h) /\ r # None
    BY DEF HostingPlanUpdateCheck
  <1>2. r \in Resellers /\ plan[h] # Unused
    BY <1>1, PlanKinds DEF IInv, TypeOK
  <1>3. w \in Works /\ w.op = "hostingPlanUpdate" /\ w.reseller = r /\ w.name = name /\ w.subject = h
    BY <1>1, <1>2, DecideWork, WorkFields, WantedLimits
  <1>4. Facts(w) /\ Promise(w)
    BY <1>1, <1>2, <1>3 DEF Facts, Promise
  <1> QED
    BY <1>1, <1>3, <1>4, DecideKeeps

LEMMA CustomerChecks ==
    ASSUME IInv, NEW p \in Procs, NEW c \in Customers
    PROVE  /\ \A limits \in [Services -> Limits] \cup {NoLimits}, writes \in SUBSET {"admin", "domain"} :
                 CustomerUpdateCheck(p, c, limits, writes) => IInv'
           /\ \A verb \in Verbs : CustomerSetStateCheck(p, c, verb) => IInv'
           /\ CustomerDeleteCheck(p, c) => IInv'
           /\ \A s \in Services : UseCheck(p, c, s) => IInv'
  <1> DEFINE r == customer[c].owner
  <1>0. IsCustomer(c) => r \in Resellers /\ reseller[r] # "absent"
    BY RowFacts DEF IInv, IsCustomer
  <1>1. ASSUME NEW limits \in [Services -> Limits] \cup {NoLimits}, NEW writes \in SUBSET {"admin", "domain"},
               CustomerUpdateCheck(p, c, limits, writes)
        PROVE  IInv'
    <2> DEFINE w == UpdateOf(c, limits, writes)
    <2>1. /\ Decide(p, w) /\ IsCustomer(c) /\ customer[c].domain \in {"ok", "disabled"}
          /\ limits # NoLimits => \A s \in Services : Fits(r, c, s, limits[s])
      BY <1>1 DEF CustomerUpdateCheck
    <2>2. limits \in Wanted
      BY WantedLimits
    <2>3. /\ w \in Works /\ w.op = "customerUpdate" /\ w.reseller = r /\ w.subject = c
          /\ w.limits = limits
      BY <1>0, <2>1, <2>2, UpdateWork
    <2> HIDE DEF w
    <2>4. Facts(w)
      BY <1>0, <2>1, <2>3 DEF Facts
    <2>5. ASSUME limits # NoLimits
          PROVE  Leaves(c, limits)
      <3>1. limits \in [Services -> Limits]
        BY <2>5
      <3>2. used[c] \in [Services -> 0..MaxUse] /\ MaxUse \in Nat
        BY Configured DEF IInv, TypeOK
      <3>3. \A s \in Services : Fits(r, c, s, limits[s])
        BY <2>1, <2>5
      <3>4. ASSUME NEW s \in Services
            PROVE  limits[s] \in Nat \cup {-1} /\ used[c][s] \in Nat
        <4>1. limits[s] \in Limits
          BY <3>1
        <4>2. used[c][s] \in 0..MaxUse
          BY <3>2
        <4>3. limits[s] \in Nat \cup {-1}
          BY <4>1, Configured
        <4>4. used[c][s] \in Nat
          BY <3>2, <4>2
        <4> QED
          BY <4>3, <4>4
      <3> QED
        BY <3>3, <3>4 DEF Fits, Leaves, WITHHELD, UNLIMITED
    <2>6. Promise(w)
      BY <2>1, <2>3, <2>5 DEF Promise
    <2> QED
      BY <2>1, <2>3, <2>4, <2>6, DecideKeeps
  <1>2. ASSUME CustomerDeleteCheck(p, c)
        PROVE  IInv'
    <2> DEFINE w == Work("customerDelete", r, c, NoLimits, None)
    <2>1. Decide(p, w) /\ IsCustomer(c)
      BY <1>2 DEF CustomerDeleteCheck
    <2>2. w \in Works /\ w.op = "customerDelete" /\ w.reseller = r /\ w.subject = c
      BY <1>0, <2>1, DecideWork, WorkFields, WantedLimits
    <2>3. Facts(w) /\ Promise(w)
      BY <1>0, <2>1, <2>2 DEF Facts, Promise
    <2> QED
      BY <2>1, <2>2, <2>3, DecideKeeps
  <1>4. ASSUME NEW verb \in Verbs, CustomerSetStateCheck(p, c, verb)
        PROVE  IInv'
    <2> DEFINE w == Work("customerSetState", r, c, NoLimits, verb)
    <2>1. Decide(p, w) /\ IsCustomer(c) /\ customer[c].domain \in {"ok", "disabled"}
      BY <1>4 DEF CustomerSetStateCheck
    <2>2. w \in Works /\ w.op = "customerSetState" /\ w.reseller = r /\ w.subject = c /\ w.name = verb
      BY <1>0, <2>1, DecideWork, WorkFields, WantedLimits
    <2>3. Facts(w) /\ Promise(w)
      BY <1>0, <2>1, <2>2 DEF Facts, Promise
    <2> QED
      BY <2>1, <2>2, <2>3, DecideKeeps
  <1>3. ASSUME NEW s \in Services, UseCheck(p, c, s)
        PROVE  IInv'
    <2> DEFINE w == Work("use", r, c, NoLimits, s)
    <2>1. Decide(p, w) /\ IsCustomer(c) /\ HasRoom(c, s)
      BY <1>3 DEF UseCheck
    <2>2. w \in Works /\ w.op = "use" /\ w.reseller = r /\ w.subject = c /\ w.name = s
      BY <1>0, <2>1, DecideWork, WorkFields, WantedLimits
    <2>3. Facts(w) /\ Promise(w)
      BY <1>0, <2>1, <2>2 DEF Facts, Promise
    <2> QED
      BY <2>1, <2>2, <2>3, DecideKeeps
  <1> QED
    BY <1>1, <1>2, <1>3, <1>4

---------------------------------------------------------------------------
(* The transactions. *)

LEMMA ProcType ==
    ASSUME TypeOK, NEW p \in Procs, Commit(p)
    PROVE  proc' \in [Procs -> Works] /\ overtaken' \subseteq Procs
  BY IdleWork DEF TypeOK, Commit

LEMMA ResellerUpdateKeeps ==
    ASSUME IInv, NEW p \in Procs, ResellerUpdateCommit(p)
    PROVE  IInv'
  <1> DEFINE r == proc[p].reseller
             limits == proc[p].limits
  <1>1. /\ Busy(p) /\ Commit(p)
        /\ UNCHANGED <<reseller, current, customer, used, plan>>
    BY DEF ResellerUpdateCommit, Doing
  <1>2. r \in Resellers /\ limits \in Wanted
    BY <1>1, IdleWork DEF Busy, IInv, TypeOK
  <1>3. max' \in [Resellers -> [Allowances -> Limits \cup {0}]]
    <2> DEFINE m == [s \in Allowances |-> IF s \in DOMAIN limits THEN limits[s] ELSE max[r][s]]
    <2>1. max[r] \in [Allowances -> Limits \cup {0}]
      BY <1>2 DEF IInv, TypeOK
    <2>2. m \in [Allowances -> Limits \cup {0}]
      BY <1>2, <2>1, WantedLimits
    <2>3. max' = [max EXCEPT ![r] = m] \/ max' = max
      BY DEF ResellerUpdateCommit
    <2> QED
      BY <2>2, <2>3 DEF IInv, TypeOK
  <1>4. TypeOK' /\ Fresh'
    BY <1>1, <1>3, ProcType DEF IInv, TypeOK, Fresh
  <1>5. \A v \in Works : (Facts(v) => Facts(v)') /\ (Promise(v) => Promise(v)')
    BY <1>1 DEF Facts, Promise, CustomersOf, NameTaken, PlansOf, Leaves, HasRoom
  <1> QED
    BY <1>1, <1>4, <1>5, CommitKeeps

LEMMA ResellerDeleteKeeps ==
    ASSUME IInv, NEW p \in Procs, ResellerDeleteCommit(p)
    PROVE  IInv'
  <1> DEFINE r == proc[p].reseller
  <1>1. /\ Busy(p) /\ Commit(p)
        /\ UNCHANGED <<max, current, customer, used>>
        /\ reseller' = [reseller EXCEPT ![r] = "gone"]
        /\ plan' = [h \in Plans |-> IF reseller[r] = "ok" /\ h \in PlansOf(r) THEN Deleted ELSE plan[h]]
    BY DEF ResellerDeleteCommit, Doing
  <1>2. r \in Resellers
    BY <1>1, IdleWork DEF Busy, IInv, TypeOK
  <1>3. TypeOK' /\ Fresh'
    BY <1>1, <1>2, ProcType DEF IInv, TypeOK, Fresh
  <1>4. ASSUME NEW v \in Works, Facts(v)
        PROVE  Facts(v)'
    <2>1. \A x \in Resellers : reseller'[x] = "absent" => reseller[x] = "absent"
      BY <1>1, <1>2 DEF IInv, TypeOK
    <2>2. \A h \in Plans : plan'[h] = plan[h] \/ plan'[h] = Deleted
      BY <1>1
    <2>3. v # Idle => v.reseller \in Resellers
      BY IdleWork
    <2> QED
      BY <1>1, <1>4, <2>1, <2>2, <2>3, PlanKinds DEF Facts
  <1>5. ASSUME NEW v \in Works, Facts(v), v.reseller # r, Promise(v)
        PROVE  Promise(v)'
    <2>1. CASE v = Idle
      BY <2>1, IdleWork DEF Promise
    <2>2. CASE v # Idle
      <3>1. v.reseller \in Resellers /\ v.reseller # None
        BY <2>2, IdleWork, Configured
      <3>2. reseller'[v.reseller] = reseller[v.reseller]
        BY <1>1, <1>2, <1>5, <3>1 DEF IInv, TypeOK
      <3>3. \A h \in Plans : plan'[h].reseller = v.reseller => plan'[h] = plan[h]
        BY <3>1, <1>1, PlanKinds
      <3>4. \A x : NameTaken(v.reseller, v.name, x)' => NameTaken(v.reseller, v.name, x)
        BY <3>3 DEF NameTaken, PlansOf
      <3>5. CustomersOf(v.reseller)' = CustomersOf(v.reseller)
        BY <1>1 DEF CustomersOf
      <3> QED
        BY <1>1, <1>5, <3>2, <3>4, <3>5 DEF Promise, Leaves, HasRoom
    <2> QED
      BY <2>1, <2>2
  <1> QED
    BY <1>1, <1>3, <1>4, <1>5, CommitKeeps

LEMMA HostingPlanCreateKeeps ==
    ASSUME IInv, NEW p \in Procs, NEW h \in Plans, HostingPlanCreateCommit(p, h)
    PROVE  IInv'
  <1> DEFINE r == proc[p].reseller
             name == proc[p].name
  <1>1. /\ Busy(p) /\ Commit(p) /\ plan[h] = Unused
        /\ UNCHANGED <<reseller, max, current, customer, used>>
        /\ plan' = [plan EXCEPT ![h] = [reseller |-> r, name |-> name]]
        /\ proc[p].op = "hostingPlanCreate"
    BY DEF HostingPlanCreateCommit, Doing
  <1>2. r \in Resellers /\ name \in Names
    BY <1>1, IdleWork DEF Busy, IInv, TypeOK, Facts
  <1>3. TypeOK' /\ Fresh'
    BY <1>1, <1>2, ProcType DEF IInv, TypeOK, Fresh
  <1>4. \A g \in Plans : plan'[g] = IF g = h THEN [reseller |-> r, name |-> name] ELSE plan[g]
    BY <1>1 DEF IInv, TypeOK
  <1>5. \A v \in Works : Facts(v) => Facts(v)'
    BY <1>1, <1>4 DEF Facts
  <1>6. ASSUME NEW v \in Works, v.reseller # r, Promise(v)
        PROVE  Promise(v)'
    <2>1. \A x : NameTaken(v.reseller, v.name, x)' => NameTaken(v.reseller, v.name, x)
      BY <1>4, <1>6 DEF NameTaken, PlansOf
    <2>2. CustomersOf(v.reseller)' = CustomersOf(v.reseller)
      BY <1>1 DEF CustomersOf
    <2> QED
      BY <1>1, <1>6, <2>1, <2>2 DEF Promise, Leaves, HasRoom
  <1> QED
    BY <1>1, <1>3, <1>5, <1>6, CommitKeeps

LEMMA HostingPlanUpdateKeeps ==
    ASSUME IInv, NEW p \in Procs, HostingPlanUpdateCommit(p)
    PROVE  IInv'
  <1> DEFINE r == proc[p].reseller
             h == proc[p].subject
             name == proc[p].name
  <1>1. /\ Busy(p) /\ Commit(p)
        /\ UNCHANGED <<reseller, max, current, customer, used>>
        /\ plan' = IF plan[h].reseller # None THEN [plan EXCEPT ![h].name = name] ELSE plan
        /\ proc[p].op = "hostingPlanUpdate"
    BY DEF HostingPlanUpdateCommit, Doing
  <1>2. /\ r \in Resellers /\ name \in Names /\ h \in Plans
        /\ plan[h] # Unused /\ plan[h].reseller \in {r, None}
    BY <1>1, IdleWork DEF Busy, IInv, TypeOK, Facts
  <1>3. \A g \in Plans : plan'[g] = IF g = h /\ plan[h].reseller # None
                                    THEN [plan[h] EXCEPT !.name = name] ELSE plan[g]
    BY <1>1, <1>2 DEF IInv, TypeOK
  <1>4. plan[h].reseller # None => [plan[h] EXCEPT !.name = name] = [reseller |-> r, name |-> name]
    BY <1>2, PlanKinds DEF IInv, TypeOK
  <1>5. \A g \in Plans : \/ plan'[g] = plan[g]
                         \/ plan[g].reseller = r /\ plan'[g] = [reseller |-> r, name |-> name]
    BY <1>2, <1>3, <1>4
  <1>6. [reseller |-> r, name |-> name] \in [reseller : Resellers, name : Names]
    BY <1>2
  <1>7. DOMAIN plan' = Plans /\ \A g \in Plans : plan'[g] \in [reseller : Resellers, name : Names] \cup {Unused, Deleted}
    BY <1>1, <1>5, <1>6 DEF IInv, TypeOK
  <1>8. plan' \in [Plans -> [reseller : Resellers, name : Names] \cup {Unused, Deleted}]
    BY <1>1, <1>2, <1>5, <1>6, <1>7 DEF IInv, TypeOK
  <1>9. TypeOK' /\ Fresh'
    BY <1>1, <1>8, ProcType DEF IInv, TypeOK, Fresh
  <1>10. [reseller |-> r, name |-> name] # Unused
    BY <1>6, PlanKinds
  <1>11. \A v \in Works : Facts(v) => Facts(v)'
    BY <1>1, <1>5, <1>10 DEF Facts
  <1>12. ASSUME NEW v \in Works, v.reseller # r, Promise(v)
        PROVE  Promise(v)'
    <2>1. \A x : NameTaken(v.reseller, v.name, x)' => NameTaken(v.reseller, v.name, x)
      BY <1>5, <1>12 DEF NameTaken, PlansOf
    <2>2. CustomersOf(v.reseller)' = CustomersOf(v.reseller)
      BY <1>1 DEF CustomersOf
    <2> QED
      BY <1>1, <1>12, <2>1, <2>2 DEF Promise, Leaves, HasRoom
  <1> QED
    BY <1>1, <1>9, <1>11, <1>12, CommitKeeps

LEMMA HostingPlanDeleteKeeps ==
    ASSUME IInv, NEW h \in Plans, HostingPlanDelete(h)
    PROVE  IInv'
  <1>1. /\ UNCHANGED <<reseller, max, current, customer, used, proc, overtaken>>
        /\ plan' = [plan EXCEPT ![h] = Deleted] /\ plan[h].reseller # None
    BY DEF HostingPlanDelete
  <1>2. \A g \in Plans : plan'[g] = plan[g] \/ plan'[g] = Deleted
    BY <1>1 DEF IInv, TypeOK
  <1>3. TypeOK' /\ Fresh'
    BY <1>1 DEF IInv, TypeOK, Fresh
  <1>4. \A v \in Works : Facts(v) => Facts(v)'
    BY <1>1, <1>2, PlanKinds DEF Facts
  <1>5. ASSUME NEW v \in Works, Promise(v)
        PROVE  Promise(v)'
    <2>1. CASE v = Idle
      BY <2>1, IdleWork DEF Promise
    <2>2. CASE v # Idle
      <3>1. v.reseller # None
        BY <2>2, IdleWork, Configured
      <3>2. \A x : NameTaken(v.reseller, v.name, x)' => NameTaken(v.reseller, v.name, x)
        BY <1>2, <3>1, PlanKinds DEF NameTaken, PlansOf
      <3>3. CustomersOf(v.reseller)' = CustomersOf(v.reseller)
        BY <1>1 DEF CustomersOf
      <3> QED
        BY <1>1, <1>5, <3>2, <3>3 DEF Promise, Leaves, HasRoom
    <2> QED
      BY <2>1, <2>2
  <1> QED
    BY <1>1, <1>3, <1>4, <1>5, RestKeeps

LEMMA RecountKeeps ==
    ASSUME IInv, NEW r \in Resellers, Recount(r), reseller[r] # "absent", customer' \in [Customers -> Rows]
    PROVE  /\ current' \in [Resellers -> [Allowances -> Nat]]
           /\ \A x \in Resellers : reseller[x] = "absent" => current'[x] = current[x]
  <1>1. Totals(r, customer') \in [Allowances -> Nat]
    BY TotalsAreNumbers
  <1> QED
    BY <1>1 DEF IInv, TypeOK, Recount

LEMMA CustomerCreateKeeps ==
    ASSUME IInv, NEW p \in Procs, NEW c \in Customers, CustomerCreateCommit(p, c)
    PROVE  IInv'
  <1> DEFINE r == proc[p].reseller
             row == [owner |-> r, admin |-> "toadd", domain |-> "toadd", limit |-> proc[p].limits]
  <1>1. /\ Busy(p) /\ Commit(p) /\ customer[c] = NoRows
        /\ UNCHANGED <<reseller, max, used, plan>>
        /\ customer' = [customer EXCEPT ![c] = row]
        /\ Recount(r)
        /\ proc[p].op = "customerCreate"
    BY DEF CustomerCreateCommit, Doing
  <1>2. r \in Resellers /\ reseller[r] # "absent" /\ proc[p].limits \in [Services -> Limits]
    BY <1>1, IdleWork DEF Busy, IInv, TypeOK, Facts
  <1>3. row \in Rows
    BY <1>2 DEF Rows, AccountStatuses, DomainStatuses
  <1>3a. customer' \in [Customers -> Rows]
    BY <1>1, <1>3 DEF IInv, TypeOK
  <1>4. current' \in [Resellers -> [Allowances -> Nat]] /\ \A x \in Resellers : reseller[x] = "absent" => current'[x] = current[x]
    BY <1>1, <1>2, <1>3a, RecountKeeps
  <1>5. TypeOK'
    BY <1>1, <1>3, <1>4, ProcType DEF IInv, TypeOK
  <1>6. \A b \in Customers : customer'[b] = IF b = c THEN row ELSE customer[b]
    BY <1>1 DEF IInv, TypeOK
  <1>7. row # NoRows /\ row.owner # None
    BY <1>2, Configured DEF NoRows
  <1>8. Fresh'
    BY <1>1, <1>2, <1>4, <1>6, <1>7 DEF IInv, Fresh
  <1>9. customer[c].owner = None
    BY <1>1 DEF NoRows
  <1>10. ASSUME NEW v \in Works, Facts(v)
         PROVE  Facts(v)'
    <2>1. v.op \in {"customerUpdate", "customerSetState", "customerDelete", "use"} => v.subject # c
      BY <1>9, <1>10, IdleWork, Configured DEF Facts
    <2> QED
      BY <1>1, <1>6, <1>10, <2>1 DEF Facts
  <1>11. ASSUME NEW v \in Works, Facts(v), v.reseller # r, Promise(v)
         PROVE  Promise(v)'
    <2>1. v.op \in {"customerUpdate", "customerSetState", "customerDelete", "use"} => v.subject # c /\ v.subject \in Customers
      BY <1>9, <1>11, IdleWork, Configured DEF Facts
    <2>2. CustomersOf(v.reseller) = {} => CustomersOf(v.reseller)' = {}
      BY <1>6, <1>11 DEF CustomersOf
    <2>3. \A x : NameTaken(v.reseller, v.name, x)' <=> NameTaken(v.reseller, v.name, x)
      BY <1>1 DEF NameTaken, PlansOf
    <2> QED
      BY <1>1, <1>6, <1>11, <2>1, <2>2, <2>3 DEF Promise, Leaves, HasRoom
  <1> QED
    BY <1>1, <1>5, <1>8, <1>10, <1>11, CommitKeeps

LEMMA FreshKeeps ==
    ASSUME Fresh,
           \A r \in Resellers : reseller'[r] = "absent" => reseller[r] = "absent" /\ current'[r] = current[r],
           NEW c \in Customers,
           customer'[c].owner = customer[c].owner, customer'[c] # NoRows, customer'[c].owner # None,
           \A b \in Customers : b # c => customer'[b] = customer[b] /\ used'[b] = used[b]
    PROVE  Fresh'
  <1>1. ASSUME NEW r \in Resellers, reseller'[r] = "absent"
        PROVE  current'[r] = [s \in Allowances |-> 0] /\ \A b \in Customers : customer'[b].owner # r
    BY <1>1 DEF Fresh
  <1>2. ASSUME NEW b \in Customers, customer'[b] = NoRows
        PROVE  used'[b] = [s \in Services |-> 0]
    BY <1>2 DEF Fresh
  <1>3. ASSUME NEW b \in Customers, customer'[b].owner = None
        PROVE  customer'[b] = NoRows
    BY <1>3 DEF Fresh
  <1> QED
    BY <1>1, <1>2, <1>3 DEF Fresh

LEMMA CustomerUpdateKeeps ==
    ASSUME IInv, NEW p \in Procs, CustomerUpdateCommit(p)
    PROVE  IInv'
  <1> DEFINE r == proc[p].reseller
             c == proc[p].subject
             writes == proc[p].writes
             limit == IF proc[p].limits = NoLimits THEN customer[c].limit ELSE proc[p].limits
  <1>1. /\ Busy(p) /\ Commit(p) /\ IsCustomer(c)
        /\ UNCHANGED <<reseller, max, used, plan>>
        /\ customer' = [customer EXCEPT ![c].limit = IF proc[p].limits = NoLimits THEN @ ELSE proc[p].limits,
                                        ![c].admin = IF "admin" \in writes THEN "tochangepwd" ELSE @,
                                        ![c].domain = IF "domain" \in writes THEN "tochange" ELSE @]
        /\ Recount(customer[c].owner)
        /\ proc[p].op = "customerUpdate"
    BY DEF CustomerUpdateCommit, Doing
  <1>2. /\ r \in Resellers /\ reseller[r] # "absent"
        /\ c \in Customers /\ customer[c].owner = r
        /\ proc[p].limits \in [Services -> Limits] \cup {NoLimits}
    BY <1>1, IdleWork DEF Busy, IInv, TypeOK, Facts
  <1>3. customer[c] \in Rows
    BY <1>2 DEF IInv, TypeOK
  <1>4. limit \in [Services -> Limits \cup {0}]
    BY <1>2, <1>3 DEF Rows
  <1>5. \A b \in Customers : b # c => customer'[b] = customer[b]
    BY <1>1, <1>2 DEF IInv, TypeOK
  <1>6. customer'[c] = [owner |-> r,
                        admin |-> IF "admin" \in writes THEN "tochangepwd" ELSE customer[c].admin,
                        domain |-> IF "domain" \in writes THEN "tochange" ELSE customer[c].domain,
                        limit |-> limit]
    BY <1>1, <1>2, <1>3 DEF IInv, TypeOK, Rows
  <1>7. customer'[c] \in Rows
    BY <1>2, <1>3, <1>4, <1>6 DEF Rows, AccountStatuses, DomainStatuses
  <1>8. customer' \in [Customers -> Rows]
    BY <1>1, <1>2, <1>5, <1>7 DEF IInv, TypeOK
  <1>9. current' \in [Resellers -> [Allowances -> Nat]] /\ \A x \in Resellers : reseller[x] = "absent" => current'[x] = current[x]
    BY <1>1, <1>2, <1>8, RecountKeeps
  <1>10. TypeOK'
    BY <1>1, <1>8, <1>9, ProcType DEF IInv, TypeOK
  <1>11. customer'[c] # NoRows /\ customer'[c].owner = customer[c].owner
    BY <1>2, <1>6, Configured DEF NoRows
  <1>12. r # None
    BY <1>2, Configured
  <1>13. Fresh'
    <2>1. reseller' = reseller /\ used' = used
      BY <1>1
    <2> QED
      BY <1>2, <1>5, <1>9, <1>11, <1>12, <2>1, FreshKeeps DEF IInv
  <1>14. \A v \in Works : Facts(v) => Facts(v)'
    BY <1>1, <1>5, <1>11 DEF Facts
  <1>15. ASSUME NEW v \in Works, Facts(v), v.reseller # r, Promise(v)
         PROVE  Promise(v)'
    <2>1. v.op \in {"customerUpdate", "customerSetState", "customerDelete", "use"} => v.subject # c /\ v.subject \in Customers
      BY <1>2, <1>15 DEF Facts
    <2>2. CustomersOf(v.reseller) = {} => CustomersOf(v.reseller)' = {}
      BY <1>2, <1>5, <1>11, <1>15 DEF CustomersOf
    <2>3. \A x : NameTaken(v.reseller, v.name, x)' <=> NameTaken(v.reseller, v.name, x)
      BY <1>1 DEF NameTaken, PlansOf
    <2> QED
      BY <1>1, <1>5, <1>15, <2>1, <2>2, <2>3 DEF Promise, Leaves, HasRoom
  <1> QED
    BY <1>1, <1>10, <1>13, <1>14, <1>15, CommitKeeps

(* One status changes, and no counter. *)
LEMMA CustomerSetStateKeeps ==
    ASSUME IInv, NEW p \in Procs, CustomerSetStateCommit(p)
    PROVE  IInv'
  <1> DEFINE r == proc[p].reseller
             c == proc[p].subject
             domain == IF customer[c].domain = "absent" THEN "absent" ELSE proc[p].name
  <1>1. /\ Busy(p) /\ Commit(p)
        /\ UNCHANGED <<reseller, max, current, used, plan>>
        /\ customer' = [customer EXCEPT ![c].domain = IF @ = "absent" THEN @ ELSE proc[p].name]
        /\ proc[p].op = "customerSetState"
    BY DEF CustomerSetStateCommit, Doing
  <1>2. /\ r \in Resellers /\ reseller[r] # "absent"
        /\ c \in Customers /\ customer[c].owner = r
        /\ proc[p].name \in Verbs
    BY <1>1, IdleWork DEF Busy, IInv, TypeOK, Facts
  <1>3. customer[c] \in Rows
    BY <1>2 DEF IInv, TypeOK
  <1>4. \A b \in Customers : b # c => customer'[b] = customer[b]
    BY <1>1, <1>2 DEF IInv, TypeOK
  <1>5. customer'[c] = [owner |-> r, admin |-> customer[c].admin, domain |-> domain, limit |-> customer[c].limit]
    BY <1>1, <1>2, <1>3 DEF IInv, TypeOK, Rows
  <1>6. customer'[c] \in Rows
    BY <1>2, <1>3, <1>5 DEF Rows, DomainStatuses, Verbs
  <1>7. customer' \in [Customers -> Rows]
    BY <1>1, <1>2, <1>4, <1>6 DEF IInv, TypeOK
  <1>8. TypeOK'
    BY <1>1, <1>7, ProcType DEF IInv, TypeOK
  <1>9. customer'[c] # NoRows /\ customer'[c].owner = customer[c].owner /\ r # None
    BY <1>2, <1>5, Configured DEF NoRows
  <1>10. Fresh'
    BY <1>1, <1>2, <1>4, <1>9, FreshKeeps DEF IInv
  <1>11. \A v \in Works : Facts(v) => Facts(v)'
    BY <1>1, <1>4, <1>9 DEF Facts
  <1>12. ASSUME NEW v \in Works, Facts(v), v.reseller # r, Promise(v)
         PROVE  Promise(v)'
    <2>1. v.op \in {"customerUpdate", "customerSetState", "customerDelete", "use"} =>
             v.subject # c /\ v.subject \in Customers
      BY <1>2, <1>12 DEF Facts
    <2>2. CustomersOf(v.reseller) = {} => CustomersOf(v.reseller)' = {}
      BY <1>2, <1>4, <1>9, <1>12 DEF CustomersOf
    <2>3. \A x : NameTaken(v.reseller, v.name, x)' <=> NameTaken(v.reseller, v.name, x)
      BY <1>1 DEF NameTaken, PlansOf
    <2> QED
      BY <1>1, <1>4, <1>12, <2>1, <2>2, <2>3 DEF Promise, Leaves, HasRoom
  <1> QED
    BY <1>1, <1>8, <1>10, <1>11, <1>12, CommitKeeps

LEMMA CustomerDeleteKeeps ==
    ASSUME IInv, NEW p \in Procs, CustomerDeleteCommit(p)
    PROVE  IInv'
  <1> DEFINE r == proc[p].reseller
             c == proc[p].subject
  <1>1. /\ Busy(p) /\ Commit(p)
        /\ UNCHANGED <<reseller, max, plan>>
        /\ proc[p].op = "customerDelete"
    BY DEF CustomerDeleteCommit, Doing
  <1>2. /\ r \in Resellers /\ reseller[r] # "absent"
        /\ c \in Customers /\ customer[c].owner = r
    BY <1>1, IdleWork DEF Busy, IInv, TypeOK, Facts
  <1>3. CASE customer[c].admin = "absent"
    <2>1. UNCHANGED <<reseller, max, current, customer, used, plan>>
      BY <1>1, <1>3 DEF CustomerDeleteCommit
    <2>2. TypeOK' /\ Fresh'
      BY <1>1, <2>1, ProcType DEF IInv, TypeOK, Fresh
    <2>3. \A v \in Works : (Facts(v) => Facts(v)') /\ (Promise(v) => Promise(v)')
      BY <2>1 DEF Facts, Promise, CustomersOf, NameTaken, PlansOf, Leaves, HasRoom
    <2> QED
      BY <1>1, <2>2, <2>3, CommitKeeps
  <1>4. CASE customer[c].admin # "absent"
    <2> DEFINE domain == IF customer[c].domain = "absent" THEN "absent" ELSE "todelete"
               none == [s \in Services |-> 0]
    <2>1. /\ customer' = [customer EXCEPT ![c].admin = "todelete",
                                          ![c].domain = IF @ = "absent" THEN @ ELSE "todelete"]
          /\ used' = [used EXCEPT ![c] = none]
          /\ Recount(customer[c].owner)
      BY <1>4 DEF CustomerDeleteCommit
    <2>2. customer[c] \in Rows
      BY <1>2 DEF IInv, TypeOK
    <2>3. \A b \in Customers : b # c => customer'[b] = customer[b] /\ used'[b] = used[b]
      BY <1>2, <2>1 DEF IInv, TypeOK
    <2>4. customer'[c] = [owner |-> r, admin |-> "todelete", domain |-> domain, limit |-> customer[c].limit]
      BY <1>2, <2>1, <2>2 DEF IInv, TypeOK, Rows
    <2>5. used'[c] = none
      BY <1>2, <2>1 DEF IInv, TypeOK
    <2>6. customer'[c] \in Rows
      BY <1>2, <2>2, <2>4 DEF Rows, AccountStatuses, DomainStatuses
    <2>7. customer' \in [Customers -> Rows]
      BY <1>2, <2>1, <2>3, <2>6 DEF IInv, TypeOK
    <2>8. used' \in [Customers -> [Services -> 0..MaxUse]]
      BY <1>2, <2>1, Configured DEF IInv, TypeOK
    <2>9. current' \in [Resellers -> [Allowances -> Nat]] /\ \A x \in Resellers : reseller[x] = "absent" => current'[x] = current[x]
      BY <1>2, <2>1, <2>7, RecountKeeps
    <2>10. TypeOK'
      BY <1>1, <2>7, <2>8, <2>9, ProcType DEF IInv, TypeOK
    <2>11. customer'[c] # NoRows /\ customer'[c].owner = customer[c].owner /\ r # None
      BY <1>2, <2>4, Configured DEF NoRows
    <2>12. Fresh'
      <3>1. reseller' = reseller
        BY <1>1
      <3> QED
        BY <1>2, <2>3, <2>9, <2>11, <3>1, FreshKeeps DEF IInv
    <2>13. \A v \in Works : Facts(v) => Facts(v)'
      BY <1>1, <2>3, <2>11 DEF Facts
    <2>14. ASSUME NEW v \in Works, Facts(v), v.reseller # r, Promise(v)
           PROVE  Promise(v)'
      <3>1. v.op \in {"customerUpdate", "customerSetState", "customerDelete", "use"} => v.subject # c /\ v.subject \in Customers
        BY <1>2, <2>14 DEF Facts
      <3>2. CustomersOf(v.reseller) = {} => CustomersOf(v.reseller)' = {}
        BY <1>2, <2>3, <2>11, <2>14 DEF CustomersOf
      <3>3. \A x : NameTaken(v.reseller, v.name, x)' <=> NameTaken(v.reseller, v.name, x)
        BY <1>1 DEF NameTaken, PlansOf
      <3> QED
        BY <1>1, <2>3, <2>14, <3>1, <3>2, <3>3 DEF Promise, Leaves, HasRoom
    <2> QED
      BY <1>1, <2>10, <2>12, <2>13, <2>14, CommitKeeps
  <1> QED
    BY <1>3, <1>4

LEMMA UseKeeps ==
    ASSUME IInv, NEW p \in Procs, UseCommit(p)
    PROVE  IInv'
  <1> DEFINE r == proc[p].reseller
             c == proc[p].subject
             s == proc[p].name
  <1>1. /\ Busy(p) /\ Commit(p) /\ used[c][s] < MaxUse
        /\ UNCHANGED <<reseller, max, current, customer, plan>>
        /\ used' = [used EXCEPT ![c][s] = @ + 1]
        /\ proc[p].op = "use"
    BY DEF UseCommit, Doing
  <1>2. /\ r \in Resellers /\ c \in Customers /\ customer[c].owner = r /\ s \in Services
    BY <1>1, IdleWork DEF Busy, IInv, TypeOK, Facts
  <1>3. used[c][s] + 1 \in 0..MaxUse
    BY <1>1, <1>2, Configured DEF IInv, TypeOK
  <1>4. used' \in [Customers -> [Services -> 0..MaxUse]]
    BY <1>1, <1>2, <1>3 DEF IInv, TypeOK
  <1>5. \A b \in Customers : b # c => used'[b] = used[b]
    BY <1>1, <1>2 DEF IInv, TypeOK
  <1>6. r # None /\ customer[c] # NoRows
    BY <1>2, Configured DEF NoRows
  <1>7. TypeOK' /\ Fresh'
    BY <1>1, <1>4, <1>5, <1>6, ProcType DEF IInv, TypeOK, Fresh
  <1>8. \A v \in Works : Facts(v) => Facts(v)'
    BY <1>1 DEF Facts
  <1>9. ASSUME NEW v \in Works, Facts(v), v.reseller # r, Promise(v)
        PROVE  Promise(v)'
    <2>1. v.op \in {"customerUpdate", "customerSetState", "customerDelete", "use"} => v.subject # c /\ v.subject \in Customers
      BY <1>2, <1>9 DEF Facts
    <2>2. CustomersOf(v.reseller)' = CustomersOf(v.reseller)
      BY <1>1 DEF CustomersOf
    <2>3. \A x : NameTaken(v.reseller, v.name, x)' <=> NameTaken(v.reseller, v.name, x)
      BY <1>1 DEF NameTaken, PlansOf
    <2> QED
      BY <1>1, <1>5, <1>9, <2>1, <2>2, <2>3 DEF Promise, Leaves, HasRoom
  <1> QED
    BY <1>1, <1>7, <1>8, <1>9, CommitKeeps

---------------------------------------------------------------------------
(* The steps that belong to no request. *)

LEMMA ResellerCreateKeeps ==
    ASSUME IInv, NEW r \in Resellers, NEW limits \in [Allowances -> Limits], ResellerCreate(r, limits)
    PROVE  IInv'
  <1>1. /\ reseller[r] = "absent"
        /\ reseller' = [reseller EXCEPT ![r] = "ok"]
        /\ max' = [max EXCEPT ![r] = limits]
        /\ UNCHANGED <<current, customer, used, plan, proc, overtaken>>
    BY DEF ResellerCreate
  <1>2. \A x \in Resellers : x # r => reseller'[x] = reseller[x]
    BY <1>1 DEF IInv, TypeOK
  <1>3. reseller'[r] = "ok"
    BY <1>1 DEF IInv, TypeOK
  <1>4. TypeOK'
    BY <1>1 DEF IInv, TypeOK
  <1>5. Fresh'
    BY <1>1, <1>2, <1>3 DEF IInv, Fresh
  <1>6. \A v \in Works : Facts(v) => Facts(v)'
    BY <1>1, <1>2, IdleWork DEF Facts
  <1>7. ASSUME NEW v \in Works, Facts(v), Promise(v)
        PROVE  Promise(v)'
    <2>1. v = Idle \/ reseller'[v.reseller] = reseller[v.reseller]
      BY <1>1, <1>2, <1>7, IdleWork DEF Facts
    <2>2. CustomersOf(v.reseller)' = CustomersOf(v.reseller)
      BY <1>1 DEF CustomersOf
    <2>3. \A x : NameTaken(v.reseller, v.name, x)' <=> NameTaken(v.reseller, v.name, x)
      BY <1>1 DEF NameTaken, PlansOf
    <2> QED
      BY <1>1, <1>7, <2>1, <2>2, <2>3, IdleWork DEF Promise, Leaves, HasRoom
  <1> QED
    BY <1>1, <1>4, <1>5, <1>6, <1>7, RestKeeps

LEMMA GiveUpKeeps ==
    ASSUME IInv, NEW c \in Customers, NEW s \in Services, GiveUp(c, s)
    PROVE  IInv'
  <1>1. /\ used[c][s] > 0
        /\ used' = [used EXCEPT ![c][s] = @ - 1]
        /\ UNCHANGED <<reseller, max, current, customer, plan, proc, overtaken>>
    BY DEF GiveUp
  <1>2. used[c] \in [Services -> 0..MaxUse] /\ MaxUse \in Nat
    BY Configured DEF IInv, TypeOK
  <1>3. used[c][s] \in Nat /\ used[c][s] - 1 \in 0..MaxUse
    BY <1>1, <1>2
  <1>4. used' \in [Customers -> [Services -> 0..MaxUse]]
    BY <1>1, <1>3 DEF IInv, TypeOK
  <1>5. \A b \in Customers : b # c => used'[b] = used[b]
    BY <1>1 DEF IInv, TypeOK
  <1>6. \A t \in Services : used'[c][t] = IF t = s THEN used[c][t] - 1 ELSE used[c][t]
    BY <1>1, <1>2 DEF IInv, TypeOK
  <1>7. customer[c] # NoRows
    <2>1. ASSUME used[c] = [t \in Services |-> 0]
          PROVE  FALSE
      <3>1. used[c][s] = 0
        BY <2>1
      <3> QED
        BY <1>1, <3>1
    <2> QED
      BY <2>1 DEF IInv, Fresh
  <1>8. TypeOK' /\ Fresh'
    BY <1>1, <1>4, <1>5, <1>7 DEF IInv, TypeOK, Fresh
  <1>9. \A v \in Works : Facts(v) => Facts(v)'
    BY <1>1 DEF Facts
  <1>10. ASSUME NEW v \in Works, Facts(v), Promise(v)
         PROVE  Promise(v)'
    <2>1. \A b \in Customers, t \in Services :
            /\ used'[b][t] <= used[b][t]
            /\ used[b][t] = 0 => used'[b][t] = 0
            /\ used[b][t] \in Nat /\ used'[b][t] \in Nat
      <3> SUFFICES ASSUME NEW b \in Customers, NEW t \in Services
                   PROVE  /\ used'[b][t] <= used[b][t]
                          /\ used[b][t] = 0 => used'[b][t] = 0
                          /\ used[b][t] \in Nat /\ used'[b][t] \in Nat
        OBVIOUS
      <3>1. used[b][t] \in 0..MaxUse /\ used'[b][t] \in 0..MaxUse
        BY <1>4 DEF IInv, TypeOK
      <3>2. used[b][t] \in Nat /\ used'[b][t] \in Nat
        BY <3>1, <1>2
      <3> QED
        BY <1>1, <1>5, <1>6, <3>2
    <2>2. \A b \in Customers, t \in Services : customer[b].limit[t] \in Int
      BY Numbers DEF IInv, TypeOK
    <2>3. v.op = "use" => v.subject \in Customers /\ v.name \in Services
      BY <1>10 DEF Facts
    <2>4. v.op = "use" => HasRoom(v.subject, v.name)'
      <3> SUFFICES ASSUME v.op = "use"
                   PROVE  HasRoom(v.subject, v.name)'
        OBVIOUS
      <3> DEFINE b == v.subject
                 t == v.name
      <3>1. /\ used'[b][t] <= used[b][t]
            /\ used[b][t] \in Nat /\ used'[b][t] \in Nat
            /\ customer[b].limit[t] \in Int
        BY <2>1, <2>2, <2>3
      <3>2. customer[b].limit[t] = UNLIMITED \/ used[b][t] < customer[b].limit[t]
        BY <1>10 DEF Promise, HasRoom
      <3>3. customer[b].limit[t] = UNLIMITED \/ used'[b][t] < customer[b].limit[t]
        <4> HIDE DEF b, t
        <4> QED
          BY <3>1, <3>2
      <3> QED
        BY <1>1, <3>3 DEF HasRoom
    <2>5. v.op = "customerUpdate" /\ v.limits # NoLimits => Leaves(v.subject, v.limits)'
      <3> SUFFICES ASSUME v.op = "customerUpdate", v.limits # NoLimits, NEW t \in Services
                   PROVE  \/ customer[v.subject].limit[t] = WITHHELD
                          \/ /\ v.limits[t] = WITHHELD => used'[v.subject][t] = 0
                             /\ v.limits[t] \notin {WITHHELD, UNLIMITED} => used'[v.subject][t] <= v.limits[t]
        BY <1>1 DEF Leaves
      <3>1. v.subject \in Customers /\ v.limits \in [Services -> Limits]
        BY <1>10 DEF Facts
      <3>2. v.limits[t] \in Int
        <4>1. v.limits[t] \in Limits
          BY <3>1
        <4>2. Limits \subseteq Nat \cup {-1}
          BY Configured
        <4>3. v.limits[t] \in Nat \/ v.limits[t] = -1
          BY <4>1, <4>2
        <4> QED
          BY <4>3
      <3>3. \/ customer[v.subject].limit[t] = WITHHELD
            \/ /\ v.limits[t] = WITHHELD => used[v.subject][t] = 0
               /\ v.limits[t] \notin {WITHHELD, UNLIMITED} => used[v.subject][t] <= v.limits[t]
        BY <1>10 DEF Promise, Leaves
      <3>4. /\ used'[v.subject][t] <= used[v.subject][t]
            /\ used[v.subject][t] = 0 => used'[v.subject][t] = 0
            /\ used[v.subject][t] \in Nat /\ used'[v.subject][t] \in Nat
        BY <2>1, <3>1
      <3>5. v.limits[t] \notin {WITHHELD, UNLIMITED} /\ used[v.subject][t] <= v.limits[t]
               => used'[v.subject][t] <= v.limits[t]
        BY <3>2, <3>4
      <3> QED
        BY <3>3, <3>4, <3>5
    <2>6. CustomersOf(v.reseller)' = CustomersOf(v.reseller)
      BY <1>1 DEF CustomersOf
    <2>7. \A x : NameTaken(v.reseller, v.name, x)' <=> NameTaken(v.reseller, v.name, x)
      BY <1>1 DEF NameTaken, PlansOf
    <2> QED
      BY <1>1, <1>10, <2>4, <2>5, <2>6, <2>7 DEF Promise
  <1> QED
    BY <1>1, <1>8, <1>9, <1>10, RestKeeps

(* The daemon settles one of the two statuses, or leaves it with an error. *)
LEMMA Settled ==
    ASSUME TypeOK, NEW c \in Customers, Settle(c)
    PROVE  /\ UNCHANGED <<reseller, max, current, used, plan, proc, overtaken>>
           /\ customer' \in [Customers -> Rows]
           /\ \A b \in Customers : b # c => customer'[b] = customer[b]
           /\ customer'[c].owner = customer[c].owner /\ customer'[c].limit = customer[c].limit
           /\ \/ /\ customer[c].admin \in Pending
                 /\ customer'[c].admin \in {Outcome(customer[c].admin), "error"}
                 /\ customer'[c].domain = customer[c].domain
              \/ /\ customer[c].domain \in Pending
                 /\ customer'[c].domain \in {Outcome(customer[c].domain), "error"}
                 /\ customer'[c].admin = customer[c].admin
  <1>1. customer[c] \in Rows /\ customer \in [Customers -> Rows]
    BY DEF TypeOK
  <1>2. UNCHANGED <<reseller, max, current, used, plan, proc, overtaken>>
    BY DEF Settle
  <1>3. ASSUME customer[c].admin \in Pending, NEW new \in {Outcome(customer[c].admin), "error"},
               customer' = [customer EXCEPT ![c].admin = new]
        PROVE  /\ customer' \in [Customers -> Rows]
               /\ \A b \in Customers : b # c => customer'[b] = customer[b]
               /\ customer'[c].owner = customer[c].owner /\ customer'[c].limit = customer[c].limit
               /\ customer'[c].admin = new /\ customer'[c].domain = customer[c].domain
    <2>1. customer'[c] = [customer[c] EXCEPT !.admin = new]
      BY <1>1, <1>3
    <2>2. new \in AccountStatuses
      BY <1>1, <1>3 DEF Rows, Outcome, AccountStatuses
    <2>3. customer'[c] \in Rows
      BY <1>1, <2>1, <2>2 DEF Rows
    <2> QED
      BY <1>1, <1>3, <2>1, <2>3 DEF Rows
  <1>4. ASSUME customer[c].domain \in Pending, NEW new \in {Outcome(customer[c].domain), "error"},
               customer' = [customer EXCEPT ![c].domain = new]
        PROVE  /\ customer' \in [Customers -> Rows]
               /\ \A b \in Customers : b # c => customer'[b] = customer[b]
               /\ customer'[c].owner = customer[c].owner /\ customer'[c].limit = customer[c].limit
               /\ customer'[c].domain = new /\ customer'[c].admin = customer[c].admin
    <2>1. customer'[c] = [customer[c] EXCEPT !.domain = new]
      BY <1>1, <1>4
    <2>2. new \in DomainStatuses
      BY <1>1, <1>4 DEF Rows, Outcome, DomainStatuses
    <2>3. customer'[c] \in Rows
      BY <1>1, <2>1, <2>2 DEF Rows
    <2> QED
      BY <1>1, <1>4, <2>1, <2>3 DEF Rows
  <1>5. \/ /\ customer[c].admin \in Pending
           /\ \E new \in {Outcome(customer[c].admin), "error"} : customer' = [customer EXCEPT ![c].admin = new]
        \/ /\ customer[c].domain \in Pending
           /\ \E new \in {Outcome(customer[c].domain), "error"} : customer' = [customer EXCEPT ![c].domain = new]
    BY DEF Settle
  <1>6. CASE /\ customer[c].admin \in Pending
             /\ \E new \in {Outcome(customer[c].admin), "error"} : customer' = [customer EXCEPT ![c].admin = new]
    BY <1>2, <1>3, <1>6
  <1>7. CASE /\ customer[c].domain \in Pending
             /\ \E new \in {Outcome(customer[c].domain), "error"} : customer' = [customer EXCEPT ![c].domain = new]
    BY <1>2, <1>4, <1>7
  <1> QED
    BY <1>5, <1>6, <1>7

(* What is gone stays gone, and what is settled stays as it is. *)
LEMMA SettledStays ==
    ASSUME TypeOK, NEW c \in Customers, Settle(c)
    PROVE  /\ customer[c].admin # "absent" \/ customer[c].domain # "absent"
           /\ customer'[c].admin # "absent" => customer[c].admin # "absent"
           /\ customer'[c].domain # "absent" => customer[c].domain # "absent"
           /\ customer[c].domain \in {"ok", "disabled"} => customer'[c].domain = customer[c].domain
           /\ customer[c].admin = "todelete" => customer'[c].admin \in {"todelete", "absent", "error"}
           /\ customer[c].domain = "todelete" => customer'[c].domain \in {"todelete", "absent", "error"}
           /\ customer'[c].domain = "absent" => customer[c].domain \in {"todelete", "absent"}
           /\ customer'[c].domain = "todelete" => customer[c].domain = "todelete"
  BY Settled DEF Pending, Outcome

LEMMA SettleKeeps ==
    ASSUME IInv, NEW c \in Customers, Settle(c)
    PROVE  IInv'
  <1>1. /\ UNCHANGED <<reseller, max, current, used, plan, proc, overtaken>>
        /\ customer' \in [Customers -> Rows]
        /\ \A b \in Customers : b # c => customer'[b] = customer[b]
        /\ customer'[c].owner = customer[c].owner /\ customer'[c].limit = customer[c].limit
    BY Settled DEF IInv
  <1>2. /\ customer[c].admin # "absent" \/ customer[c].domain # "absent"
        /\ customer'[c].admin # "absent" => customer[c].admin # "absent"
        /\ customer[c].domain \in {"ok", "disabled"} => customer'[c].domain = customer[c].domain
    BY SettledStays DEF IInv
  <1>3. customer[c] # NoRows
    BY <1>2 DEF NoRows
  <1>4. customer[c].owner # None
    BY <1>3 DEF IInv, Fresh
  <1>5. customer'[c] # NoRows
    BY <1>1, <1>4 DEF NoRows
  <1>6. TypeOK'
    BY <1>1 DEF IInv, TypeOK
  <1>7. Fresh'
    BY <1>1, <1>4, <1>5, FreshKeeps DEF IInv
  <1>8. \A v \in Works : Facts(v) => Facts(v)'
    BY <1>1 DEF Facts
  <1>9. ASSUME NEW v \in Works, Facts(v), Promise(v)
        PROVE  Promise(v)'
    <2>1. CustomersOf(v.reseller) = {} => CustomersOf(v.reseller)' = {}
      BY <1>1, <1>2 DEF CustomersOf
    <2>2. \A x : NameTaken(v.reseller, v.name, x)' <=> NameTaken(v.reseller, v.name, x)
      BY <1>1 DEF NameTaken, PlansOf
    <2>3. v.op \in {"customerUpdate", "customerSetState"} => customer'[v.subject].domain \in {"ok", "disabled"}
      BY <1>1, <1>2, <1>9 DEF Facts, Promise
    <2>4. v.op \in {"customerUpdate", "use"} => customer'[v.subject].limit = customer[v.subject].limit
      BY <1>1, <1>9 DEF Facts
    <2> QED
      BY <1>1, <1>9, <2>1, <2>2, <2>3, <2>4 DEF Promise, Leaves, HasRoom
  <1> QED
    BY <1>1, <1>6, <1>7, <1>8, <1>9, RestKeeps

---------------------------------------------------------------------------
(* The invariant. *)

LEMMA InitHolds == Init => IInv
  <1> SUFFICES ASSUME Init
               PROVE  IInv
    OBVIOUS
  <1>1. /\ \A r \in Resellers : reseller[r] = "absent" /\ current[r] = [s \in Allowances |-> 0]
        /\ \A c \in Customers : customer[c] = NoRows /\ used[c] = [s \in Services |-> 0]
        /\ \A p \in Procs : proc[p] = Idle
    BY DEF Init
  <1>2. NoRows \in Rows /\ NoRows.owner = None
    BY DEF NoRows, Rows, AccountStatuses, DomainStatuses
  <1>3. 0 \in 0..MaxUse
    BY Configured
  <1>4. TypeOK
    BY <1>2, <1>3, IdleWork DEF Init, TypeOK
  <1>5. Fresh
    BY <1>1, <1>2, Configured DEF Fresh
  <1>6. Facts(Idle) /\ Promise(Idle)
    BY IdleWork DEF Facts, Promise
  <1>7. \A p \in Procs : Facts(proc[p]) /\ Promise(proc[p])
    BY <1>1, <1>6 DEF Facts, Promise
  <1> QED
    BY <1>4, <1>5, <1>7 DEF IInv

LEMMA StutterKeeps ==
    ASSUME IInv, UNCHANGED vars
    PROVE  IInv'
  <1>1. TypeOK' /\ Fresh'
    BY DEF IInv, TypeOK, Fresh, vars
  <1>2. \A p \in Procs : (Facts(proc[p]) => Facts(proc[p])') /\ (Promise(proc[p]) => Promise(proc[p])')
    BY DEF vars, Facts, Promise, CustomersOf, NameTaken, PlansOf, Leaves, HasRoom
  <1> QED
    BY <1>1, <1>2 DEF IInv, vars

LEMMA NextKeeps == IInv /\ [Next]_vars => IInv'
  <1> SUFFICES ASSUME IInv, [Next]_vars
               PROVE  IInv'
    OBVIOUS
  <1>1. ASSUME NEW p \in Procs, Check(p)
        PROVE  IInv'
    BY <1>1, ResellerChecks, PlanChecks, CustomerChecks DEF Check
  <1>2. ASSUME NEW p \in Procs, Transaction(p)
        PROVE  IInv'
    BY <1>2, ResellerUpdateKeeps, ResellerDeleteKeeps, HostingPlanCreateKeeps, HostingPlanUpdateKeeps,
       CustomerCreateKeeps, CustomerUpdateKeeps, CustomerSetStateKeeps, CustomerDeleteKeeps, UseKeeps, RollBackKeeps
    DEF Transaction
  <1>3. ASSUME NEW r \in Resellers, NEW limits \in [Allowances -> Limits], ResellerCreate(r, limits)
        PROVE  IInv'
    BY <1>3, ResellerCreateKeeps
  <1>4. ASSUME NEW h \in Plans, HostingPlanDelete(h)
        PROVE  IInv'
    BY <1>4, HostingPlanDeleteKeeps
  <1>5. ASSUME NEW c \in Customers, Settle(c) \/ \E s \in Services : GiveUp(c, s)
        PROVE  IInv'
    BY <1>5, SettleKeeps, GiveUpKeeps
  <1> QED
    BY <1>1, <1>2, <1>3, <1>4, <1>5, StutterKeeps DEF Next

LEMMA InvariantHolds == Spec => []IInv
  BY InitHolds, NextKeeps, PTL DEF Spec

(* Every variable keeps its shape: the rows, and what the processes have   *)
(* decided on, through every operation of the resellers' services.         *)
THEOREM TypeCorrect == Spec => []TypeOK
  <1>1. IInv => TypeOK
    BY DEF IInv
  <1> QED
    BY <1>1, InvariantHolds, PTL

---------------------------------------------------------------------------
(* What a step does to the rows. *)

LEMMA StepKinds ==
    ASSUME [Next]_vars
    PROVE  \/ UNCHANGED <<reseller, max, current, customer, used, plan>>
           \/ \E p \in Procs : \/ ResellerUpdateCommit(p)
                               \/ ResellerDeleteCommit(p)
                               \/ \E h \in Plans : HostingPlanCreateCommit(p, h)
                               \/ HostingPlanUpdateCommit(p)
                               \/ \E c \in Customers : CustomerCreateCommit(p, c)
                               \/ CustomerUpdateCommit(p)
                               \/ CustomerSetStateCommit(p)
                               \/ CustomerDeleteCommit(p)
                               \/ UseCommit(p)
           \/ \E r \in Resellers, limits \in [Allowances -> Limits] : ResellerCreate(r, limits)
           \/ \E h \in Plans : HostingPlanDelete(h)
           \/ \E c \in Customers : Settle(c) \/ \E s \in Services : GiveUp(c, s)
  <1>1. ASSUME NEW p \in Procs, Check(p)
        PROVE  UNCHANGED <<reseller, max, current, customer, used, plan>>
    BY <1>1 DEF Check, Decide, ResellerUpdateCheck, ResellerDeleteCheck, HostingPlanCreateCheck,
       HostingPlanUpdateCheck, CustomerCreateCheck, CustomerUpdateCheck, CustomerSetStateCheck,
       CustomerDeleteCheck, UseCheck
  <1>2. \A p \in Procs : RollBack(p) => UNCHANGED <<reseller, max, current, customer, used, plan>>
    BY DEF RollBack
  <1> QED
    BY <1>1, <1>2 DEF Next, Transaction, vars

(* A transaction of a process that is not overtaken kept its promise.      *)
LEMMA Committed ==
    ASSUME IInv, NEW p \in Procs, Busy(p), Commit(p)
    PROVE  /\ proc[p] \in Works /\ proc[p] # Idle
           /\ Facts(proc[p])
           /\ Overtaken(p) \/ Promise(proc[p])
  <1>1. proc'[p] = Idle /\ proc[p] \in Works
    BY DEF Commit, IInv, TypeOK
  <1> QED
    BY <1>1 DEF Busy, Overtaken, IInv

---------------------------------------------------------------------------
(* What the transactions on a customer do to its rows. *)

LEMMA CreateChanges ==
    ASSUME IInv, NEW p \in Procs, NEW c \in Customers, CustomerCreateCommit(p, c)
    PROVE  /\ proc[p].reseller \in Resellers /\ reseller' = reseller /\ Recount(proc[p].reseller)
           /\ \A b \in Customers : b # c => customer'[b] = customer[b]
           /\ customer[c] = NoRows
           /\ customer'[c] = [owner |-> proc[p].reseller, admin |-> "toadd", domain |-> "toadd",
                              limit |-> proc[p].limits]
  <1>1. proc[p].reseller \in Resellers
    BY Committed, IdleWork DEF CustomerCreateCommit, Doing
  <1> QED
    BY <1>1 DEF CustomerCreateCommit, IInv, TypeOK

LEMMA UpdateChanges ==
    ASSUME IInv, NEW p \in Procs, CustomerUpdateCommit(p), NEW c, c = proc[p].subject
    PROVE  /\ c \in Customers /\ proc[p].reseller \in Resellers
           /\ customer[c].owner = proc[p].reseller /\ customer'[c].owner = proc[p].reseller
           /\ reseller' = reseller /\ Recount(proc[p].reseller)
           /\ \A b \in Customers : b # c => customer'[b] = customer[b]
           /\ IsCustomer(c)
           /\ customer'[c].admin = IF "admin" \in proc[p].writes THEN "tochangepwd" ELSE customer[c].admin
           /\ customer'[c].domain = IF "domain" \in proc[p].writes THEN "tochange" ELSE customer[c].domain
           /\ customer'[c].limit = IF proc[p].limits = NoLimits THEN customer[c].limit ELSE proc[p].limits
           /\ Overtaken(p) \/ customer[c].domain \in {"ok", "disabled"}
  <1>1. /\ Doing(p, "customerUpdate") /\ Commit(p) /\ reseller' = reseller /\ Recount(customer[c].owner)
        /\ IsCustomer(c)
        /\ customer' = [customer EXCEPT ![c].limit = IF proc[p].limits = NoLimits THEN @ ELSE proc[p].limits,
                                        ![c].admin = IF "admin" \in proc[p].writes THEN "tochangepwd" ELSE @,
                                        ![c].domain = IF "domain" \in proc[p].writes THEN "tochange" ELSE @]
    BY DEF CustomerUpdateCommit
  <1>2. /\ c \in Customers /\ customer[c].owner = proc[p].reseller /\ proc[p].reseller \in Resellers
        /\ Overtaken(p) \/ customer[c].domain \in {"ok", "disabled"}
    BY <1>1, Committed, IdleWork DEF Doing, Facts, Promise
  <1>3. customer \in [Customers -> Rows]
    BY DEF IInv, TypeOK
  <1>4. \A b \in Customers : b # c => customer'[b] = customer[b]
    BY <1>1, <1>2, <1>3
  <1>5. customer[c] \in Rows
    BY <1>2, <1>3
  <1>6. customer'[c] = [owner |-> customer[c].owner,
                        admin |-> IF "admin" \in proc[p].writes THEN "tochangepwd" ELSE customer[c].admin,
                        domain |-> IF "domain" \in proc[p].writes THEN "tochange" ELSE customer[c].domain,
                        limit |-> IF proc[p].limits = NoLimits THEN customer[c].limit ELSE proc[p].limits]
    BY <1>1, <1>2, <1>3, <1>5 DEF Rows
  <1>7. /\ customer'[c].owner = customer[c].owner
        /\ customer'[c].admin = IF "admin" \in proc[p].writes THEN "tochangepwd" ELSE customer[c].admin
        /\ customer'[c].domain = IF "domain" \in proc[p].writes THEN "tochange" ELSE customer[c].domain
        /\ customer'[c].limit = IF proc[p].limits = NoLimits THEN customer[c].limit ELSE proc[p].limits
    BY <1>6
  <1> QED
    BY <1>1, <1>2, <1>4, <1>7

LEMMA SetStateChanges ==
    ASSUME IInv, NEW p \in Procs, CustomerSetStateCommit(p), NEW c, c = proc[p].subject
    PROVE  /\ c \in Customers /\ customer[c].owner = proc[p].reseller
           /\ UNCHANGED <<reseller, max, current, used, plan>>
           /\ \A b \in Customers : b # c => customer'[b] = customer[b]
           /\ customer'[c].owner = customer[c].owner /\ customer'[c].limit = customer[c].limit
           /\ customer'[c].admin = customer[c].admin
           /\ customer'[c].domain = IF customer[c].domain = "absent" THEN "absent" ELSE proc[p].name
           /\ proc[p].name \in Verbs
           /\ Overtaken(p) \/ customer[c].domain \in {"ok", "disabled"}
  <1>1. /\ Doing(p, "customerSetState") /\ Commit(p) /\ UNCHANGED <<reseller, max, current, used, plan>>
        /\ customer' = [customer EXCEPT ![c].domain = IF @ = "absent" THEN @ ELSE proc[p].name]
    BY DEF CustomerSetStateCommit
  <1>2. /\ c \in Customers /\ customer[c].owner = proc[p].reseller /\ proc[p].name \in Verbs
        /\ Overtaken(p) \/ customer[c].domain \in {"ok", "disabled"}
    BY <1>1, Committed DEF Doing, Facts, Promise
  <1>3. customer \in [Customers -> Rows]
    BY DEF IInv, TypeOK
  <1>4. \A b \in Customers : b # c => customer'[b] = customer[b]
    BY <1>1, <1>2, <1>3
  <1>5. customer'[c] = [owner |-> customer[c].owner, admin |-> customer[c].admin,
                        domain |-> IF customer[c].domain = "absent" THEN "absent" ELSE proc[p].name,
                        limit |-> customer[c].limit]
    BY <1>1, <1>2, <1>3 DEF Rows
  <1> QED
    BY <1>1, <1>2, <1>4, <1>5

LEMMA DeleteChanges ==
    ASSUME IInv, NEW p \in Procs, CustomerDeleteCommit(p), NEW c, c = proc[p].subject
    PROVE  /\ c \in Customers /\ proc[p].reseller \in Resellers
           /\ customer[c].owner = proc[p].reseller /\ customer'[c].owner = proc[p].reseller
           /\ reseller' = reseller
           /\ \A b \in Customers : b # c => customer'[b] = customer[b]
           /\ \/ UNCHANGED <<customer, current>>
              \/ /\ Recount(proc[p].reseller) /\ customer[c].admin # "absent"
                 /\ customer'[c].admin = "todelete" /\ customer'[c].domain \in {"absent", "todelete"}
  <1>1. Doing(p, "customerDelete") /\ Commit(p) /\ reseller' = reseller
    BY DEF CustomerDeleteCommit
  <1>2. c \in Customers /\ customer[c].owner = proc[p].reseller /\ proc[p].reseller \in Resellers
    BY <1>1, Committed, IdleWork DEF Doing, Facts
  <1>3. customer \in [Customers -> Rows]
    BY DEF IInv, TypeOK
  <1>4. CASE UNCHANGED <<customer, current>>
    BY <1>1, <1>2, <1>4
  <1>5. CASE /\ customer[c].admin # "absent"
             /\ customer' = [customer EXCEPT ![c].admin = "todelete",
                                            ![c].domain = IF @ = "absent" THEN @ ELSE "todelete"]
             /\ Recount(customer[c].owner)
    <2>1. \A b \in Customers : b # c => customer'[b] = customer[b]
      BY <1>2, <1>3, <1>5
    <2>2. /\ customer'[c].owner = customer[c].owner /\ customer'[c].admin = "todelete"
          /\ customer'[c].domain \in {"absent", "todelete"}
      BY <1>2, <1>3, <1>5 DEF Rows
    <2> QED
      BY <1>1, <1>2, <1>5, <2>1, <2>2
  <1> QED
    BY <1>4, <1>5 DEF CustomerDeleteCommit

---------------------------------------------------------------------------
(* Plans. *)

LEMMA StepNamesakes ==
    ASSUME IInv, [Next]_vars, NEW g \in Plans, NEW h \in Plans, g # h,
           ~Namesakes(g, h), Namesakes(g, h)'
    PROVE  \E p \in Procs : Overtaken(p)
  <1>1. ASSUME NEW p \in Procs, NEW x \in Plans, HostingPlanCreateCommit(p, x), ~Overtaken(p)
        PROVE  FALSE
    <2>1. /\ Doing(p, "hostingPlanCreate") /\ Commit(p) /\ plan[x] = Unused
          /\ plan' = [plan EXCEPT ![x] = [reseller |-> proc[p].reseller, name |-> proc[p].name]]
      BY <1>1 DEF HostingPlanCreateCommit
    <2>2. ~NameTaken(proc[p].reseller, proc[p].name, None)
      BY <1>1, <2>1, Committed DEF Doing, Promise
    <2>3. \A y \in Plans : plan[y].reseller = proc[p].reseller => plan[y].name # proc[p].name
      BY <2>2, Configured DEF NameTaken, PlansOf
    <2>4. \A y \in Plans : y # x => plan'[y] = plan[y]
      BY <2>1 DEF IInv, TypeOK
    <2>5. plan'[x].reseller = proc[p].reseller /\ plan'[x].name = proc[p].name
      BY <2>1 DEF IInv, TypeOK
    <2>6. g = x \/ h = x
      BY <2>4 DEF Namesakes
    <2> QED
      BY <2>3, <2>4, <2>5, <2>6 DEF Namesakes
  <1>2. ASSUME NEW p \in Procs, HostingPlanUpdateCommit(p), ~Overtaken(p)
        PROVE  FALSE
    <2> DEFINE x == proc[p].subject
    <2>1. /\ Doing(p, "hostingPlanUpdate") /\ Commit(p)
          /\ plan' = IF plan[x].reseller # None THEN [plan EXCEPT ![x].name = proc[p].name] ELSE plan
      BY <1>2 DEF HostingPlanUpdateCommit
    <2>2. /\ x \in Plans /\ plan[x].reseller \in {proc[p].reseller, None}
          /\ ~NameTaken(proc[p].reseller, proc[p].name, x)
      BY <1>2, <2>1, Committed DEF Doing, Facts, Promise
    <2>3. plan[x].reseller = proc[p].reseller /\ plan[x].reseller # None
      BY <2>1, <2>2 DEF Namesakes
    <2>4. \A y \in Plans \ {x} : plan[y].reseller = proc[p].reseller => plan[y].name # proc[p].name
      BY <2>2 DEF NameTaken, PlansOf
    <2>5. \A y \in Plans : y # x => plan'[y] = plan[y]
      BY <2>1, <2>2 DEF IInv, TypeOK
    <2>6. plan[x] \in [reseller : Resellers, name : Names]
      BY <2>2, <2>3, PlanKinds DEF IInv, TypeOK
    <2>7. plan'[x].reseller = proc[p].reseller /\ plan'[x].name = proc[p].name
      BY <2>1, <2>2, <2>3, <2>6 DEF IInv, TypeOK
    <2>8. g = x \/ h = x
      BY <2>5 DEF Namesakes
    <2> HIDE DEF x
    <2> QED
      BY <2>2, <2>4, <2>5, <2>7, <2>8 DEF Namesakes
  <1>3. ASSUME \A y \in Plans : plan'[y] \in {plan[y], Deleted}
        PROVE  FALSE
    BY <1>3, PlanKinds DEF Namesakes
  <1>4. \A p \in Procs : ResellerDeleteCommit(p) => \A y \in Plans : plan'[y] \in {plan[y], Deleted}
    BY DEF ResellerDeleteCommit
  <1>5. \A x \in Plans : HostingPlanDelete(x) => \A y \in Plans : plan'[y] \in {plan[y], Deleted}
    BY DEF HostingPlanDelete, IInv, TypeOK
  <1>6. plan' # plan
    BY <1>3
  <1> QED
    BY <1>1, <1>2, <1>3, <1>4, <1>5, <1>6, StepKinds
    DEF ResellerUpdateCommit, CustomerCreateCommit, CustomerUpdateCommit, CustomerSetStateCommit,
        CustomerDeleteCommit, UseCommit,
        ResellerCreate, Settle, GiveUp

(* A reseller gets a second plan of one name only from a transaction that  *)
(* another one of this reseller has overtaken since it looked for the name *)
(* (HostingPlanService::requireFreeName).                                  *)
THEOREM NamesakesOverlap == Spec => NamesakesByOverlap
  <1>1. IInv /\ [Next]_vars
        => [\A g, h \in Plans :
                g # h /\ ~Namesakes(g, h) /\ Namesakes(g, h)' => \E p \in Procs : Overtaken(p)]_vars
    BY StepNamesakes
  <1> QED
    BY <1>1, InvariantHolds, PTL DEF Spec, NamesakesByOverlap

---------------------------------------------------------------------------
(* Customers. *)

LEMMA StepStands ==
    ASSUME IInv, [Next]_vars, NEW c \in Customers, NEW row \in {"admin", "domain"},
           customer[c][row] = "todelete", customer'[c][row] \notin {"todelete", "absent", "error"}
    PROVE  BroughtBack(c) \/ \E p \in Procs : Overtaken(p)
  <1>1. \/ /\ customer[c].admin = "todelete" /\ customer'[c].admin \notin {"todelete", "absent", "error"}
        \/ /\ customer[c].domain = "todelete" /\ customer'[c].domain \notin {"todelete", "absent", "error"}
    OBVIOUS
  <1>2. ASSUME NEW p \in Procs, CustomerUpdateCommit(p), ~Overtaken(p)
        PROVE  BroughtBack(c)
    <2> DEFINE x == proc[p].subject
    <2>1. /\ \A b \in Customers : b # x => customer'[b] = customer[b]
          /\ customer[x].domain \in {"ok", "disabled"}
      BY <1>2, UpdateChanges
    <2> HIDE DEF x
    <2> QED
      BY <1>1, <2>1 DEF BroughtBack
  <1>3. ASSUME NEW p \in Procs, CustomerSetStateCommit(p), ~Overtaken(p)
        PROVE  FALSE
    <2> DEFINE x == proc[p].subject
    <2>1. /\ \A b \in Customers : b # x => customer'[b] = customer[b]
          /\ customer'[x].admin = customer[x].admin /\ customer[x].domain \in {"ok", "disabled"}
      BY <1>3, SetStateChanges
    <2> HIDE DEF x
    <2> QED
      BY <1>1, <2>1
  <1>4. ASSUME NEW p \in Procs, NEW x \in Customers, CustomerCreateCommit(p, x)
        PROVE  FALSE
    <2>1. (\A b \in Customers : b # x => customer'[b] = customer[b]) /\ customer[x] = NoRows
      BY <1>4, CreateChanges
    <2> QED
      BY <1>1, <2>1 DEF NoRows
  <1>5. ASSUME NEW p \in Procs, CustomerDeleteCommit(p)
        PROVE  FALSE
    <2> DEFINE x == proc[p].subject
    <2>1. /\ \A b \in Customers : b # x => customer'[b] = customer[b]
          /\ \/ customer' = customer
             \/ customer'[x].admin = "todelete" /\ customer'[x].domain \in {"absent", "todelete"}
      BY <1>5, DeleteChanges
    <2> HIDE DEF x
    <2> QED
      BY <1>1, <2>1
  <1>6. ASSUME NEW x \in Customers, Settle(x)
        PROVE  FALSE
    <2>1. /\ \A b \in Customers : b # x => customer'[b] = customer[b]
          /\ customer[x].admin = "todelete" => customer'[x].admin \in {"todelete", "absent", "error"}
          /\ customer[x].domain = "todelete" => customer'[x].domain \in {"todelete", "absent", "error"}
      BY <1>6, Settled, SettledStays DEF IInv
    <2> QED
      BY <1>1, <2>1
  <1>7. customer' # customer
    BY <1>1
  <1> QED
    BY <1>2, <1>3, <1>4, <1>5, <1>6, <1>7, StepKinds
    DEF ResellerUpdateCommit, ResellerDeleteCommit, HostingPlanCreateCommit, HostingPlanUpdateCommit,
        HostingPlanDelete, UseCommit, ResellerCreate, GiveUp

(* What customerDelete has scheduled the daemon takes or fails at.  Another*)
(* verb is written over it only by a suspension or an update that the      *)
(* deletion has overtaken since it read the state, and over the account's  *)
(* row where such a one has put the domain back (CustomerService::update,  *)
(* ::setState).                                                            *)
THEOREM DeletionsStand == Spec => DeletionStands
  <1>1. IInv /\ [Next]_vars
        => [\A c \in Customers, row \in {"admin", "domain"} :
                customer[c][row] = "todelete" /\ customer'[c][row] \notin {"todelete", "absent", "error"} =>
                    BroughtBack(c) \/ \E p \in Procs : Overtaken(p)]_vars
    BY StepStands
  <1> QED
    BY <1>1, InvariantHolds, PTL DEF Spec, DeletionStands

---------------------------------------------------------------------------
(* Resellers. *)

(* Whoever has rows keeps its reseller. *)
LEMMA SameOwner ==
    ASSUME IInv, NEW x \in Customers \cup Plans, ~Orphaned(x), Orphaned(x)',
           \A r \in Resellers : reseller'[r] # "ok" => reseller[r] # "ok",
           x \in Customers /\ customer'[x].admin # "absent" =>
               customer[x].admin # "absent" /\ customer'[x].owner = customer[x].owner,
           x \in Plans /\ plan'[x].reseller # None => plan'[x].reseller = plan[x].reseller
    PROVE  FALSE
  <1>1. CASE x \in Customers /\ customer'[x].admin # "absent" /\ reseller'[customer'[x].owner] # "ok"
    <2>1. customer[x].owner \in Resellers
      BY <1>1, RowFacts DEF IInv
    <2> QED
      BY <1>1, <2>1 DEF Orphaned
  <1>2. CASE x \in Plans /\ plan'[x].reseller # None /\ reseller'[plan'[x].reseller] # "ok"
    <2>1. plan[x].reseller \in Resellers
      BY <1>2, PlanKinds DEF IInv, TypeOK
    <2> QED
      BY <1>2, <2>1 DEF Orphaned
  <1> QED
    BY <1>1, <1>2 DEF Orphaned

LEMMA StepOrphans ==
    ASSUME IInv, [Next]_vars, NEW x \in Customers \cup Plans, ~Orphaned(x), Orphaned(x)'
    PROVE  \E p \in Procs : Overtaken(p)
  <1>1. ASSUME NEW p \in Procs, ResellerDeleteCommit(p), ~Overtaken(p)
        PROVE  FALSE
    <2> DEFINE r == proc[p].reseller
    <2>1. /\ Doing(p, "resellerDelete") /\ Commit(p) /\ customer' = customer
          /\ reseller' = [reseller EXCEPT ![r] = "gone"]
          /\ plan' = [h \in Plans |-> IF reseller[r] = "ok" /\ h \in PlansOf(r) THEN Deleted ELSE plan[h]]
      BY <1>1 DEF ResellerDeleteCommit
    <2>2. CustomersOf(r) = {}
      BY <1>1, <2>1, Committed DEF Doing, Promise
    <2>3. CASE x \in Customers /\ customer[x].admin # "absent" /\ reseller'[customer[x].owner] # "ok"
      <3>1. customer[x].owner # r
        BY <2>2, <2>3 DEF CustomersOf
      <3>2. customer[x].owner \in Resellers
        BY <2>3, RowFacts DEF IInv
      <3>3. reseller'[customer[x].owner] = reseller[customer[x].owner]
        BY <2>1, <3>1, <3>2 DEF IInv, TypeOK
      <3> QED
        BY <2>3, <3>3 DEF Orphaned
    <2>4. CASE x \in Plans /\ plan'[x].reseller # None /\ reseller'[plan'[x].reseller] # "ok"
      <3>1. plan'[x] = plan[x] /\ ~(reseller[r] = "ok" /\ plan[x].reseller = r)
        BY <2>1, <2>4, PlanKinds DEF PlansOf
      <3>2. plan[x].reseller \in Resellers
        BY <2>4, <3>1, PlanKinds DEF IInv, TypeOK
      <3>3. plan[x].reseller # r => reseller'[plan[x].reseller] = reseller[plan[x].reseller]
        BY <2>1, <3>2 DEF IInv, TypeOK
      <3> QED
        BY <2>4, <3>1, <3>3 DEF Orphaned
    <2> QED
      BY <2>1, <2>3, <2>4 DEF Orphaned
  <1>2. ASSUME NEW p \in Procs, NEW h \in Plans, HostingPlanCreateCommit(p, h), ~Overtaken(p)
        PROVE  FALSE
    <2>1. /\ Doing(p, "hostingPlanCreate") /\ Commit(p) /\ UNCHANGED <<reseller, customer>>
          /\ plan' = [plan EXCEPT ![h] = [reseller |-> proc[p].reseller, name |-> proc[p].name]]
      BY <1>2 DEF HostingPlanCreateCommit
    <2>2. reseller[proc[p].reseller] = "ok"
      BY <1>2, <2>1, Committed DEF Doing, Promise
    <2>3. \A y \in Plans : y # h => plan'[y] = plan[y]
      BY <2>1 DEF IInv, TypeOK
    <2>4. plan'[h].reseller = proc[p].reseller
      BY <2>1 DEF IInv, TypeOK
    <2> QED
      BY <2>1, <2>2, <2>3, <2>4 DEF Orphaned
  <1>3. ASSUME NEW p \in Procs, NEW c \in Customers, CustomerCreateCommit(p, c), ~Overtaken(p)
        PROVE  FALSE
    <2>1. /\ Doing(p, "customerCreate") /\ Commit(p) /\ UNCHANGED <<reseller, plan>>
          /\ customer' = [customer EXCEPT ![c] =
                 [owner |-> proc[p].reseller, admin |-> "toadd", domain |-> "toadd", limit |-> proc[p].limits]]
      BY <1>3 DEF CustomerCreateCommit
    <2>2. reseller[proc[p].reseller] = "ok"
      BY <1>3, <2>1, Committed DEF Doing, Promise
    <2>3. \A y \in Customers : y # c => customer'[y] = customer[y]
      BY <2>1 DEF IInv, TypeOK
    <2>4. customer'[c].owner = proc[p].reseller
      BY <2>1 DEF IInv, TypeOK
    <2> QED
      BY <2>1, <2>2, <2>3, <2>4 DEF Orphaned
  <1>4. ASSUME NEW p \in Procs, HostingPlanUpdateCommit(p)
        PROVE  FALSE
    <2> DEFINE h == proc[p].subject
    <2>1. /\ Doing(p, "hostingPlanUpdate") /\ Commit(p) /\ UNCHANGED <<reseller, customer>>
          /\ plan' = IF plan[h].reseller # None THEN [plan EXCEPT ![h].name = proc[p].name] ELSE plan
      BY <1>4 DEF HostingPlanUpdateCommit
    <2>2. h \in Plans
      BY <1>4, <2>1, Committed DEF Doing, Facts
    <2>3. plan[h].reseller # None => plan'[h].reseller = plan[h].reseller
      BY <2>1, <2>2, PlanKinds DEF IInv, TypeOK
    <2>4. \A y \in Plans : y # h => plan'[y] = plan[y]
      BY <2>1, <2>2 DEF IInv, TypeOK
    <2> HIDE DEF h
    <2> QED
      BY <2>1, <2>3, <2>4, SameOwner
  <1>5. ASSUME NEW p \in Procs, CustomerUpdateCommit(p)
        PROVE  FALSE
    <2> DEFINE c == proc[p].subject
    <2>1. /\ IsCustomer(c) /\ customer'[c].owner = customer[c].owner
          /\ \A y \in Customers : y # c => customer'[y] = customer[y]
      BY <1>5, UpdateChanges
    <2>2. UNCHANGED <<reseller, plan>>
      BY <1>5 DEF CustomerUpdateCommit
    <2> HIDE DEF c
    <2> QED
      BY <2>1, <2>2, SameOwner DEF IsCustomer
  <1>5a. ASSUME NEW p \in Procs, CustomerSetStateCommit(p)
         PROVE  FALSE
    <2> DEFINE c == proc[p].subject
    <2>1. /\ UNCHANGED <<reseller, plan>>
          /\ customer'[c].owner = customer[c].owner /\ customer'[c].admin = customer[c].admin
          /\ \A y \in Customers : y # c => customer'[y] = customer[y]
      BY <1>5a, SetStateChanges
    <2> HIDE DEF c
    <2> QED
      BY <2>1, SameOwner
  <1>6. ASSUME NEW p \in Procs, CustomerDeleteCommit(p)
        PROVE  FALSE
    <2> DEFINE c == proc[p].subject
    <2>1. /\ customer'[c].owner = customer[c].owner
          /\ \A y \in Customers : y # c => customer'[y] = customer[y]
          /\ customer' = customer \/ customer[c].admin # "absent"
      BY <1>6, DeleteChanges
    <2>2. UNCHANGED <<reseller, plan>>
      BY <1>6 DEF CustomerDeleteCommit
    <2> HIDE DEF c
    <2> QED
      BY <2>1, <2>2, SameOwner
  <1>7. ASSUME NEW c \in Customers, Settle(c)
        PROVE  FALSE
    <2>1. /\ UNCHANGED <<reseller, plan>>
          /\ \A b \in Customers : b # c => customer'[b] = customer[b]
          /\ customer'[c].owner = customer[c].owner
          /\ customer'[c].admin # "absent" => customer[c].admin # "absent"
      BY <1>7, Settled, SettledStays DEF IInv
    <2> QED
      BY <2>1, SameOwner
  <1>8. ASSUME NEW r \in Resellers, NEW limits \in [Allowances -> Limits], ResellerCreate(r, limits)
        PROVE  FALSE
    <2>1. UNCHANGED <<customer, plan>> /\ \A q \in Resellers : reseller'[q] # "ok" => reseller[q] # "ok"
      BY <1>8 DEF ResellerCreate, IInv, TypeOK
    <2> QED
      BY <2>1, SameOwner
  <1>9. ASSUME NEW h \in Plans, HostingPlanDelete(h)
        PROVE  FALSE
    <2>1. UNCHANGED <<reseller, customer>> /\ \A y \in Plans : plan'[y] \in {plan[y], Deleted}
      BY <1>9 DEF HostingPlanDelete, IInv, TypeOK
    <2> QED
      BY <2>1, PlanKinds, SameOwner
  <1>10. ~UNCHANGED <<reseller, customer, plan>>
    BY DEF Orphaned
  <1> QED
    BY <1>1, <1>2, <1>3, <1>4, <1>5, <1>5a, <1>6, <1>7, <1>8, <1>9, <1>10, StepKinds
    DEF ResellerUpdateCommit, UseCommit, GiveUp

(* No customer and no plan is left without its reseller, but where the     *)
(* deletion of the reseller and a creation for it overtake each other      *)
(* (ResellerService::delete counts the customers before its transaction).  *)
THEOREM OrphansOverlap == Spec => OrphanedByOverlap
  <1>1. IInv /\ [Next]_vars
        => [\A x \in Customers \cup Plans :
                ~Orphaned(x) /\ Orphaned(x)' => \E p \in Procs : Overtaken(p)]_vars
    BY StepOrphans
  <1> QED
    BY <1>1, InvariantHolds, PTL DEF Spec, OrphanedByOverlap

---------------------------------------------------------------------------
(* Limits and use. *)

LEMMA UseTypes ==
    ASSUME NEW rows \in [Customers -> Rows], NEW use \in [Customers -> [Services -> 0..MaxUse]],
           NEW c \in Customers, NEW s \in Services
    PROVE  /\ use[c][s] \in Nat
           /\ rows[c].limit[s] \in Int
           /\ rows[c].limit[s] < 0 <=> rows[c].limit[s] = WITHHELD
           /\ Exceeds(use[c][s], rows[c].limit[s]) <=>
                 /\ rows[c].limit[s] # UNLIMITED
                 /\ use[c][s] # 0
                 /\ ~(use[c][s] <= rows[c].limit[s])
  <1>1. use[c][s] \in Nat
    BY Configured
  <1>2. rows[c].limit[s] \in Limits \cup {0}
    BY DEF Rows
  <1>3. Limits \subseteq Nat \cup {-1}
    BY Configured
  <1>4. \A n \in Limits \cup {0} : n \in Nat \/ n = -1
    BY <1>3
  <1>5. rows[c].limit[s] \in Nat \/ rows[c].limit[s] = -1
    BY <1>2, <1>4
  <1> QED
    BY <1>1, <1>5 DEF WITHHELD, UNLIMITED, Exceeds

LEMMA StepOveruses ==
    ASSUME IInv, [Next]_vars, NEW c \in Customers, ~Overused(c), Overused(c)'
    PROVE  \E p \in Procs : Overtaken(p)
  <1>1. TypeOK /\ TypeOK'
    BY NextKeeps DEF IInv
  <1>2. \A s \in Services :
            /\ used[c][s] \in Nat /\ used'[c][s] \in Nat
            /\ customer[c].limit[s] \in Int /\ customer'[c].limit[s] \in Int
            /\ customer[c].limit[s] < 0 <=> customer[c].limit[s] = WITHHELD
    BY <1>1, UseTypes DEF TypeOK
  <1>3. PICK s \in Services : /\ customer'[c].limit[s] # UNLIMITED
                              /\ used'[c][s] # 0
                              /\ ~(used'[c][s] <= customer'[c].limit[s])
    <2>1. PICK s \in Services : Exceeds(used'[c][s], customer'[c].limit[s])
      BY DEF Overused
    <2> QED
      BY <1>1, <2>1, UseTypes DEF TypeOK
  <1>4. customer[c].limit[s] = UNLIMITED \/ used[c][s] = 0 \/ used[c][s] <= customer[c].limit[s]
    <2>1. ~Exceeds(used[c][s], customer[c].limit[s])
      BY DEF Overused
    <2> QED
      BY <1>1, <2>1, UseTypes DEF TypeOK
  <1>5. \/ ~(used'[c][s] <= used[c][s])
        \/ customer'[c].limit[s] # customer[c].limit[s]
    BY <1>2, <1>3, <1>4
  <1>6. ASSUME NEW p \in Procs, CustomerUpdateCommit(p), ~Overtaken(p)
        PROVE  FALSE
    <2> DEFINE x == proc[p].subject
               limits == proc[p].limits
    <2>1. Doing(p, "customerUpdate") /\ Commit(p) /\ used' = used
      BY <1>6 DEF CustomerUpdateCommit
    <2>2. limits # NoLimits => Leaves(x, limits)
      BY <1>6, <2>1, Committed DEF Doing, Promise
    <2>3. /\ x \in Customers
          /\ \A b \in Customers : b # x => customer'[b] = customer[b]
          /\ customer'[x].limit = IF limits = NoLimits THEN customer[x].limit ELSE limits
      BY <1>6, UpdateChanges
    <2>5. used'[c][s] = used[c][s]
      BY <2>1
    <2>6. customer'[c].limit[s] # customer[c].limit[s]
      BY <1>2, <1>5, <2>5
    <2>7. c = x /\ limits # NoLimits /\ customer'[c].limit = limits
      BY <2>3, <2>6
    <2>8. \/ customer[c].limit[s] = WITHHELD
          \/ /\ limits[s] = WITHHELD => used[c][s] = 0
             /\ limits[s] \notin {WITHHELD, UNLIMITED} => used[c][s] <= limits[s]
      BY <2>2, <2>7 DEF Leaves
    <2>9. customer[c].limit[s] = WITHHELD => used[c][s] = 0
      BY <1>2, <1>4 DEF WITHHELD, UNLIMITED
    <2> HIDE DEF x, limits
    <2> QED
      BY <1>3, <2>5, <2>7, <2>8, <2>9
  <1>6a. ASSUME NEW p \in Procs, CustomerSetStateCommit(p)
         PROVE  FALSE
    <2> DEFINE x == proc[p].subject
    <2>1. /\ used' = used /\ customer'[x].limit = customer[x].limit
          /\ \A b \in Customers : b # x => customer'[b] = customer[b]
      BY <1>6a, SetStateChanges
    <2> HIDE DEF x
    <2>2. used'[c][s] = used[c][s] /\ customer'[c].limit = customer[c].limit
      BY <2>1
    <2> QED
      BY <1>2, <1>5, <2>2
  <1>7. ASSUME NEW p \in Procs, UseCommit(p), ~Overtaken(p)
        PROVE  FALSE
    <2> DEFINE x == proc[p].subject
               t == proc[p].name
    <2>1. /\ Doing(p, "use") /\ Commit(p) /\ customer' = customer
          /\ used' = [used EXCEPT ![x][t] = @ + 1]
      BY <1>7 DEF UseCommit
    <2>2. x \in Customers /\ t \in Services /\ HasRoom(x, t)
      BY <1>7, <2>1, Committed DEF Doing, Facts, Promise
    <2> HIDE DEF x, t
    <2>3. \A b \in Customers : b # x => used'[b] = used[b]
      BY <2>1, <2>2 DEF IInv, TypeOK
    <2>4. \A r \in Services : used'[x][r] = IF r = t THEN used[x][r] + 1 ELSE used[x][r]
      BY <1>1, <2>1, <2>2 DEF TypeOK
    <2>5. ~(used'[c][s] <= used[c][s])
      BY <1>5, <2>1
    <2>6. c = x
      BY <1>2, <2>3, <2>5
    <2>7. s = t /\ used'[c][s] = used[c][s] + 1
      BY <1>2, <2>4, <2>5, <2>6
    <2>8. customer[c].limit[s] = UNLIMITED \/ used[c][s] < customer[c].limit[s]
      BY <2>2, <2>6, <2>7 DEF HasRoom
    <2>9. customer'[c].limit[s] = customer[c].limit[s]
      BY <2>1
    <2> QED
      BY <1>2, <1>3, <2>7, <2>8, <2>9
  <1>8. ASSUME NEW p \in Procs, NEW x \in Customers, CustomerCreateCommit(p, x)
        PROVE  FALSE
    <2>1. \A b \in Customers : b # x => customer'[b] = customer[b]
      BY <1>8 DEF CustomerCreateCommit, IInv, TypeOK
    <2>2. used' = used /\ used[x] = [r \in Services |-> 0]
      BY <1>8 DEF CustomerCreateCommit, IInv, Fresh
    <2>3. used'[c][s] = used[c][s]
      BY <2>2
    <2>4. c = x
      BY <1>2, <1>5, <2>1, <2>3
    <2> QED
      BY <1>3, <2>2, <2>4
  <1>9. ASSUME NEW p \in Procs, CustomerDeleteCommit(p)
        PROVE  FALSE
    <2> DEFINE x == proc[p].subject
    <2>1. \/ UNCHANGED <<customer, used>>
          \/ /\ customer' = [customer EXCEPT ![x].admin = "todelete",
                                             ![x].domain = IF @ = "absent" THEN @ ELSE "todelete"]
             /\ used' = [used EXCEPT ![x] = [r \in Services |-> 0]]
      BY <1>9 DEF CustomerDeleteCommit
    <2>2. x \in Customers
      BY <1>9, Committed DEF CustomerDeleteCommit, Doing, Facts
    <2>3. \A b \in Customers : b # x => customer'[b] = customer[b] /\ used'[b] = used[b]
      BY <2>1 DEF IInv, TypeOK
    <2>4. \/ UNCHANGED <<customer, used>>
          \/ used'[x] = [r \in Services |-> 0]
      BY <2>1, <2>2 DEF IInv, TypeOK
    <2>5. used'[c] = used[c] /\ customer'[c] = customer[c] => FALSE
      BY <1>2, <1>5
    <2>6. c = x /\ used'[x] = [r \in Services |-> 0]
      BY <2>3, <2>4, <2>5
    <2> QED
      BY <1>3, <2>6
  <1>10. ASSUME NEW x \in Customers, Settle(x)
         PROVE  FALSE
    <2>1. used' = used /\ customer'[c].limit = customer[c].limit
      BY <1>10, Settled DEF IInv
    <2> QED
      BY <1>2, <1>5, <2>1
  <1>11. ASSUME NEW x \in Customers, NEW t \in Services, GiveUp(x, t)
         PROVE  FALSE
    <2>1. /\ customer' = customer
          /\ used' = [used EXCEPT ![x][t] = @ - 1]
      BY <1>11 DEF GiveUp
    <2>2. used'[c][s] = used[c][s] \/ used'[c][s] = used[c][s] - 1
      BY <1>1, <2>1 DEF TypeOK
    <2> QED
      BY <1>2, <1>5, <2>1, <2>2
  <1>12. ~UNCHANGED <<customer, used>>
    BY <1>2, <1>5
  <1> QED
    BY <1>6, <1>6a, <1>7, <1>8, <1>9, <1>10, <1>11, <1>12, StepKinds
    DEF ResellerUpdateCommit, ResellerDeleteCommit, HostingPlanCreateCommit, HostingPlanUpdateCommit,
        HostingPlanDelete, ResellerCreate

(* Neither a mutation that uses a service nor a change of the limits takes *)
(* a customer past what it may use, but where the one overtakes the other  *)
(* (Guard::requireQuota, LimitRules::updateReason).                        *)
THEOREM OverusesOverlap == Spec => OverusedByOverlap
  <1>1. IInv /\ [Next]_vars
        => [\A c \in Customers : ~Overused(c) /\ Overused(c)' => \E p \in Procs : Overtaken(p)]_vars
    BY StepOveruses
  <1> QED
    BY <1>1, InvariantHolds, PTL DEF Spec, OverusedByOverlap

---------------------------------------------------------------------------
(* The counters. *)

LEMMA AgreesThen == \A r : Agree(r)' <=> current'[r] = Totals(r, customer')
  BY DEF Agree, Totals, Counted, Handed

(* A transaction that counts anew after changing a customer of q.          *)
LEMMA RecountFollows ==
    ASSUME IInv, NEW q \in Resellers, NEW c \in Customers,
           reseller' = reseller, Recount(q),
           \A b \in Customers : b # c => customer'[b] = customer[b],
           customer[c].owner \in {q, None}, customer'[c].owner = q,
           NEW r \in Resellers, reseller[r] = "ok", Agree(r)
    PROVE  Agree(r)'
  <1>1. DOMAIN current = Resellers
    BY DEF IInv, TypeOK
  <1>2. CASE r = q
    <2>1. current'[r] = Totals(r, customer')
      BY <1>1, <1>2 DEF Recount
    <2> QED
      BY <2>1, AgreesThen
  <1>3. CASE r # q
    <2>1. current'[r] = current[r]
      BY <1>1, <1>3 DEF Recount
    <2>2. r # None
      BY Configured
    <2>3. current[r] = Totals(r, customer)
      BY DEF Agree
    <2>4. Counted(r, customer') = Counted(r, customer) /\ c \notin Counted(r, customer)
      BY <1>3, <2>2 DEF Counted
    <2>5. \A b \in Counted(r, customer) : customer'[b].limit = customer[b].limit
      BY <2>4 DEF Counted
    <2>6. Totals(r, customer') = Totals(r, customer)
      BY <2>4, <2>5, SameTotals
    <2> QED
      BY <2>1, <2>3, <2>6, AgreesThen
  <1> QED
    BY <1>2, <1>3

(* A step that changes no counter, and of one customer at most the verbs.  *)
LEMMA VerbsFollow ==
    ASSUME NEW c \in Customers, current' = current,
           \A b \in Customers : b # c => customer'[b] = customer[b],
           customer'[c].owner = customer[c].owner, customer'[c].limit = customer[c].limit,
           NEW r \in Resellers, Agree(r),
           customer[c].owner = r => (c \in Counted(r, customer') <=> c \in Counted(r, customer))
    PROVE  Agree(r)'
  <1>1. Counted(r, customer') = Counted(r, customer)
    BY DEF Counted
  <1>2. \A b \in Counted(r, customer) : customer'[b].limit = customer[b].limit
    BY DEF Counted
  <1> QED
    BY <1>1, <1>2, SameTotals, AgreesThen DEF Agree

LEMMA StepFollows ==
    ASSUME IInv, [Next]_vars, NEW r \in Resellers, reseller[r] = "ok", Agree(r), ~Agree(r)'
    PROVE  \/ \E p \in Procs : SuspendsLate(p)
           \/ \E c \in Customers : customer[c].owner = r /\ (DeletionFails(c) \/ AccountTaken(c))
  <1>1. ~UNCHANGED <<customer, current>>
    BY AgreesThen DEF Agree
  <1>2. ASSUME NEW p \in Procs, NEW c \in Customers, CustomerCreateCommit(p, c)
        PROVE  FALSE
    <2> DEFINE q == proc[p].reseller
    <2>1. /\ q \in Resellers /\ reseller' = reseller /\ Recount(q)
          /\ \A b \in Customers : b # c => customer'[b] = customer[b]
          /\ customer[c] = NoRows
          /\ customer'[c] = [owner |-> q, admin |-> "toadd", domain |-> "toadd", limit |-> proc[p].limits]
      BY <1>2, CreateChanges
    <2>2. customer[c].owner = None /\ customer'[c].owner = q
      BY <2>1 DEF NoRows
    <2> HIDE DEF q
    <2> QED
      BY <2>1, <2>2, RecountFollows
  <1>3. ASSUME NEW p \in Procs, CustomerUpdateCommit(p)
        PROVE  FALSE
    <2> DEFINE c == proc[p].subject
               q == proc[p].reseller
    <2>1. /\ c \in Customers /\ q \in Resellers /\ customer[c].owner = q /\ customer'[c].owner = q
          /\ reseller' = reseller /\ Recount(q)
          /\ \A b \in Customers : b # c => customer'[b] = customer[b]
      BY <1>3, UpdateChanges
    <2> HIDE DEF c, q
    <2> QED
      BY <2>1, RecountFollows
  <1>4. ASSUME NEW p \in Procs, CustomerDeleteCommit(p)
        PROVE  FALSE
    <2> DEFINE c == proc[p].subject
               q == proc[p].reseller
    <2>1. /\ c \in Customers /\ q \in Resellers /\ customer[c].owner = q /\ customer'[c].owner = q
          /\ reseller' = reseller /\ (Recount(q) \/ UNCHANGED <<customer, current>>)
          /\ \A b \in Customers : b # c => customer'[b] = customer[b]
      BY <1>4, DeleteChanges
    <2> HIDE DEF c, q
    <2> QED
      BY <1>1, <2>1, RecountFollows
  <1>5. ASSUME NEW p \in Procs, CustomerSetStateCommit(p), ~SuspendsLate(p)
        PROVE  FALSE
    <2> DEFINE c == proc[p].subject
    <2>1. /\ c \in Customers /\ current' = current
          /\ \A b \in Customers : b # c => customer'[b] = customer[b]
          /\ customer'[c].owner = customer[c].owner /\ customer'[c].limit = customer[c].limit
          /\ customer'[c].admin = customer[c].admin
          /\ customer'[c].domain = IF customer[c].domain = "absent" THEN "absent" ELSE proc[p].name
          /\ proc[p].name \in Verbs
          /\ Overtaken(p) \/ customer[c].domain \in {"ok", "disabled"}
      BY <1>5, SetStateChanges
    <2>2. customer[c].domain \in {"ok", "disabled"}
      BY <1>5, <2>1 DEF SuspendsLate, CustomerSetStateCommit
    <2> HIDE DEF c
    <2>3. c \in Counted(r, customer') <=> c \in Counted(r, customer)
      BY <2>1, <2>2 DEF Counted, Verbs
    <2> QED
      BY <2>1, <2>3, VerbsFollow
  <1>6. ASSUME NEW c \in Customers, Settle(c),
               ~(customer[c].owner = r /\ (DeletionFails(c) \/ AccountTaken(c)))
        PROVE  FALSE
    <2>1. /\ current' = current
          /\ \A b \in Customers : b # c => customer'[b] = customer[b]
          /\ customer'[c].owner = customer[c].owner /\ customer'[c].limit = customer[c].limit
      BY <1>6, Settled DEF IInv
    <2>2. ASSUME customer[c].owner = r
          PROVE  c \in Counted(r, customer') <=> c \in Counted(r, customer)
      <3>1. /\ ~(customer[c].domain = "todelete" /\ customer'[c].domain = "error")
            /\ ~(c \in Counted(r, customer) /\ customer'[c].admin = "absent")
        BY <1>6, <2>2 DEF DeletionFails, AccountTaken
      <3>2. /\ customer'[c].admin # "absent" => customer[c].admin # "absent"
            /\ customer'[c].domain # "absent" => customer[c].domain # "absent"
            /\ customer[c].domain = "todelete" => customer'[c].domain \in {"todelete", "absent", "error"}
            /\ customer'[c].domain = "absent" => customer[c].domain \in {"todelete", "absent"}
            /\ customer'[c].domain = "todelete" => customer[c].domain = "todelete"
        BY <1>6, SettledStays DEF IInv
      <3> QED
        BY <2>1, <3>1, <3>2 DEF Counted
    <2> QED
      BY <2>1, <2>2, VerbsFollow
  <1>7. \A x \in Resellers, limits \in [Allowances -> Limits] : ResellerCreate(x, limits) => FALSE
    BY <1>1 DEF ResellerCreate
  <1> QED
    BY <1>1, <1>2, <1>3, <1>4, <1>5, <1>6, <1>7, StepKinds
    DEF ResellerUpdateCommit, ResellerDeleteCommit, HostingPlanCreateCommit, HostingPlanUpdateCommit,
        HostingPlanDelete, UseCommit, GiveUp

(* The counters agree with the customers' rows through every operation,    *)
(* also where those of several processes overtake each other.  They part   *)
(* from them where nothing counts anew: when the daemon fails to delete a  *)
(* domain or takes the account of one that counts, and when a suspension   *)
(* is written over a deletion (CustomerService::updateResellerCounters,    *)
(* which ::setState does not call).                                        *)
THEOREM CountersAgree == Spec => CountersFollow
  <1>1. IInv /\ [Next]_vars
        => [\A r \in Resellers :
                reseller[r] = "ok" /\ ~Agree(r)' /\ Agree(r) =>
                    \/ \E p \in Procs : SuspendsLate(p)
                    \/ \E c \in Customers : customer[c].owner = r /\ (DeletionFails(c) \/ AccountTaken(c))]_vars
    BY StepFollows
  <1> QED
    BY <1>1, InvariantHolds, PTL DEF Spec, CountersFollow

---------------------------------------------------------------------------
(* What a decided request has found room for, until another one overtakes. *)

(* A new limit of a customer, beside what the others hold.                 *)
Affordable(r, c, s, new) ==
    LET have == customer[c].limit[s]
        top  == max[r][s]
    IN  \/ have = WITHHELD
        \/ top = UNLIMITED
        \/ new # UNLIMITED /\ new <= (top - current[r][s]) + have

Afforded(w) ==
    /\ w.op = "resellerUpdate" => \A s \in DOMAIN w.limits : NotBelowUsed(w.reseller, s, w.limits[s])
    /\ w.op = "customerCreate" => HasRoomFor(w.reseller, w.limits)
    /\ w.op = "customerUpdate" =>
          (w.limits # NoLimits => \A s \in Services : Affordable(w.reseller, w.subject, s, w.limits[s]))

RoomInv == \A p \in Procs : p \notin overtaken => Afforded(proc[p])

LEMMA AffordedStays ==
    ASSUME NEW w \in Works, w # Idle, Facts(w), Afforded(w),
           max'[w.reseller] = max[w.reseller], current'[w.reseller] = current[w.reseller],
           \A c \in Customers : customer[c].owner = w.reseller => customer'[c].limit = customer[c].limit
    PROVE  Afforded(w)'
  <1>1. w.op = "resellerUpdate" => \A s \in DOMAIN w.limits : NotBelowUsed(w.reseller, s, w.limits[s])'
    BY DEF Afforded, NotBelowUsed
  <1>2. w.op = "customerCreate" => HasRoomFor(w.reseller, w.limits)'
    BY DEF Afforded, HasRoomFor, Refused
  <1>3. ASSUME w.op = "customerUpdate", w.limits # NoLimits
        PROVE  \A s \in Services : Affordable(w.reseller, w.subject, s, w.limits[s])'
    <2>1. customer'[w.subject].limit = customer[w.subject].limit
      BY <1>3 DEF Facts
    <2> QED
      BY <1>3, <2>1 DEF Afforded, Affordable
  <1> QED
    BY <1>1, <1>2, <1>3 DEF Afforded

LEMMA IdleAffords == Afforded(Idle)
  BY IdleWork DEF Afforded

(* What is decided on has been found affordable. *)
LEMMA ChecksAfford ==
    ASSUME IInv, NEW p \in Procs, Check(p)
    PROVE  \E w \in Works : Decide(p, w) /\ Afforded(w)
  <1>1. ASSUME NEW w \in Works, w.op \in {"resellerDelete", "hostingPlanCreate", "hostingPlanUpdate",
                                         "customerSetState", "customerDelete", "use"}
        PROVE  Afforded(w)
    BY <1>1 DEF Afforded
  <1>2. ASSUME NEW op, NEW r \in Resellers, NEW x \in Customers \cup Plans \cup {None},
               NEW limits \in Wanted, NEW name \in Names \cup Services \cup Verbs \cup {None},
               Decide(p, Work(op, r, x, limits, name)),
               op \in {"resellerDelete", "hostingPlanCreate", "hostingPlanUpdate", "customerSetState",
                      "customerDelete", "use"}
        PROVE  \E w \in Works : Decide(p, w) /\ Afforded(w)
    <2>1. Work(op, r, x, limits, name) \in Works /\ Work(op, r, x, limits, name).op = op
      BY <1>2, DecideWork, WorkFields
    <2> QED
      BY <1>1, <1>2, <2>1
  <1>3. ASSUME NEW r \in Resellers, NEW limits \in Wanted, ResellerUpdateCheck(p, r, limits)
        PROVE  \E w \in Works : Decide(p, w) /\ Afforded(w)
    <2> DEFINE w == Work("resellerUpdate", r, None, limits, None)
    <2>1. Decide(p, w) /\ \A s \in DOMAIN limits : NotBelowUsed(r, s, limits[s])
      BY <1>3 DEF ResellerUpdateCheck
    <2>2. w \in Works /\ w.op = "resellerUpdate" /\ w.reseller = r /\ w.limits = limits
      BY <2>1, DecideWork, WorkFields
    <2> HIDE DEF w
    <2>3. Afforded(w)
      BY <2>1, <2>2 DEF Afforded
    <2> QED
      BY <2>1, <2>2, <2>3
  <1>4. ASSUME NEW r \in Resellers, NEW limits \in [Services -> Limits], CustomerCreateCheck(p, r, limits)
        PROVE  \E w \in Works : Decide(p, w) /\ Afforded(w)
    <2> DEFINE w == Work("customerCreate", r, None, limits, None)
    <2>1. Decide(p, w) /\ HasRoomFor(r, limits) /\ limits \in Wanted
      BY <1>4, WantedLimits DEF CustomerCreateCheck
    <2>2. w \in Works /\ w.op = "customerCreate" /\ w.reseller = r /\ w.limits = limits
      BY <2>1, DecideWork, WorkFields
    <2> HIDE DEF w
    <2>3. Afforded(w)
      BY <2>1, <2>2 DEF Afforded
    <2> QED
      BY <2>1, <2>2, <2>3
  <1>5. ASSUME NEW c \in Customers, NEW limits \in [Services -> Limits] \cup {NoLimits},
               NEW writes \in SUBSET {"admin", "domain"}, CustomerUpdateCheck(p, c, limits, writes)
        PROVE  \E w \in Works : Decide(p, w) /\ Afforded(w)
    <2> DEFINE r == customer[c].owner
               w == UpdateOf(c, limits, writes)
    <2>1. /\ Decide(p, w) /\ customer[c].admin # "absent" /\ limits \in Wanted
          /\ limits # NoLimits => \A s \in Services : Fits(r, c, s, limits[s])
      BY <1>5, WantedLimits DEF CustomerUpdateCheck, IsCustomer
    <2>2. r \in Resellers
      BY <2>1, RowFacts DEF IInv
    <2>3. w \in Works /\ w.op = "customerUpdate" /\ w.reseller = r /\ w.subject = c /\ w.limits = limits
      BY <2>1, <2>2, UpdateWork
    <2>4. ASSUME limits # NoLimits, NEW s \in Services
          PROVE  Affordable(r, c, s, limits[s])
      <3>1. limits[s] \in Int
        BY <2>4, Numbers
      <3>2. customer[c].limit[s] \in Int
        BY Numbers DEF IInv, TypeOK
      <3>3. max[r][s] \in Int
        BY <2>2, Numbers DEF IInv, TypeOK, Allowances
      <3>4. current[r][s] \in Nat
        BY <2>2 DEF IInv, TypeOK, Allowances
      <3>5. Fits(r, c, s, limits[s])
        BY <2>1, <2>4
      <3> HIDE DEF r
      <3> QED
        BY <3>1, <3>2, <3>3, <3>4, <3>5 DEF Fits, Affordable
    <2> HIDE DEF w, r
    <2>5. Afforded(w)
      BY <2>1, <2>3, <2>4 DEF Afforded
    <2> QED
      BY <2>1, <2>3, <2>5
  <1>6. ASSUME NEW r \in Resellers, ResellerDeleteCheck(p, r)
        PROVE  \E w \in Works : Decide(p, w) /\ Afforded(w)
    BY <1>2, <1>6, WantedLimits DEF ResellerDeleteCheck
  <1>7. ASSUME NEW r \in Resellers, NEW name \in Names, HostingPlanCreateCheck(p, r, name)
        PROVE  \E w \in Works : Decide(p, w) /\ Afforded(w)
    BY <1>2, <1>7, WantedLimits DEF HostingPlanCreateCheck
  <1>8. ASSUME NEW h \in Plans, NEW name \in Names, HostingPlanUpdateCheck(p, h, name)
        PROVE  \E w \in Works : Decide(p, w) /\ Afforded(w)
    <2>1. plan[h].reseller \in Resellers
      BY <1>8, PlanKinds DEF HostingPlanUpdateCheck, IInv, TypeOK
    <2> QED
      BY <1>2, <1>8, <2>1, WantedLimits DEF HostingPlanUpdateCheck
  <1>9. ASSUME NEW c \in Customers,
               \/ \E verb \in Verbs : CustomerSetStateCheck(p, c, verb)
               \/ CustomerDeleteCheck(p, c)
               \/ \E s \in Services : UseCheck(p, c, s)
        PROVE  \E w \in Works : Decide(p, w) /\ Afforded(w)
    <2>1. customer[c].owner \in Resellers
      BY <1>9, RowFacts DEF CustomerSetStateCheck, CustomerDeleteCheck, UseCheck, IsCustomer, IInv
    <2> QED
      BY <1>2, <1>9, <2>1, WantedLimits DEF CustomerSetStateCheck, CustomerDeleteCheck, UseCheck
  <1> QED
    BY <1>3, <1>4, <1>5, <1>6, <1>7, <1>8, <1>9 DEF Check

---------------------------------------------------------------------------
(* What has been found room for stays affordable. *)

(* A transaction changes what its own reseller's requests rest on. *)
LEMMA CommitAffords ==
    ASSUME IInv, RoomInv, NEW p \in Procs, Busy(p), Commit(p), NEW r, r = proc[p].reseller,
           \A x \in Resellers : x # r => max'[x] = max[x] /\ current'[x] = current[x],
           \A c \in Customers : customer[c].owner \in Resellers \ {r} => customer'[c].limit = customer[c].limit
    PROVE  \A q \in Procs : q \notin overtaken' => Afforded(proc[q])'
  <1> SUFFICES ASSUME NEW q \in Procs, q \notin overtaken'
               PROVE  Afforded(proc[q])'
    OBVIOUS
  <1>1. \A u \in Works : proc'[q] = u => (Afforded(u)' => Afforded(proc[q])')
    BY DEF Afforded
  <1>2. CASE q = p
    <2>1. proc'[q] = Idle
      BY <1>2 DEF IInv, TypeOK, Commit
    <2> QED
      BY <2>1, IdleWork DEF Afforded
  <1>3. CASE q # p
    <2>1. proc'[q] = proc[q] /\ proc[q] \in Works /\ Facts(proc[q])
      BY <1>3 DEF IInv, TypeOK, Commit
    <2>2. CASE proc[q] = Idle
      BY <2>1, <2>2, IdleWork DEF Afforded
    <2>3. CASE proc[q] # Idle
      <3>1. q \notin overtaken /\ proc[q].reseller # r /\ proc[q].reseller \in Resellers
        BY <1>3, <2>1, <2>3, IdleWork DEF Commit, Busy
      <3>2. Afforded(proc[q])
        BY <3>1 DEF RoomInv
      <3> DEFINE w == proc[q]
      <3>3. w \in Works /\ w # Idle /\ Facts(w) /\ Afforded(w) /\ w.reseller # r /\ w.reseller \in Resellers
        BY <2>1, <2>3, <3>1, <3>2
      <3>4. proc'[q] = w
        BY <2>1
      <3>5. \E u \in Works : u = w
        BY <3>3
      <3> HIDE DEF w
      <3>6. PICK u \in Works : u = w
        BY <3>5
      <3>7. u # Idle /\ Facts(u) /\ Afforded(u)
        BY <3>3, <3>6
      <3>8. max'[u.reseller] = max[u.reseller] /\ current'[u.reseller] = current[u.reseller]
        BY <3>3, <3>6
      <3>9. \A c \in Customers : customer[c].owner = u.reseller => customer'[c].limit = customer[c].limit
        BY <3>3, <3>6
      <3>10. Afforded(u)'
        BY <3>7, <3>8, <3>9, AffordedStays
      <3> QED
        BY <1>1, <3>4, <3>6, <3>10
    <2> QED
      BY <2>2, <2>3
  <1> QED
    BY <1>2, <1>3

(* A step of nobody's request changes nothing they rest on. *)
LEMMA RestAffords ==
    ASSUME IInv, RoomInv, UNCHANGED <<proc, overtaken, current>>,
           \A x \in Resellers : reseller[x] # "absent" => max'[x] = max[x],
           \A c \in Customers : customer'[c].limit = customer[c].limit
    PROVE  \A q \in Procs : q \notin overtaken' => Afforded(proc[q])'
  <1> SUFFICES ASSUME NEW q \in Procs, q \notin overtaken'
               PROVE  Afforded(proc[q])'
    OBVIOUS
  <1>1. \A u \in Works : proc'[q] = u => (Afforded(u)' => Afforded(proc[q])')
    BY DEF Afforded
  <1>2. proc[q] \in Works /\ Facts(proc[q]) /\ Afforded(proc[q])
    BY DEF IInv, TypeOK, RoomInv
  <1>3. PICK u \in Works : u = proc[q]
    BY <1>2
  <1>4. CASE u = Idle
    BY <1>1, <1>3, <1>4, IdleWork DEF Afforded
  <1>5. CASE u # Idle
    <2>1. Facts(u) /\ Afforded(u)
      BY <1>2, <1>3
    <2>2. max'[u.reseller] = max[u.reseller]
      BY <1>5, <2>1, IdleWork DEF Facts
    <2>3. Afforded(u)'
      BY <1>5, <2>1, <2>2, AffordedStays
    <2> QED
      BY <1>1, <1>3, <2>3
  <1> QED
    BY <1>4, <1>5

(* A request that is decided on, or rolled back. *)
LEMMA ProcAffords ==
    ASSUME IInv, RoomInv, NEW p \in Procs, NEW w \in Works, Afforded(w),
           proc' = [proc EXCEPT ![p] = w], overtaken' = overtaken \ {p},
           UNCHANGED <<reseller, max, current, customer, used, plan>>
    PROVE  \A q \in Procs : q \notin overtaken' => Afforded(proc[q])'
  <1> SUFFICES ASSUME NEW q \in Procs, q \notin overtaken'
               PROVE  Afforded(proc[q])'
    OBVIOUS
  <1>1. \A u \in Works : proc'[q] = u => (Afforded(u)' => Afforded(proc[q])')
    BY DEF Afforded
  <1>2. \A u \in Works : Afforded(u) => Afforded(u)'
    BY DEF Afforded, NotBelowUsed, HasRoomFor, Refused, Affordable
  <1>3. CASE q = p
    <2>1. proc'[q] = w
      BY <1>3 DEF IInv, TypeOK
    <2> QED
      BY <1>1, <1>2, <2>1
  <1>4. CASE q # p
    <2>1. proc'[q] = proc[q] /\ proc[q] \in Works /\ Afforded(proc[q])
      BY <1>4 DEF IInv, TypeOK, RoomInv
    <2> QED
      BY <1>1, <1>2, <2>1
  <1> QED
    BY <1>3, <1>4

LEMMA RecountChanges ==
    ASSUME TypeOK, NEW q \in Resellers, Recount(q)
    PROVE  \A x \in Resellers : x # q => current'[x] = current[x]
  BY DEF Recount, TypeOK

LEMMA RoomKeeps == IInv /\ RoomInv /\ [Next]_vars => RoomInv'
  <1> SUFFICES ASSUME IInv, RoomInv, [Next]_vars
               PROVE  RoomInv'
    OBVIOUS
  <1> DEFINE Kept == \A q \in Procs : q \notin overtaken' => Afforded(proc[q])'
  <1>1. ASSUME NEW p \in Procs, Check(p)
        PROVE  Kept
    <2>1. PICK w \in Works : Decide(p, w) /\ Afforded(w)
      BY <1>1, ChecksAfford
    <2> QED
      BY <2>1, ProcAffords DEF Decide
  <1>2. ASSUME NEW p \in Procs, RollBack(p)
        PROVE  Kept
    BY <1>2, ProcAffords, IdleAffords, IdleWork DEF RollBack
  <1>3. ASSUME NEW p \in Procs, Busy(p), Commit(p), UNCHANGED <<max, current, customer>>
        PROVE  Kept
    BY <1>3, CommitAffords
  <1>4. ASSUME NEW p \in Procs, ResellerUpdateCommit(p)
        PROVE  Kept
    <2> DEFINE r == proc[p].reseller
    <2>1. Busy(p) /\ Commit(p) /\ UNCHANGED <<current, customer>>
      BY <1>4 DEF ResellerUpdateCommit, Doing
    <2>2. \A x \in Resellers : x # r => max'[x] = max[x]
      BY <1>4 DEF ResellerUpdateCommit, IInv, TypeOK
    <2> QED
      BY <2>1, <2>2, CommitAffords
  <1>5. ASSUME NEW p \in Procs, ResellerDeleteCommit(p) \/ HostingPlanUpdateCommit(p) \/ UseCommit(p)
                                 \/ \E h \in Plans : HostingPlanCreateCommit(p, h)
        PROVE  Kept
    <2>1. Busy(p) /\ Commit(p) /\ UNCHANGED <<max, current, customer>>
      BY <1>5 DEF ResellerDeleteCommit, HostingPlanUpdateCommit, UseCommit, HostingPlanCreateCommit, Doing
    <2> QED
      BY <1>3, <2>1
  <1>6. ASSUME NEW p \in Procs, NEW c \in Customers, CustomerCreateCommit(p, c)
        PROVE  Kept
    <2> DEFINE r == proc[p].reseller
    <2>1. Busy(p) /\ Commit(p) /\ max' = max
      BY <1>6 DEF CustomerCreateCommit, Doing
    <2>2. \A x \in Resellers : x # r => current'[x] = current[x]
      BY <1>6, CreateChanges, RecountChanges DEF IInv
    <2>3. /\ customer[c] = NoRows
          /\ \A b \in Customers : b # c => customer'[b] = customer[b]
      BY <1>6, CreateChanges
    <2>4. customer[c].owner \notin Resellers
      BY <2>3, Configured DEF NoRows
    <2>5. \A b \in Customers : customer[b].owner \in Resellers => customer'[b].limit = customer[b].limit
      BY <2>3, <2>4
    <2> HIDE DEF r
    <2> QED
      BY <2>1, <2>2, <2>5, CommitAffords DEF r
  <1>7. ASSUME NEW p \in Procs, CustomerUpdateCommit(p) \/ CustomerSetStateCommit(p) \/ CustomerDeleteCommit(p)
        PROVE  Kept
    <2> DEFINE r == proc[p].reseller
               c == proc[p].subject
    <2>1. Busy(p) /\ Commit(p) /\ max' = max
      BY <1>7 DEF CustomerUpdateCommit, CustomerSetStateCommit, CustomerDeleteCommit, Doing
    <2>2. /\ c \in Customers /\ customer[c].owner = r
          /\ Recount(r) \/ current' = current
          /\ \A b \in Customers : b # c => customer'[b] = customer[b]
      BY <1>7, UpdateChanges, SetStateChanges, DeleteChanges
    <2> HIDE DEF c
    <2>2a. r \in Resellers
      BY <2>1, Committed, IdleWork
    <2>3. \A x \in Resellers : x # r => current'[x] = current[x]
      BY <2>2, <2>2a, RecountChanges DEF IInv
    <2>4. \A b \in Customers : customer[b].owner # r => customer'[b].limit = customer[b].limit
      BY <2>2
    <2> QED
      BY <2>1, <2>3, <2>4, CommitAffords
  <1>8. ASSUME NEW r \in Resellers, NEW limits \in [Allowances -> Limits], ResellerCreate(r, limits)
        PROVE  Kept
    <2>1. /\ UNCHANGED <<proc, overtaken, current, customer>>
          /\ \A x \in Resellers : reseller[x] # "absent" => max'[x] = max[x]
      BY <1>8 DEF ResellerCreate, IInv, TypeOK
    <2> QED
      BY <2>1, RestAffords
  <1>9. ASSUME NEW c \in Customers, Settle(c)
        PROVE  Kept
    <2>1. UNCHANGED <<max, current, proc, overtaken>>
      BY <1>9, Settled DEF IInv
    <2>2. \A b \in Customers : customer'[b].limit = customer[b].limit
      BY <1>9, Settled DEF IInv
    <2> QED
      BY <2>1, <2>2, RestAffords
  <1>10. ASSUME UNCHANGED <<max, current, customer, proc, overtaken>>
         PROVE  Kept
    BY <1>10, RestAffords
  <1> HIDE DEF Kept
  <1>11. Kept
    BY <1>1, <1>2, <1>4, <1>5, <1>6, <1>7, <1>8, <1>9, <1>10
    DEF Next, Transaction, vars, HostingPlanDelete, GiveUp
  <1> QED
    BY <1>11 DEF RoomInv, Kept

LEMMA RoomHolds == Spec => [](IInv /\ RoomInv)
  <1>1. Init => RoomInv
    <2> SUFFICES ASSUME Init
                 PROVE  RoomInv
      OBVIOUS
    <2>1. \A p \in Procs : proc[p] = Idle
      BY DEF Init
    <2> QED
      BY <2>1, IdleWork DEF RoomInv, Afforded
  <1>2. IInv /\ RoomInv /\ [Next]_vars => (IInv /\ RoomInv)'
    BY NextKeeps, RoomKeeps
  <1> QED
    BY <1>1, <1>2, InitHolds, PTL DEF Spec

---------------------------------------------------------------------------
(* Overselling. *)

(* The daemon only takes away from what a reseller's customers hold, but   *)
(* where it fails at a deletion.                                           *)
LEMMA SettleTakes ==
    ASSUME IInv, NEW c \in Customers, Settle(c), NEW r, NEW s \in Allowances,
           ~(customer[c].owner = r /\ DeletionFails(c))
    PROVE  Totals(r, customer')[s] <= Totals(r, customer)[s]
  <1>1. /\ customer \in [Customers -> Rows] /\ customer' \in [Customers -> Rows]
        /\ \A b \in Customers : b # c => customer'[b] = customer[b]
        /\ customer'[c].owner = customer[c].owner /\ customer'[c].limit = customer[c].limit
    BY Settled DEF IInv, TypeOK
  <1>2. PICK rest \in Nat : /\ Totals(r, customer)[s] = Part(r, c, s, customer) + rest
                           /\ Totals(r, customer')[s] = Part(r, c, s, customer') + rest
    BY <1>1, TotalsChange
  <1>3. Part(r, c, s, customer) \in Nat /\ Part(r, c, s, customer') \in Nat
    BY <1>1, PartsAreNumbers
  <1>4. c \in Counted(r, customer') => c \in Counted(r, customer)
    <2>1. /\ customer'[c].admin # "absent" => customer[c].admin # "absent"
          /\ customer'[c].domain # "absent" => customer[c].domain # "absent"
          /\ customer[c].domain = "todelete" => customer'[c].domain \in {"todelete", "absent", "error"}
      BY SettledStays DEF IInv
    <2> QED
      BY <1>1, <2>1 DEF Counted, DeletionFails
  <1>5. Handed(c, s, customer') = Handed(c, s, customer)
    BY <1>1 DEF Handed
  <1>6. Part(r, c, s, customer') \in {0, Part(r, c, s, customer)}
    BY <1>4, <1>5 DEF Part
  <1> QED
    BY <1>2, <1>3, <1>6

LEMMA StepOversells ==
    ASSUME IInv, RoomInv, [Next]_vars, NEW r \in Resellers, reseller[r] = "ok",
           ~Oversold(r), Oversold(r)', ~Understated(r)
    PROVE  \/ \E p \in Procs : Overtaken(p) \/ Regrants(p)
           \/ \E c \in Customers : customer[c].owner = r /\ DeletionFails(c)
  <1>1. PICK s \in Allowances : Exceeds(Totals(r, customer')[s], max'[r][s])
    BY DEF Oversold, Exceeds, Totals, Counted, Handed
  <1> DEFINE old == Totals(r, customer)[s]
             new == Totals(r, customer')[s]
             top == max[r][s]
  <1>2. /\ customer \in [Customers -> Rows] /\ customer' \in [Customers -> Rows]
        /\ max \in [Resellers -> [Allowances -> Limits \cup {0}]]
    BY NextKeeps DEF IInv, TypeOK
  <1>3. /\ old \in Nat /\ new \in Nat
        /\ top \in Int /\ (top < 0 => top = WITHHELD)
        /\ current[r][s] \in Nat /\ old <= current[r][s]
    <2>1. old \in Nat /\ new \in Nat
      BY <1>2, TotalsAreNumbers
    <2>2. top \in Limits \cup {0}
      BY <1>2
    <2>3. top \in Int /\ (top < 0 => top = WITHHELD)
      BY <2>2, Numbers
    <2>4. current[r][s] \in Nat /\ ~(current[r][s] < old)
      BY DEF IInv, TypeOK, Understated
    <2> HIDE DEF old, new, top
    <2> QED
      BY <2>1, <2>3, <2>4
  <1>4. ~Exceeds(old, top) /\ Exceeds(new, max'[r][s])
    BY <1>1 DEF Oversold
  <1>5. ASSUME max'[r] = max[r], new <= old
        PROVE  FALSE
    <2> HIDE DEF old, new
    <2> QED
      BY <1>3, <1>4, <1>5 DEF Exceeds, WITHHELD, UNLIMITED
  <1>6. ASSUME max'[r] = max[r], customer' = customer
        PROVE  FALSE
    BY <1>3, <1>5, <1>6
  <1>7. ASSUME NEW p \in Procs, Busy(p), Commit(p), ~Overtaken(p)
        PROVE  proc[p] \in Works /\ Facts(proc[p]) /\ Promise(proc[p]) /\ Afforded(proc[p])
               /\ proc'[p] # proc[p]
    <2>1. proc'[p] = Idle
      BY <1>7 DEF Commit, IInv, TypeOK
    <2>2. p \notin overtaken /\ proc'[p] # proc[p]
      BY <1>7, <2>1 DEF Busy, Overtaken
    <2> QED
      BY <1>7, <2>2, Committed DEF RoomInv
  <1>8. ASSUME NEW p \in Procs, ResellerUpdateCommit(p), ~Overtaken(p)
        PROVE  FALSE
    <2> DEFINE w == proc[p]
    <2>1. /\ Doing(p, "resellerUpdate") /\ Commit(p) /\ customer' = customer
          /\ max' = IF reseller[w.reseller] = "ok"
                    THEN [max EXCEPT ![w.reseller] = [t \in Allowances |->
                             IF t \in DOMAIN w.limits THEN w.limits[t] ELSE max[w.reseller][t]]]
                    ELSE max
      BY <1>8 DEF ResellerUpdateCommit
    <2>2. Afforded(w) /\ w.op = "resellerUpdate"
      BY <1>7, <1>8, <2>1 DEF Doing
    <2>3. r = w.reseller
      BY <1>2, <1>6, <2>1
    <2>4. max'[r][s] = IF s \in DOMAIN w.limits THEN w.limits[s] ELSE top
      BY <1>2, <2>1, <2>3
    <2>5. new = old
      BY <2>1
    <2>6. s \in DOMAIN w.limits /\ NotBelowUsed(r, s, w.limits[s])
      BY <1>4, <2>2, <2>3, <2>4, <2>5 DEF Afforded
    <2>7. w.limits[s] \in Int
      <3>1. w \in Works /\ w # Idle
        BY <1>8, <2>1, Committed DEF Doing
      <3> QED
        BY <2>6, <3>1, IdleWork, WantedLimits, Numbers
    <2> DEFINE want == w.limits[s]
    <2>8. Exceeds(old, want) /\ want \in Int /\ NotBelowUsed(r, s, want)
      BY <1>4, <2>4, <2>5, <2>6, <2>7
    <2> HIDE DEF old, new, want
    <2> QED
      BY <1>3, <2>8 DEF Exceeds, NotBelowUsed, WITHHELD, UNLIMITED
  <1>9. ASSUME NEW p \in Procs, NEW c \in Customers, CustomerCreateCommit(p, c), ~Overtaken(p)
        PROVE  FALSE
    <2> DEFINE w == proc[p]
    <2>1. Doing(p, "customerCreate") /\ Commit(p) /\ max' = max
      BY <1>9 DEF CustomerCreateCommit
    <2>2. Afforded(w) /\ Facts(w) /\ w.op = "customerCreate"
      BY <1>7, <1>9, <2>1 DEF Doing
    <2>3. HasRoomFor(w.reseller, w.limits) /\ w.limits \in [Services -> Limits]
      BY <2>2 DEF Afforded, Facts
    <2>4. /\ \A b \in Customers : b # c => customer'[b] = customer[b]
          /\ customer[c] = NoRows
          /\ customer'[c] = [owner |-> w.reseller, admin |-> "toadd", domain |-> "toadd", limit |-> w.limits]
      BY <1>9, CreateChanges
    <2>5. c \notin Counted(r, customer)
      BY <2>4 DEF Counted, NoRows
    <2>6. PICK rest \in Nat : old = Part(r, c, s, customer) + rest /\ new = Part(r, c, s, customer') + rest
      BY <1>2, <2>4, TotalsChange
    <2>7. old = rest
      BY <2>5, <2>6 DEF Part
    <2>8. c \in Counted(r, customer') /\ r = w.reseller
      <3>1. ASSUME c \notin Counted(r, customer')
            PROVE  FALSE
        <4>1. new = old
          BY <2>6, <2>7, <3>1 DEF Part
        <4> QED
          BY <1>3, <1>5, <2>1, <4>1
      <3> QED
        BY <2>4, <3>1 DEF Counted
    <2>9. CASE s = "customers"
      <3>1. new = 1 + old
        BY <2>6, <2>7, <2>8, <2>9 DEF Part
      <3>2. top = UNLIMITED \/ current[r][s] + 1 <= top
        BY <2>3, <2>8, <2>9 DEF HasRoomFor
      <3>3. Exceeds(new, top)
        BY <1>4, <2>1
      <3> DEFINE counter == current[r][s]
      <3>4. /\ old \in Nat /\ top \in Int /\ (top < 0 => top = WITHHELD)
            /\ counter \in Nat /\ old <= counter /\ (top = UNLIMITED \/ counter + 1 <= top)
        BY <1>3, <3>2
      <3> HIDE DEF old, new, top, counter
      <3> QED
        BY <3>1, <3>3, <3>4 DEF Exceeds, WITHHELD, UNLIMITED
    <2>10. CASE s \in Services
      <3> DEFINE want == w.limits[s]
      <3>1. want \in Int /\ (want < 0 => want = WITHHELD)
        BY <2>3, <2>10, Numbers
      <3>2. new = (IF want > 0 THEN want ELSE 0) + old
        BY <2>4, <2>6, <2>7, <2>8, <2>10, NoSuchService DEF Part, Handed
      <3>3. \/ top = UNLIMITED
            \/ want = WITHHELD
            \/ want # UNLIMITED /\ ~(current[r][s] + want > top)
        BY <2>3, <2>8, <2>10 DEF HasRoomFor, Refused
      <3>4. Exceeds(new, top) /\ ~Exceeds(old, top)
        BY <1>4, <2>1
      <3> HIDE DEF old, new, top, want
      <3> QED
        BY <1>3, <3>1, <3>2, <3>3, <3>4 DEF Exceeds, WITHHELD, UNLIMITED
    <2> QED
      BY <2>9, <2>10 DEF Allowances
  <1>10. ASSUME NEW p \in Procs, CustomerUpdateCommit(p), ~Overtaken(p), ~Regrants(p)
         PROVE  FALSE
    <2> DEFINE w == proc[p]
               c == w.subject
    <2>1. Doing(p, "customerUpdate") /\ Commit(p) /\ max' = max
      BY <1>10 DEF CustomerUpdateCommit
    <2>2. Afforded(w) /\ Facts(w) /\ w.op = "customerUpdate" /\ proc'[p] # proc[p]
      BY <1>7, <1>10, <2>1 DEF Doing
    <2>3. /\ c \in Customers /\ customer[c].owner = w.reseller /\ customer'[c].owner = w.reseller
          /\ customer[c].admin # "absent" /\ customer'[c].admin # "absent"
          /\ customer'[c].domain \in {"tochange", customer[c].domain}
          /\ customer'[c].limit = IF w.limits = NoLimits THEN customer[c].limit ELSE w.limits
          /\ \A b \in Customers : b # c => customer'[b] = customer[b]
      BY <1>10, UpdateChanges DEF IsCustomer
    <2>4. customer[c].domain \in {"ok", "disabled"}
      BY <1>10, UpdateChanges
    <2>5. c \in Counted(r, customer) <=> r = w.reseller
      BY <2>3, <2>4 DEF Counted
    <2>6. c \in Counted(r, customer') <=> r = w.reseller
      BY <2>3, <2>4 DEF Counted
    <2>7. PICK rest \in Nat : old = Part(r, c, s, customer) + rest /\ new = Part(r, c, s, customer') + rest
      <3>1. c \in Customers /\ \A b \in Customers : b # c => customer'[b] = customer[b]
        BY <2>3
      <3> HIDE DEF c
      <3> QED
        BY <1>2, <3>1, TotalsChange
    <2>8. ASSUME Part(r, c, s, customer') = Part(r, c, s, customer)
          PROVE  FALSE
      BY <1>3, <1>5, <2>1, <2>7, <2>8
    <2>9. r = w.reseller
      BY <2>5, <2>6, <2>8 DEF Part
    <2>10. s \in Services
      BY <2>5, <2>6, <2>8, <2>9 DEF Part, Allowances
    <2>11. w.limits # NoLimits /\ w.limits \in [Services -> Limits]
      <3>1. w.limits # NoLimits
        BY <2>3, <2>5, <2>6, <2>8 DEF Part, Handed
      <3> QED
        BY <2>2, <3>1 DEF Facts
    <2> DEFINE want == w.limits[s]
               have == customer[c].limit[s]
    <2>12. Affordable(r, c, s, want)
      BY <2>2, <2>9, <2>10, <2>11 DEF Afforded
    <2>13. have = WITHHELD => want = WITHHELD
      BY <1>10, <2>1, <2>2, <2>10, <2>11 DEF Regrants
    <2>14. want \in Int /\ have \in Int /\ (have < 0 => have = WITHHELD)
      BY <1>2, <2>3, <2>10, <2>11, Numbers
    <2>15. /\ old = (IF have > 0 THEN have ELSE 0) + rest
           /\ new = (IF want > 0 THEN want ELSE 0) + rest
      BY <2>3, <2>5, <2>6, <2>7, <2>9, <2>10, <2>11, NoSuchService DEF Part, Handed
    <2>16. \/ have = WITHHELD
           \/ top = UNLIMITED
           \/ want # UNLIMITED /\ want <= (top - current[r][s]) + have
      BY <2>12 DEF Affordable
    <2>17. Exceeds(new, top) /\ ~Exceeds(old, top)
      BY <1>4, <2>1
    <2> HIDE DEF old, new, top, want, have
    <2> QED
      BY <1>3, <2>13, <2>14, <2>15, <2>16, <2>17 DEF Exceeds, WITHHELD, UNLIMITED
  <1>11. ASSUME NEW p \in Procs, CustomerDeleteCommit(p)
         PROVE  FALSE
    <2> DEFINE c == proc[p].subject
    <2>1. /\ max' = max /\ c \in Customers
          /\ \A b \in Customers : b # c => customer'[b] = customer[b]
          /\ customer' = customer \/ customer'[c].domain \in {"absent", "todelete"}
      BY <1>11, DeleteChanges DEF CustomerDeleteCommit
    <2> HIDE DEF c
    <2>2. c \notin Counted(r, customer')
      BY <1>6, <2>1 DEF Counted
    <2>0. c \in Customers /\ \A b \in Customers : b # c => customer'[b] = customer[b]
      BY <2>1
    <2>3. PICK rest \in Nat : old = Part(r, c, s, customer) + rest /\ new = Part(r, c, s, customer') + rest
      BY <1>2, <2>0, TotalsChange
    <2>4. Part(r, c, s, customer) \in Nat /\ Part(r, c, s, customer') = 0
      BY <1>2, <2>1, <2>2, PartsAreNumbers DEF Part
    <2>5. new <= old
      BY <2>3, <2>4
    <2> QED
      BY <1>5, <2>1, <2>5
  <1>12. ASSUME NEW c \in Customers, Settle(c), ~(customer[c].owner = r /\ DeletionFails(c))
         PROVE  FALSE
    <2>1. max' = max
      BY <1>12, Settled DEF IInv
    <2>2. new <= old
      BY <1>12, SettleTakes
    <2> QED
      BY <1>5, <2>1, <2>2
  <1>12a. ASSUME NEW p \in Procs, CustomerSetStateCommit(p), ~Overtaken(p)
          PROVE  FALSE
    <2> DEFINE c == proc[p].subject
    <2>1. /\ max' = max
          /\ \A b \in Customers : b # c => customer'[b] = customer[b]
          /\ customer'[c].owner = customer[c].owner /\ customer'[c].limit = customer[c].limit
          /\ customer'[c].admin = customer[c].admin
          /\ customer'[c].domain \in {customer[c].domain} \cup Verbs
          /\ customer[c].domain \in {"ok", "disabled"}
      BY <1>12a, SetStateChanges
    <2> HIDE DEF c
    <2>2. Counted(r, customer') = Counted(r, customer)
      BY <2>1 DEF Counted, Verbs
    <2>3. \A b \in Counted(r, customer) : customer'[b].limit = customer[b].limit
      BY <2>1 DEF Counted
    <2>4. Totals(r, customer') = Totals(r, customer)
      BY <2>2, <2>3, SameTotals
    <2>5. new <= old
      BY <1>3, <2>4
    <2> QED
      BY <1>5, <2>1, <2>5
  <1>13. ASSUME NEW x \in Resellers, NEW limits \in [Allowances -> Limits], ResellerCreate(x, limits)
         PROVE  FALSE
    <2>1. max'[r] = max[r] /\ customer' = customer
      BY <1>2, <1>13 DEF ResellerCreate
    <2> QED
      BY <1>6, <2>1
  <1> HIDE DEF old, new, top
  <1> QED
    BY <1>6, <1>8, <1>9, <1>10, <1>11, <1>12, <1>12a, <1>13, StepKinds
    DEF ResellerDeleteCommit, HostingPlanCreateCommit, HostingPlanUpdateCommit, HostingPlanDelete,
        UseCommit, GiveUp

(* What the customers of a reseller hold goes past what the reseller has   *)
(* only in a transaction that another one of this reseller has overtaken   *)
(* since it compared the two, in an update that gives back a withheld      *)
(* service, when the daemon fails at a deletion, or where the counters say *)
(* less than the rows (LimitRules, and CustomerService and ResellerService *)
(* around it).                                                             *)
THEOREM OversellsOverlap == Spec => OversoldByOverlap
  <1>1. IInv /\ RoomInv /\ [Next]_vars
        => [\A r \in Resellers :
                reseller[r] = "ok" /\ Oversold(r)' /\ ~Oversold(r) =>
                    \/ \E p \in Procs : Overtaken(p) \/ Regrants(p)
                    \/ \E c \in Customers : customer[c].owner = r /\ DeletionFails(c)
                    \/ Understated(r)]_vars
    BY StepOversells
  <1> QED
    BY <1>1, RoomHolds, PTL DEF Spec, OversoldByOverlap
=============================================================================
