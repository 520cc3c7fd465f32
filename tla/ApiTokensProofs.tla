-------------------------- MODULE ApiTokensProofs --------------------------
(***************************************************************************)
(* What holds of ApiTokens for any number of processes, tokens and         *)
(* accounts.                                                               *)
(***************************************************************************)
EXTENDS ApiTokens, FiniteSetTheorems, TLAPS

---------------------------------------------------------------------------
(* Shapes. *)

LEMMA RowKinds ==
    /\ \A r \in Rows : r # Unissued /\ r # Deleted
    /\ Unissued # Deleted
  <1>1. \A r \in Rows : DOMAIN r = {"owner", "revoked", "expires"}
    BY DEF Rows
  <1>2. DOMAIN Unissued = {"owner"} /\ DOMAIN Deleted = {"owner"}
    BY DEF Unissued, Deleted
  <1>3. Unissued.owner # Deleted.owner
    BY DEF Unissued, Deleted
  <1> QED
    BY <1>1, <1>2, <1>3

LEMMA RowType ==
    ASSUME TypeOK, NEW t \in Tokens, Exists(t)
    PROVE  row[t] \in Rows
  BY DEF TypeOK, Exists

LEMMA IdleWork ==
    /\ Idle \in Works
    /\ \A w \in Works : w.phase = "idle" <=> w = Idle
  BY DEF Works, Idle, Phases

LEMMA BusyWork ==
    ASSUME TypeOK, NEW p \in Procs, ~At(p, "idle")
    PROVE  proc[p] \in [op : Operations, phase : Phases, acct : Accounts,
                        refused : SUBSET {"token", "account"}, held : SUBSET Tokens]
  BY DEF TypeOK, Works, At, Idle

LEMMA WorkType ==
    ASSUME NEW op \in Operations, NEW phase \in Phases, NEW a \in Accounts,
           NEW refused \in SUBSET {"token", "account"}, NEW held \in SUBSET Tokens
    PROVE  Work(op, phase, a, refused, held) \in Works
  BY DEF Work, Works

LEMMA ProcType ==
    ASSUME TypeOK, NEW p \in Procs, NEW w \in Works, proc' = [proc EXCEPT ![p] = w]
    PROVE  proc' \in [Procs -> Works]
  BY DEF TypeOK

LEMMA GotoType ==
    ASSUME TypeOK, NEW p \in Procs, ~At(p, "idle"), NEW phase \in Phases, Goto(p, phase)
    PROVE  proc' \in [Procs -> Works]
  <1>1. [proc[p] EXCEPT !.phase = phase] \in Works
    BY BusyWork DEF Works
  <1> QED
    BY <1>1 DEF TypeOK, Goto

LEMMA HoldType ==
    ASSUME TypeOK, NEW p \in Procs, ~At(p, "idle"), NEW phase \in Phases,
           NEW held \in SUBSET Tokens,
           Hold(p, phase, held)
    PROVE  proc' \in [Procs -> Works]
  <1>1. [proc[p] EXCEPT !.phase = phase, !.held = held] \in Works
    BY BusyWork DEF Works
  <1> QED
    BY <1>1 DEF TypeOK, Hold

LEMMA FinishType ==
    ASSUME TypeOK, NEW p \in Procs, Finish(p)
    PROVE  proc' \in [Procs -> Works]
  BY IdleWork DEF TypeOK, Finish

LEMMA RevokedType ==
    ASSUME TypeOK, NEW t \in Tokens, Exists(t)
    PROVE  Stamped(t) \in Rows
  BY RowType, Configured DEF Stamped, TypeOK, Rows, Times

LEMMA SwitchType ==
    ASSUME TypeOK, NEW a \in Accounts, NEW switch \in {"none", "allowed", "denied"},
           Switch(a, switch)
    PROVE  /\ perm' \in [Accounts -> {"none", "allowed", "denied"}]
           /\ seen' \in [Procs -> SUBSET Accounts]
  BY DEF TypeOK, Switch


LEMMA BeginType ==
    ASSUME TypeOK, NEW p \in Procs, NEW w, w.op \in Operations => w \in Works, Begin(p, w)
    PROVE  TypeOK'
  <1>1. proc' \in [Procs -> Works]
    BY ProcType DEF Begin
  <1> QED
    BY <1>1 DEF TypeOK, Begin

LEMMA RequestType ==
    ASSUME TypeOK, NEW p \in Procs, Request(p)
    PROVE  TypeOK'
  <1>1. ASSUME NEW t \in Tokens, Present(p, t)
        PROVE  TypeOK'
    <2> DEFINE refused == Unfit(row[t].owner) \cup (IF Verifies(t) THEN {} ELSE {"token"})
    <2>1. row[t].owner \in Accounts
      BY <1>1, RowType DEF Present, Rows
    <2>2. refused \in SUBSET {"token", "account"}
      BY DEF Unfit
    <2>3. "bearer" \in Operations => Work("bearer", "verify", row[t].owner, refused, {t}) \in Works
      BY <2>1, <2>2, WorkType DEF Phases
    <2>4. Work("bearer", "verify", row[t].owner, refused, {t}).op = "bearer"
      BY DEF Work
    <2> QED
      BY <1>1, <2>3, <2>4, BeginType DEF Present
  <1>2. ASSUME NEW op \in AllOperations, NEW a \in Accounts, Ask(p, op, a)
        PROVE  TypeOK'
    <2>1. op \in Operations => Work(op, "account", a, Unfit(a), {}) \in Works
      BY WorkType DEF Phases, Unfit
    <2>2. Work(op, "account", a, Unfit(a), {}).op = op
      BY DEF Work
    <2> QED
      BY <1>2, <2>1, <2>2, BeginType DEF Ask
  <1>3. ASSUME NEW op \in AllOperations, NEW a \in Accounts, Administer(p, op, a)
        PROVE  TypeOK'
    <2>1. /\ op \in Operations => Work(op, "perm", a, {}, {}) \in Works
          /\ op \in Operations => Work(op, "revokeAll", a, {}, {}) \in Works
          /\ Work(op, "perm", a, {}, {}).op = op /\ Work(op, "revokeAll", a, {}, {}).op = op
      BY WorkType DEF Phases, Work
    <2> QED
      BY <1>3, <2>1, BeginType DEF Administer
  <1>4. ASSUME NEW a \in Accounts, OpenPage(p, a)
        PROVE  TypeOK'
    <2> DEFINE phase == IF a \in Customers THEN "access" ELSE "execute"
    <2>1. "page" \in Operations => Work("page", phase, a, {}, {}) \in Works
      BY WorkType DEF Phases
    <2>2. Work("page", phase, a, {}, {}).op = "page"
      BY DEF Work
    <2> QED
      BY <1>4, <2>1, <2>2, BeginType DEF OpenPage
  <1>5. ASSUME NEW a \in Customers, AskDeletion(p, a)
        PROVE  TypeOK'
    <2>1. "delete" \in Operations => Work("delete", "delete", a, {}, {}) \in Works
      BY WorkType DEF Phases, Accounts
    <2>2. Work("delete", "delete", a, {}, {}).op = "delete"
      BY DEF Work
    <2> QED
      BY <1>5, <2>1, <2>2, BeginType DEF AskDeletion
  <1>6. ASSUME NEW a \in Resellers, DeleteReseller(p, a)
        PROVE  TypeOK'
    <2>1. a \in Accounts /\ Switch(a, "none")
      BY <1>6 DEF DeleteReseller, Accounts
    <2>2. row' \in [Tokens -> Rows \cup {Unissued, Deleted}]
      BY <1>6 DEF DeleteReseller, Dropped, TypeOK
    <2>3. account' \in [Accounts -> Statuses]
      BY <1>6 DEF DeleteReseller, TypeOK, Statuses
    <2> QED
      BY <1>6, <2>1, <2>2, <2>3, SwitchType DEF DeleteReseller, TypeOK
  <1> QED
    BY <1>1, <1>2, <1>3, <1>4, <1>5, <1>6, Configured DEF Request

LEMMA StepType ==
    ASSUME TypeOK, NEW p \in Procs, Step(p)
    PROVE  TypeOK'
  <1>1. CASE Verify(p)
    <2>1. ~At(p, "idle")
      BY <1>1 DEF Verify, At
    <2>2. proc' \in [Procs -> Works]
      BY <1>1, <2>1, HoldType, FinishType DEF Verify, Phases
    <2> QED
      BY <1>1, <2>2 DEF Verify, TypeOK
  <1>2. CASE LoadAccount(p)
    <2>1. ~At(p, "idle")
      BY <1>2 DEF LoadAccount, At
    <2>2. proc' \in [Procs -> Works]
      BY <1>2, <2>1, GotoType, FinishType DEF LoadAccount, Phases
    <2> QED
      BY <1>2, <2>2 DEF LoadAccount, TypeOK
  <1>3. CASE CheckAccess(p)
    <2>1. ~At(p, "idle")
      BY <1>3 DEF CheckAccess, At
    <2>2. proc' \in [Procs -> Works]
      BY <1>3, <2>1, GotoType, FinishType DEF CheckAccess, Phases
    <2>3. cache' \in [Procs -> [Accounts -> {"unknown", "on", "off"}]]
      BY <1>3 DEF CheckAccess, TypeOK
    <2> QED
      BY <1>3, <2>2, <2>3 DEF CheckAccess, TypeOK
  <1>4. CASE Serve(p)
    BY <1>4, FinishType DEF Serve, TypeOK
  <1>5. ASSUME NEW t \in Tokens, Revoke(p, t)
        PROVE  TypeOK'
    <2>1. row' \in [Tokens -> Rows \cup {Unissued, Deleted}]
      BY <1>5, RevokedType DEF Revoke, TypeOK, Owned
    <2> QED
      BY <1>5, <2>1, FinishType DEF Revoke, TypeOK
  <1>6. CASE CheckRoom(p)
    <2>1. ~At(p, "idle")
      BY <1>6 DEF CheckRoom, At
    <2>2. proc' \in [Procs -> Works]
      BY <1>6, <2>1, GotoType, FinishType DEF CheckRoom, Phases
    <2> QED
      BY <1>6, <2>2 DEF CheckRoom, TypeOK
  <1>7. ASSUME NEW t \in Tokens, NEW ttl \in 1..MaxTtl, Insert(p, t, ttl)
        PROVE  TypeOK'
    <2>1. proc[p].acct \in Accounts
      BY <1>7, BusyWork DEF Insert, At
    <2>2. now + ttl \in Times
      BY Configured DEF TypeOK, Times
    <2>3. [owner |-> proc[p].acct, revoked |-> NotYet, expires |-> now + ttl] \in Rows
      BY <2>1, <2>2 DEF Rows
    <2>4. row' \in [Tokens -> Rows \cup {Unissued, Deleted}]
      BY <1>7, <2>3 DEF Insert, TypeOK
    <2> QED
      BY <1>7, <2>4, FinishType DEF Insert, TypeOK
  <1>8. CASE SetApiAccess(p)
    <2>1. ~At(p, "idle") /\ proc[p].acct \in Accounts
      BY <1>8, BusyWork DEF SetApiAccess, At
    <2>2. TokensOf(proc[p].acct) \in SUBSET Tokens
      BY DEF TokensOf
    <2>3. proc' \in [Procs -> Works]
      BY <1>8, <2>1, <2>2, GotoType, HoldType DEF SetApiAccess, Phases
    <2>4. /\ perm' \in [Accounts -> {"none", "allowed", "denied"}]
          /\ seen' \in [Procs -> SUBSET Accounts]
      BY <1>8, <2>1, SwitchType DEF SetApiAccess
    <2> QED
      BY <1>8, <2>3, <2>4 DEF SetApiAccess, TypeOK
  <1>9. CASE RevokeAllFor(p)
    <2>1. ~At(p, "idle")
      BY <1>9 DEF RevokeAllFor, At
    <2>2. row' \in [Tokens -> Rows \cup {Unissued, Deleted}]
      BY <1>9, RevokedType DEF RevokeAllFor, TypeOK, Owned
    <2>3. proc' \in [Procs -> Works]
      BY <1>9, <2>1, GotoType DEF RevokeAllFor, Phases
    <2> QED
      BY <1>9, <2>2, <2>3 DEF RevokeAllFor, TypeOK
  <1>10. CASE WriteLog(p)
    <2>1. proc[p].held \subseteq Tokens
      BY <1>10, BusyWork DEF WriteLog, At
    <2> QED
      BY <1>10, <2>1, FinishType DEF WriteLog, TypeOK
  <1>11. CASE ForgetTokens(p)
    <2>1. ~At(p, "idle")
      BY <1>11 DEF ForgetTokens, At
    <2>2. row' \in [Tokens -> Rows \cup {Unissued, Deleted}]
      BY <1>11 DEF ForgetTokens, Dropped, TypeOK
    <2>3. proc' \in [Procs -> Works]
      BY <1>11, <2>1, GotoType DEF ForgetTokens, Phases
    <2> QED
      BY <1>11, <2>2, <2>3 DEF ForgetTokens, TypeOK
  <1>12. CASE ForgetPerm(p)
    <2>1. proc[p].acct \in Accounts
      BY <1>12, BusyWork DEF ForgetPerm, At
    <2>2. /\ perm' \in [Accounts -> {"none", "allowed", "denied"}]
          /\ seen' \in [Procs -> SUBSET Accounts]
      BY <1>12, <2>1, SwitchType DEF ForgetPerm
    <2> QED
      BY <1>12, <2>2, FinishType DEF ForgetPerm, TypeOK
  <1>13. CASE DeleteCustomer(p)
    <2>1. ~At(p, "idle")
      BY <1>13 DEF DeleteCustomer, At
    <2>2. proc' \in [Procs -> Works]
      BY <1>13, <2>1, GotoType, FinishType DEF DeleteCustomer, Phases
    <2>3. account' \in [Accounts -> Statuses]
      BY <1>13 DEF DeleteCustomer, TypeOK, Statuses
    <2> QED
      BY <1>13, <2>2, <2>3 DEF DeleteCustomer, TypeOK
  <1> QED
    BY <1>1, <1>2, <1>3, <1>4, <1>5, <1>6, <1>7, <1>8, <1>9, <1>10, <1>11, <1>12, <1>13 DEF Step

(* What a process does, but for why it is to be refused.                   *)
Alike(p) ==
    /\ proc'[p].phase = proc[p].phase
    /\ proc'[p].op = proc[p].op
    /\ proc'[p].acct = proc[p].acct
    /\ proc'[p].held = proc[p].held

LEMMA BackWork ==
    ASSUME TypeOK, NEW a, NEW p \in Procs, proc' = BackFor(a)
    PROVE  /\ proc'[p] \in Works
           /\ Alike(p)
           /\ (proc[p] # Idle /\ proc[p].acct = a) => proc'[p].refused = proc[p].refused \ {"account"}
           /\ ~(proc[p] # Idle /\ proc[p].acct = a) => proc'[p] = proc[p]
  <1>1. CASE proc[p] # Idle /\ proc[p].acct = a
    <2>1. ~At(p, "idle")
      BY <1>1, IdleWork DEF At, TypeOK
    <2>2. proc'[p] = [proc[p] EXCEPT !.refused = proc[p].refused \ {"account"}]
      BY <1>1 DEF BackFor
    <2> QED
      BY <1>1, <2>1, <2>2, BusyWork DEF Alike, Works
  <1>2. CASE ~(proc[p] # Idle /\ proc[p].acct = a)
    <2>1. proc'[p] = proc[p]
      BY <1>2 DEF BackFor
    <2> QED
      BY <1>2, <2>1 DEF Alike, TypeOK
  <1> QED
    BY <1>1, <1>2

(* A change of an account's status touches nothing else.                   *)
LEMMA StatusSteps ==
    ASSUME TypeOK, NEW a, ChangePassword(a) \/ Settle(a)
    PROVE  /\ UNCHANGED <<now, row, perm, cache, seen, swept>>
           /\ \A p \in Procs : Alike(p)
  <1>1. UNCHANGED <<now, row, perm, cache, seen, swept>>
    BY DEF ChangePassword, Settle
  <1>2. proc' = proc \/ proc' = BackFor(a)
    BY DEF ChangePassword, Settle
  <1> QED
    BY <1>1, <1>2, BackWork DEF Alike

LEMMA StatusType ==
    ASSUME TypeOK, NEW a, ChangePassword(a) \/ Settle(a)
    PROVE  TypeOK'
  <1>1. UNCHANGED <<now, row, perm, cache, seen, swept>>
    BY StatusSteps
  <1>2. proc' \in [Procs -> Works]
    <2>1. CASE proc' = proc
      BY <2>1 DEF TypeOK
    <2>2. CASE proc' = BackFor(a)
      BY <2>2, BackWork DEF BackFor
    <2> QED
      BY <2>1, <2>2 DEF ChangePassword, Settle
  <1>3. account' \in [Accounts -> Statuses]
    <2>1. \A o \in Outcomes : o[2] \in Statuses
      BY Configured DEF AllOutcomes, Statuses
    <2> QED
      BY <2>1 DEF ChangePassword, Settle, TypeOK, Statuses
  <1> QED
    BY <1>1, <1>2, <1>3 DEF TypeOK

LEMMA TypeKept == TypeOK /\ [Next]_vars => TypeOK'
  <1> SUFFICES ASSUME TypeOK, [Next]_vars PROVE TypeOK'
    OBVIOUS
  <1>1. ASSUME NEW p \in Procs, Restart(p)
        PROVE  TypeOK'
    <2>1. proc' \in [Procs -> Works]
      BY <1>1, FinishType DEF Restart, Finish
    <2>2. On \subseteq Accounts
      BY DEF On
    <2> QED
      BY <1>1, <2>1, <2>2 DEF Restart, TypeOK
  <1>2. CASE Tick
    BY <1>2, Configured DEF Tick, TypeOK
  <1>3. CASE UNCHANGED vars
    BY <1>3 DEF vars, TypeOK
  <1> QED
    BY <1>1, <1>2, <1>3, RequestType, StepType, StatusType DEF Next

(* Every variable keeps its shape, whatever processes do and wherever they *)
(* die.                                                                    *)
THEOREM TypeCorrect == Spec => []TypeOK
  <1>1. Init => TypeOK
    BY IdleWork, Configured DEF Init, TypeOK, On, Statuses
  <1> QED
    BY <1>1, TypeKept, PTL DEF Spec

---------------------------------------------------------------------------
(* What a step does to a row of api_token, whoever takes it. *)

Evolves(t) ==
    \/ row'[t] = row[t]
    \/ Exists(t) /\ row[t].revoked = NotYet /\ row'[t] = Stamped(t)
    \/ Exists(t) /\ row'[t] = Deleted
    \/ row[t] = Unissued /\ row'[t] \in Rows

LEMMA RequestRows ==
    ASSUME NEW p \in Procs, Request(p)
    PROVE  now' = now /\ (row' = row \/ \E a : row' = Dropped(a))
  <1>1. ASSUME NEW w, Begin(p, w)
        PROVE  now' = now /\ row' = row
    BY <1>1 DEF Begin
  <1>2. ASSUME NEW a, AskDeletion(p, a)
        PROVE  now' = now /\ row' = row
    BY <1>1, <1>2 DEF AskDeletion
  <1>3. ASSUME NEW a, DeleteReseller(p, a)
        PROVE  now' = now /\ row' = Dropped(a)
    BY <1>3 DEF DeleteReseller
  <1>4. ASSUME NEW t, Present(p, t)
        PROVE  now' = now /\ row' = row
    BY <1>1, <1>4 DEF Present
  <1>5. ASSUME NEW op, NEW a, Ask(p, op, a) \/ Administer(p, op, a)
        PROVE  now' = now /\ row' = row
    BY <1>1, <1>5 DEF Ask, Administer
  <1>6. ASSUME NEW a, OpenPage(p, a)
        PROVE  now' = now /\ row' = row
    BY <1>1, <1>6 DEF OpenPage
  <1> QED
    BY <1>2, <1>3, <1>4, <1>5, <1>6 DEF Request

LEMMA StepRows ==
    ASSUME NEW p \in Procs, Step(p)
    PROVE  /\ now' = now
           /\ \/ row' = row
              \/ \E a : row' = Dropped(a)
              \/ RevokeAllFor(p)
              \/ \E t \in Tokens : Revoke(p, t)
              \/ \E t \in Tokens, ttl \in 1..MaxTtl : Insert(p, t, ttl)
  <1>1. Verify(p) \/ LoadAccount(p) \/ CheckAccess(p) \/ Serve(p) \/ CheckRoom(p)
        \/ SetApiAccess(p) \/ WriteLog(p) \/ DeleteCustomer(p) \/ ForgetPerm(p)
            => now' = now /\ row' = row
    BY DEF Verify, LoadAccount, CheckAccess, Serve, CheckRoom, SetApiAccess, WriteLog,
           DeleteCustomer, ForgetPerm
  <1>2. ForgetTokens(p) => now' = now /\ row' = Dropped(proc[p].acct)
    BY DEF ForgetTokens
  <1>3. RevokeAllFor(p) => now' = now
    BY DEF RevokeAllFor
  <1>4. ASSUME NEW t \in Tokens, Revoke(p, t)
        PROVE  now' = now
    BY <1>4 DEF Revoke
  <1>5. ASSUME NEW t \in Tokens, NEW ttl \in 1..MaxTtl, Insert(p, t, ttl)
        PROVE  now' = now
    BY <1>5 DEF Insert
  <1> QED
    BY <1>1, <1>2, <1>3, <1>4, <1>5 DEF Step

LEMMA RowsEvolve ==
    ASSUME TypeOK, [Next]_vars, NEW t \in Tokens
    PROVE  Evolves(t)
  <1>1. ASSUME NEW p \in Procs, NEW u \in Tokens, Revoke(p, u)
        PROVE  Evolves(t)
    BY <1>1 DEF Revoke, Evolves, TypeOK, Owned
  <1>2. ASSUME NEW p \in Procs, NEW u \in Tokens, NEW ttl \in 1..MaxTtl, Insert(p, u, ttl)
        PROVE  Evolves(t)
    <2>1. row'[u] \in Rows
      <3>1. proc[p].acct \in Accounts
        BY <1>2, BusyWork DEF Insert, At
      <3>2. now + ttl \in Times
        BY Configured DEF TypeOK, Times
      <3>3. [owner |-> proc[p].acct, revoked |-> NotYet, expires |-> now + ttl] \in Rows
        BY <3>1, <3>2 DEF Rows
      <3> QED
        BY <1>2, <3>3 DEF Insert, TypeOK
    <2>2. u # t => row'[t] = row[t]
      BY <1>2 DEF Insert, TypeOK
    <2>3. row[u] = Unissued
      BY <1>2 DEF Insert
    <2> QED
      BY <2>1, <2>2, <2>3 DEF Evolves
  <1>3. ASSUME NEW p \in Procs, RevokeAllFor(p)
        PROVE  Evolves(t)
    BY <1>3 DEF RevokeAllFor, Evolves, Owned
  <1>4. ASSUME NEW a, row' = Dropped(a)
        PROVE  Evolves(t)
    BY <1>4 DEF Dropped, Evolves, Owned
  <1>5. CASE row' = row
    BY <1>5 DEF Evolves
  <1>6. (\E p \in Procs : Restart(p)) \/ Tick \/ UNCHANGED vars => row' = row
    BY DEF Restart, Tick, vars
  <1> QED
    BY <1>1, <1>2, <1>3, <1>4, <1>5, <1>6, RequestRows, StepRows, StatusSteps DEF Next

LEMMA StampedRow ==
    ASSUME TypeOK, NEW t \in Tokens, Exists(t)
    PROVE  /\ Stamped(t) \in Rows
           /\ Stamped(t).owner = row[t].owner
           /\ Stamped(t).revoked = now /\ now # NotYet
           /\ Stamped(t).expires = row[t].expires
  BY RowType, RevokedType DEF Stamped, Rows, TypeOK, NotYet

LEMMA TimePasses == TypeOK /\ [Next]_vars => now' \in Int /\ now \in Int /\ now' >= now
  <1> SUFFICES ASSUME TypeOK, [Next]_vars PROVE now' = now \/ now' = now + 1
    BY DEF TypeOK
  <1>1. (\E p \in Procs : Restart(p)) \/ UNCHANGED vars => now' = now
    BY DEF Restart, vars
  <1>2. Tick => now' = now + 1
    BY DEF Tick
  <1> QED
    BY <1>1, <1>2, RequestRows, StepRows, StatusSteps DEF Next

(* A token that no longer works, or never again will: not one still ahead. *)
Spent(t) == row[t] # Unissued /\ ~Verifies(t)

LEMMA SpentStays ==
    ASSUME TypeOK, [Next]_vars, NEW t \in Tokens, Spent(t)
    PROVE  Spent(t)'
  <1>1. CASE row'[t] = row[t]
    <2>1. ~Exists(t) => Spent(t)'
      BY <1>1 DEF Spent, Verifies, Exists
    <2>2. Exists(t) => row[t].expires \in Int
      BY RowType, Configured DEF Rows, Times
    <2> QED
      BY <1>1, <2>1, <2>2, TimePasses DEF Spent, Verifies, Exists
  <1>2. CASE Exists(t) /\ row'[t] = Stamped(t)
    BY <1>2, StampedRow, RowKinds DEF Spent, Verifies
  <1>3. CASE row'[t] = Deleted
    BY <1>3, RowKinds DEF Spent, Verifies, Exists
  <1> QED
    BY <1>1, <1>2, <1>3, RowsEvolve DEF Evolves, Spent

LEMMA OwnedStays ==
    ASSUME TypeOK, [Next]_vars, NEW t \in Tokens, NEW a, Owned(a, t) \/ row[t] = Deleted
    PROVE  (Owned(a, t) \/ row[t] = Deleted)'
  <1>1. CASE row'[t] = row[t]
    BY <1>1 DEF Owned, Exists
  <1>2. CASE Exists(t) /\ row'[t] = Stamped(t)
    BY <1>2, StampedRow, RowKinds DEF Owned, Exists
  <1> QED
    BY <1>1, <1>2, RowsEvolve, RowKinds DEF Evolves, Owned, Exists

(* The stamp of a revocation is written once, whichever of the revocations *)
(* comes first.                                                            *)
THEOREM StampedOnce == Spec => RevokedOnce
  <1>1. ASSUME TypeOK, [Next]_vars
        PROVE  [\A t \in Tokens :
                  (Exists(t) /\ row[t].revoked # NotYet /\ Exists(t)')
                      => row'[t].revoked = row[t].revoked]_vars
    BY <1>1, RowsEvolve, RowKinds DEF Evolves, Exists
  <1> QED
    BY <1>1, TypeCorrect, PTL DEF Spec, RevokedOnce

---------------------------------------------------------------------------
(* What a step does to the work of a process. *)

LEMMA GotoWork ==
    ASSUME TypeOK, NEW p \in Procs, ~At(p, "idle"), NEW phase, Goto(p, phase)
    PROVE  /\ proc'[p].phase = phase
           /\ proc'[p].op = proc[p].op
           /\ proc'[p].acct = proc[p].acct
           /\ proc'[p].refused = proc[p].refused
           /\ proc'[p].held = proc[p].held
           /\ \A q \in Procs : q # p => proc'[q] = proc[q]
  BY BusyWork DEF Goto, TypeOK

LEMMA HoldWork ==
    ASSUME TypeOK, NEW p \in Procs, ~At(p, "idle"), NEW phase, NEW held, Hold(p, phase, held)
    PROVE  /\ proc'[p].phase = phase
           /\ proc'[p].op = proc[p].op
           /\ proc'[p].acct = proc[p].acct
           /\ proc'[p].refused = proc[p].refused
           /\ proc'[p].held = held
           /\ \A q \in Procs : q # p => proc'[q] = proc[q]
  BY BusyWork DEF Hold, TypeOK

LEMMA FinishWork ==
    ASSUME TypeOK, NEW p \in Procs, Finish(p)
    PROVE  /\ proc'[p] = Idle
           /\ \A q \in Procs : q # p => proc'[q] = proc[q]
  BY DEF Finish, TypeOK

LEMMA BeginWork ==
    ASSUME TypeOK, NEW p \in Procs, NEW w, Begin(p, w)
    PROVE  /\ proc'[p] = w
           /\ \A q \in Procs : q # p => proc'[q] = proc[q]
  BY DEF Begin, TypeOK

LEMMA OthersKeep ==
    ASSUME TypeOK, NEW p \in Procs, Request(p) \/ Step(p) \/ Restart(p)
    PROVE  \A q \in Procs : q # p => proc'[q] = proc[q]
  <1>1. CASE Step(p)
    <2>1. \/ Finish(p)
          \/ \E phase : Goto(p, phase)
          \/ \E phase, held : Hold(p, phase, held)
      BY <1>1
      DEF Step, Verify, LoadAccount, CheckAccess, Serve, Revoke, CheckRoom, Insert, SetApiAccess,
          RevokeAllFor, WriteLog, DeleteCustomer, ForgetTokens, ForgetPerm
    <2> QED
      BY <2>1 DEF Finish, Goto, Hold, TypeOK
  <1>2. CASE Restart(p)
    BY <1>2 DEF Restart, TypeOK
  <1>3. ASSUME NEW a, DeleteReseller(p, a)
        PROVE  \A q \in Procs : q # p => proc'[q] = proc[q]
    BY <1>3 DEF DeleteReseller
  <1>4. CASE Request(p)
    BY <1>3, <1>4, BeginWork DEF Request, Present, Ask, Administer, OpenPage, AskDeletion
  <1> QED
    BY <1>1, <1>2, <1>4

---------------------------------------------------------------------------
(* Only a request for the owner stamps a row: the UPDATEs ask for the      *)
(* account, whatever token id a client sends.                              *)
THEOREM OnlyOwnersRevoke == Spec => RevokedByRight
  <1>1. ASSUME TypeOK, [Next]_vars, NEW t \in Tokens,
               Exists(t), Exists(t)', row'[t].revoked # row[t].revoked
        PROVE  \E p \in Procs : /\ proc'[p] # proc[p] /\ proc[p] # Idle
                               /\ proc[p].acct = row[t].owner
    <2>1. ASSUME NEW p \in Procs, NEW u \in Tokens, Revoke(p, u)
          PROVE  proc'[p] # proc[p] /\ proc[p] # Idle /\ proc[p].acct = row[t].owner
      <3>1. u = t /\ Owned(proc[p].acct, t)
        BY <1>1, <2>1 DEF Revoke, TypeOK
      <3>2. proc'[p] = Idle
        BY <1>1, <2>1, FinishWork DEF Revoke
      <3>3. proc[p].phase = "execute" /\ Idle.phase = "idle"
        BY <2>1 DEF Revoke, At, Idle
      <3> QED
        BY <3>1, <3>2, <3>3 DEF Owned
    <2>2. ASSUME NEW p \in Procs, RevokeAllFor(p)
          PROVE  proc'[p] # proc[p] /\ proc[p] # Idle /\ proc[p].acct = row[t].owner
      <3>1. Owned(proc[p].acct, t)
        BY <1>1, <2>2 DEF RevokeAllFor
      <3>2. proc[p].phase = "revokeAll" /\ ~At(p, "idle")
        BY <2>2 DEF RevokeAllFor, At
      <3>3. proc'[p].phase = "log"
        BY <1>1, <2>2, <3>2, GotoWork DEF RevokeAllFor
      <3> QED
        BY <3>1, <3>2, <3>3 DEF Owned, Idle
    <2>3. ASSUME NEW p \in Procs, NEW u \in Tokens, NEW ttl \in 1..MaxTtl, Insert(p, u, ttl)
          PROVE  FALSE
      BY <1>1, <2>3 DEF Insert, Exists, TypeOK
    <2>4. ASSUME NEW a, row' = Dropped(a)
          PROVE  FALSE
      BY <1>1, <2>4 DEF Dropped, Exists
    <2>5. (\E p \in Procs : Restart(p)) \/ Tick \/ UNCHANGED vars => row' = row
      BY DEF Restart, Tick, vars
    <2> QED
      BY <1>1, <2>1, <2>2, <2>3, <2>4, <2>5, RequestRows, StepRows, StatusSteps DEF Next
  <1>2. ASSUME TypeOK, [Next]_vars
        PROVE  [\A t \in Tokens :
                  (Exists(t) /\ Exists(t)' /\ row'[t].revoked # row[t].revoked)
                      => \E p \in Procs : /\ proc'[p] # proc[p] /\ proc[p] # Idle
                                         /\ proc[p].acct = row[t].owner]_vars
    BY <1>1, <1>2
  <1> QED
    BY <1>2, TypeCorrect, PTL DEF Spec, RevokedByRight

---------------------------------------------------------------------------
(* Withdrawals. *)

(* A withdrawal holds the tokens it found: the account's own until they    *)
(* are revoked, and spent afterwards.                                      *)
SweepOK(p) ==
    /\ At(p, "perm") => proc[p].held = {}
    /\ At(p, "revokeAll") => \A t \in proc[p].held : Owned(proc[p].acct, t) \/ row[t] = Deleted
    /\ At(p, "log") => \A t \in proc[p].held : Spent(t)

SweepInv ==
    /\ \A p \in Procs : SweepOK(p)
    /\ \A t \in swept : Spent(t)

LEMMA SweepUndisturbed ==
    ASSUME TypeOK, [Next]_vars, NEW p \in Procs, SweepOK(p), Alike(p) \/ proc'[p] = proc[p]
    PROVE  SweepOK(p)'
  <1>0. Alike(p)
    BY DEF Alike
  <1>1. ~At(p, "idle") => proc[p].held \subseteq Tokens
    BY BusyWork
  <1>2. At(p, "perm") \/ At(p, "revokeAll") \/ At(p, "log") => ~At(p, "idle")
    BY DEF At
  <1>3. ASSUME At(p, "revokeAll"), NEW t \in proc[p].held
        PROVE  Owned(proc[p].acct, t)' \/ row'[t] = Deleted
    <2> DEFINE a == proc[p].acct
    <2>1. t \in Tokens /\ (Owned(a, t) \/ row[t] = Deleted)
      BY <1>1, <1>2, <1>3 DEF SweepOK
    <2> QED
      BY <1>0, <2>1, OwnedStays DEF Alike, Owned, Exists
  <1>4. At(p, "log") => \A t \in proc[p].held : Spent(t)'
    BY <1>1, <1>2, SpentStays DEF SweepOK
  <1> QED
    BY <1>0, <1>3, <1>4 DEF Alike, SweepOK, At, Owned, Exists

LEMMA SweepElsewhere ==
    ASSUME NEW p, proc'[p].phase \notin {"perm", "revokeAll", "log"}
    PROVE  SweepOK(p)'
  BY DEF SweepOK, At

LEMMA SweepRequest ==
    ASSUME TypeOK, SweepInv, [Next]_vars, NEW p \in Procs, Request(p)
    PROVE  /\ \A q \in Procs : SweepOK(q)'
           /\ swept' = swept
  <1>1. ASSUME NEW w, Begin(p, w), w.phase \in {"perm", "revokeAll"} => w.held = {},
               w.phase # "log"
        PROVE  (\A q \in Procs : SweepOK(q)') /\ swept' = swept
    <2>1. SweepOK(p)'
      BY <1>1, BeginWork DEF SweepOK, At
    <2> QED
      BY <1>1, <2>1, BeginWork, SweepUndisturbed DEF SweepInv, Begin
  <1>2. ASSUME NEW t \in Tokens, Present(p, t)
        PROVE  (\A q \in Procs : SweepOK(q)') /\ swept' = swept
    BY <1>1, <1>2 DEF Present, Work
  <1>3. ASSUME NEW op, NEW a, Ask(p, op, a)
        PROVE  (\A q \in Procs : SweepOK(q)') /\ swept' = swept
    BY <1>1, <1>3 DEF Ask, Work
  <1>4. ASSUME NEW op, NEW a, Administer(p, op, a)
        PROVE  (\A q \in Procs : SweepOK(q)') /\ swept' = swept
    BY <1>1, <1>4 DEF Administer, Work
  <1>5. ASSUME NEW a, OpenPage(p, a)
        PROVE  (\A q \in Procs : SweepOK(q)') /\ swept' = swept
    <2> DEFINE phase == IF a \in Customers THEN "access" ELSE "execute"
    <2>1. Work("page", phase, a, {}, {}).phase \in {"access", "execute"}
      BY DEF Work
    <2> QED
      BY <1>1, <1>5, <2>1 DEF OpenPage
  <1>6. ASSUME NEW a, AskDeletion(p, a)
        PROVE  (\A q \in Procs : SweepOK(q)') /\ swept' = swept
    BY <1>1, <1>6 DEF AskDeletion, Work
  <1>7. ASSUME NEW a, DeleteReseller(p, a)
        PROVE  (\A q \in Procs : SweepOK(q)') /\ swept' = swept
    BY <1>7, SweepUndisturbed DEF DeleteReseller, SweepInv
  <1> QED
    BY <1>2, <1>3, <1>4, <1>5, <1>6, <1>7 DEF Request

LEMMA SweepStep ==
    ASSUME TypeOK, SweepInv, [Next]_vars, NEW p \in Procs, Step(p)
    PROVE  SweepInv'
  <1>1. \A q \in Procs : q # p => proc'[q] = proc[q]
    BY OthersKeep
  <1>2. ASSUME SweepOK(p)', swept' = swept
        PROVE  SweepInv'
    <2>1. \A q \in Procs : SweepOK(q)'
      BY <1>1, <1>2, SweepUndisturbed DEF SweepInv
    <2>2. \A t \in swept' : Spent(t)'
      BY <1>2, SpentStays DEF SweepInv, TypeOK
    <2> QED
      BY <2>1, <2>2 DEF SweepInv
  <1>3. ASSUME Finish(p), swept' = swept
        PROVE  SweepInv'
    BY <1>2, <1>3, FinishWork, SweepElsewhere DEF Idle
  <1>4. ASSUME NEW phase, Goto(p, phase), ~At(p, "idle"), swept' = swept,
               phase \notin {"perm", "revokeAll", "log"}
        PROVE  SweepInv'
    BY <1>2, <1>4, GotoWork, SweepElsewhere
  <1>5. CASE Verify(p) \/ LoadAccount(p) \/ CheckAccess(p) \/ Serve(p) \/ CheckRoom(p)
    <2>1. ~At(p, "idle") /\ swept' = swept
      BY <1>5 DEF Verify, LoadAccount, CheckAccess, Serve, CheckRoom, At
    <2>2. CASE Hold(p, "account", {})
      BY <1>2, <2>1, <2>2, HoldWork, SweepElsewhere
    <2>3. \/ Finish(p) \/ Hold(p, "account", {}) \/ Goto(p, "account") \/ Goto(p, "access")
          \/ Goto(p, "execute") \/ Goto(p, "insert")
      BY <1>5 DEF Verify, LoadAccount, CheckAccess, Serve, CheckRoom
    <2> QED
      BY <1>3, <1>4, <2>1, <2>2, <2>3
  <1>6. CASE ForgetPerm(p)
    BY <1>3, <1>6 DEF ForgetPerm
  <1>7. CASE ForgetTokens(p)
    BY <1>4, <1>7 DEF ForgetTokens, At
  <1>8. ASSUME NEW t \in Tokens, Revoke(p, t)
        PROVE  SweepInv'
    BY <1>3, <1>8 DEF Revoke
  <1>9. ASSUME NEW t \in Tokens, NEW ttl \in 1..MaxTtl, Insert(p, t, ttl)
        PROVE  SweepInv'
    BY <1>3, <1>9 DEF Insert
  <1>10. CASE SetApiAccess(p)
    <2>1. ~At(p, "idle") /\ swept' = swept /\ row' = row /\ proc[p].held = {}
      BY <1>10 DEF SetApiAccess, At, SweepInv, SweepOK
    <2>2. CASE Goto(p, "log")
      BY <1>2, <2>1, <2>2, GotoWork DEF SweepOK, At
    <2>3. CASE Hold(p, "revokeAll", TokensOf(proc[p].acct))
      BY <1>2, <2>1, <2>3, HoldWork DEF SweepOK, At, TokensOf, Owned, Exists
    <2> QED
      BY <1>10, <2>2, <2>3 DEF SetApiAccess
  <1>11. CASE RevokeAllFor(p)
    <2>1. ~At(p, "idle") /\ swept' = swept /\ At(p, "revokeAll") /\ Goto(p, "log")
      BY <1>11 DEF RevokeAllFor, At
    <2>2. ASSUME NEW t \in proc[p].held
          PROVE  Spent(t)'
      <3>1. t \in Tokens
        BY <2>1, BusyWork
      <3>2. CASE row[t] = Deleted
        BY <3>1, <3>2, SpentStays, RowKinds DEF Spent, Verifies, Exists
      <3>3. CASE Owned(proc[p].acct, t) /\ row[t].revoked # NotYet
        BY <3>1, <3>3, SpentStays DEF Spent, Verifies, Owned, Exists
      <3>4. CASE Owned(proc[p].acct, t) /\ row[t].revoked = NotYet
        <4>1. row'[t] = Stamped(t)
          BY <1>11, <3>1, <3>4 DEF RevokeAllFor
        <4> QED
          BY <3>1, <3>4, <4>1, StampedRow, RowKinds DEF Spent, Verifies, Owned
      <3> QED
        BY <2>1, <3>2, <3>3, <3>4 DEF SweepInv, SweepOK
    <2> QED
      BY <1>2, <2>1, <2>2, GotoWork DEF SweepOK, At
  <1>12. CASE WriteLog(p)
    <2>1. SweepOK(p)'
      BY <1>12, FinishWork, SweepElsewhere DEF WriteLog, Idle
    <2>2. ~At(p, "idle") /\ \A t \in proc[p].held : t \in Tokens /\ Spent(t)
      BY <1>12, BusyWork DEF WriteLog, At, SweepInv, SweepOK
    <2>3. \A t \in swept' : t \in Tokens /\ Spent(t)
      BY <1>12, <2>2 DEF WriteLog, SweepInv, TypeOK
    <2> QED
      BY <1>1, <2>1, <2>3, SweepUndisturbed, SpentStays DEF SweepInv
  <1>13. CASE DeleteCustomer(p)
    BY <1>3, <1>4, <1>13 DEF DeleteCustomer, At
  <1> QED
    BY <1>5, <1>6, <1>7, <1>8, <1>9, <1>10, <1>11, <1>12, <1>13 DEF Step

(* A withdrawal that was reported as done has ended every token there was  *)
(* when it switched the access off, whatever grants, issues and deaths     *)
(* came in between.                                                        *)
THEOREM WithdrawalsSweep == Spec => []WithdrawalSweeps
  <1>1. Init => SweepInv
    BY DEF Init, SweepInv, SweepOK, At, Idle
  <1>2. TypeOK /\ SweepInv /\ [Next]_vars => SweepInv'
    <2> SUFFICES ASSUME TypeOK, SweepInv, [Next]_vars PROVE SweepInv'
      OBVIOUS
    <2>1. ASSUME swept' = swept, \A p \in Procs : SweepOK(p)'
          PROVE  SweepInv'
      BY <2>1, SpentStays DEF SweepInv, TypeOK
    <2>2. ASSUME NEW p \in Procs, Restart(p)
          PROVE  SweepInv'
      <3>1. swept' = swept /\ Finish(p)
        BY <2>2 DEF Restart, Finish
      <3> QED
        BY <2>1, <3>1, FinishWork, SweepElsewhere, SweepUndisturbed DEF SweepInv, Idle
    <2>3. CASE Tick \/ UNCHANGED vars
      BY <2>1, <2>3, SweepUndisturbed DEF SweepInv, Tick, vars
    <2>4. ASSUME NEW a, ChangePassword(a) \/ Settle(a)
          PROVE  SweepInv'
      BY <2>1, <2>4, StatusSteps, SweepUndisturbed DEF SweepInv
    <2> QED
      BY <2>1, <2>2, <2>3, <2>4, SweepRequest, SweepStep DEF Next
  <1>3. SweepInv => WithdrawalSweeps
    BY DEF SweepInv, WithdrawalSweeps, Spent
  <1> QED
    BY <1>1, <1>2, <1>3, TypeCorrect, PTL DEF Spec

---------------------------------------------------------------------------
(* Refusals. *)

(* An account is "ok" again only by the daemon, and for every request      *)
(* under way.                                                              *)
LEMMA OnlySettledIsOk ==
    ASSUME TypeOK, NEW p \in Procs, Request(p) \/ Step(p) \/ Restart(p),
           NEW a \in Accounts, account[a] # "ok"
    PROVE  account'[a] # "ok"
  <1>1. ASSUME Request(p)
        PROVE  account'[a] # "ok"
    <2>1. ASSUME NEW b, DeleteReseller(p, b)
          PROVE  account'[a] # "ok"
      BY <2>1 DEF DeleteReseller, TypeOK
    <2>2. ASSUME NEW w, Begin(p, w)
          PROVE  account'[a] # "ok"
      BY <2>2 DEF Begin
    <2> QED
      BY <1>1, <2>1, <2>2 DEF Request, Present, Ask, Administer, OpenPage, AskDeletion
  <1>2. CASE DeleteCustomer(p)
    BY <1>2 DEF DeleteCustomer, TypeOK
  <1>3. Step(p) \/ Restart(p) => DeleteCustomer(p) \/ account' = account
    BY DEF Step, Restart, Verify, LoadAccount, CheckAccess, Serve, Revoke, CheckRoom, Insert,
        SetApiAccess, RevokeAllFor, WriteLog, ForgetTokens, ForgetPerm
  <1> QED
    BY <1>1, <1>2, <1>3

(* A credential is stopped by the check it fails: the token's by the       *)
(* token, the account's by the account.                                    *)
TokenStops(p) ==
    (At(p, "verify") /\ "token" \in proc[p].refused) => \E t \in proc[p].held : Spent(t)

AccountStops(p) ==
    (proc[p].phase \in {"verify", "account"} /\ "account" \in proc[p].refused)
        => account[proc[p].acct] # "ok"

Passed(p) ==
    /\ At(p, "account") => "token" \notin proc[p].refused
    /\ proc[p].phase \in {"access", "execute", "insert"} => proc[p].refused = {}

RefusedOK(p) == TokenStops(p) /\ AccountStops(p) /\ Passed(p)

RefusedInv == \A p \in Procs : RefusedOK(p)

LEMMA TokenStopsStill ==
    ASSUME TypeOK, [Next]_vars, NEW p \in Procs, TokenStops(p),
           proc'[p].phase = proc[p].phase, proc'[p].held = proc[p].held,
           "token" \in proc'[p].refused => "token" \in proc[p].refused
    PROVE  TokenStops(p)'
  <1>1. At(p, "verify") => proc[p].held \subseteq Tokens
    BY BusyWork DEF At
  <1> QED
    BY <1>1, SpentStays DEF TokenStops, At

LEMMA RefusedUndisturbed ==
    ASSUME TypeOK, [Next]_vars, NEW p \in Procs, RefusedOK(p), proc'[p] = proc[p],
           \A a \in Accounts : account[a] # "ok" => account'[a] # "ok"
    PROVE  RefusedOK(p)'
  <1>1. proc[p].phase \in {"verify", "account"} => proc[p].acct \in Accounts
    BY BusyWork DEF At
  <1>2. AccountStops(p)'
    BY <1>1 DEF RefusedOK, AccountStops
  <1>3. TokenStops(p)'
    BY TokenStopsStill DEF RefusedOK
  <1> QED
    BY <1>2, <1>3 DEF RefusedOK, Passed, At

LEMMA RefusedSettled ==
    ASSUME TypeOK, [Next]_vars, NEW p \in Procs, RefusedOK(p), NEW a \in Accounts, Settle(a)
    PROVE  RefusedOK(p)'
  <1>1. \A b \in Accounts : b # a => account'[b] = account[b]
    BY DEF Settle, TypeOK
  <1>2. CASE proc' = proc /\ account'[a] # "ok"
    <2>1. \A b \in Accounts : account[b] # "ok" => account'[b] # "ok"
      BY <1>1, <1>2
    <2> QED
      BY <1>2, <2>1, RefusedUndisturbed
  <1>3. CASE proc' = BackFor(a)
    <2>1. Alike(p)
      BY <1>3, BackWork
    <2>2. CASE proc[p] # Idle /\ proc[p].acct = a
      <3>1. proc'[p].refused = proc[p].refused \ {"account"}
        BY <1>3, <2>2, BackWork
      <3>2. TokenStops(p)'
        BY <2>1, <3>1, TokenStopsStill DEF RefusedOK, Alike
      <3>3. AccountStops(p)'
        BY <3>1 DEF AccountStops
      <3>4. Passed(p)'
        BY <2>1, <3>1 DEF RefusedOK, Passed, Alike, At
      <3> QED
        BY <3>2, <3>3, <3>4 DEF RefusedOK
    <2>3. CASE ~(proc[p] # Idle /\ proc[p].acct = a)
      <3>1. proc'[p] = proc[p]
        BY <1>3, <2>3, BackWork
      <3>2. TokenStops(p)'
        BY <3>1, TokenStopsStill DEF RefusedOK
      <3>3. proc[p].phase \in {"verify", "account"} => proc[p].acct \in Accounts /\ proc[p].acct # a
        BY <2>3, BusyWork DEF At, Idle
      <3>4. AccountStops(p)'
        BY <1>1, <3>1, <3>3 DEF RefusedOK, AccountStops
      <3>5. Passed(p)'
        BY <3>1 DEF RefusedOK, Passed, At
      <3> QED
        BY <3>2, <3>4, <3>5 DEF RefusedOK
    <2> QED
      BY <2>2, <2>3
  <1>4. (proc' = proc /\ account'[a] # "ok") \/ proc' = BackFor(a)
    BY DEF Settle, TypeOK
  <1> QED
    BY <1>2, <1>3, <1>4

LEMMA RefusedElsewhere ==
    ASSUME NEW p, proc'[p].phase \notin {"verify", "account", "access", "execute", "insert"}
    PROVE  RefusedOK(p)'
  BY DEF RefusedOK, TokenStops, AccountStops, Passed, At

LEMMA RefusedRequest ==
    ASSUME TypeOK, [Next]_vars, NEW p \in Procs, RefusedOK(p), Request(p)
    PROVE  RefusedOK(p)'
  <1>1. ASSUME NEW t \in Tokens, Present(p, t)
        PROVE  RefusedOK(p)'
    <2> DEFINE a == row[t].owner
    <2>1. row[t] # Unissued
      BY <1>1 DEF Present, Exists
    <2>2. /\ proc'[p].phase = "verify"
          /\ proc'[p].acct = a
          /\ proc'[p].refused = Unfit(a) \cup (IF Verifies(t) THEN {} ELSE {"token"})
          /\ proc'[p].held = {t}
      BY <1>1, BeginWork DEF Present, Work
    <2>3. account' = account
      BY <1>1 DEF Present, Begin
    <2>4. ~Verifies(t) => Spent(t)'
      BY <2>1, SpentStays DEF Spent
    <2>5. TokenStops(p)'
      BY <2>2, <2>4 DEF TokenStops, Unfit
    <2>6. AccountStops(p)'
      BY <2>2, <2>3 DEF AccountStops, Unfit
    <2> QED
      BY <2>2, <2>5, <2>6 DEF RefusedOK, Passed, At
  <1>2. ASSUME NEW op, NEW a \in Accounts, Ask(p, op, a)
        PROVE  RefusedOK(p)'
    <2>1. /\ proc'[p].phase = "account"
          /\ proc'[p].acct = a
          /\ proc'[p].refused = Unfit(a)
      BY <1>2, BeginWork DEF Ask, Work
    <2>2. account' = account
      BY <1>2 DEF Ask, Begin
    <2> QED
      BY <2>1, <2>2 DEF RefusedOK, TokenStops, AccountStops, Passed, Unfit, At
  <1>3. ASSUME NEW op, NEW a, Administer(p, op, a)
        PROVE  RefusedOK(p)'
    BY <1>3, BeginWork, RefusedElsewhere DEF Administer, Work
  <1>4. ASSUME NEW a, OpenPage(p, a)
        PROVE  RefusedOK(p)'
    <2>1. proc'[p].phase \in {"access", "execute"} /\ proc'[p].refused = {}
      BY <1>4, BeginWork DEF OpenPage, Work
    <2> QED
      BY <2>1 DEF RefusedOK, TokenStops, AccountStops, Passed, At
  <1>5. ASSUME NEW a, AskDeletion(p, a)
        PROVE  RefusedOK(p)'
    BY <1>5, BeginWork, RefusedElsewhere DEF AskDeletion, Work
  <1>6. ASSUME NEW a, DeleteReseller(p, a)
        PROVE  RefusedOK(p)'
    <2>1. proc' = proc
      BY <1>6 DEF DeleteReseller
    <2> QED
      BY <2>1, OnlySettledIsOk, RefusedUndisturbed
  <1> QED
    BY <1>1, <1>2, <1>3, <1>4, <1>5, <1>6 DEF Request

LEMMA RefusedStep ==
    ASSUME TypeOK, [Next]_vars, NEW p \in Procs, RefusedOK(p), Step(p)
    PROVE  RefusedOK(p)'
  <1>1. ASSUME Finish(p)
        PROVE  RefusedOK(p)'
    BY <1>1, FinishWork, RefusedElsewhere DEF Idle
  <1>2. ASSUME Verify(p), Hold(p, "account", {}), \A t \in proc[p].held : Verifies(t)
        PROVE  RefusedOK(p)'
    <2>1. ~At(p, "idle") /\ At(p, "verify") /\ account' = account
      BY <1>2 DEF Verify, At
    <2>2. "token" \notin proc[p].refused
      BY <1>2, <2>1 DEF RefusedOK, TokenStops, Spent
    <2>3. /\ proc'[p].phase = "account"
          /\ proc'[p].acct = proc[p].acct
          /\ proc'[p].refused = proc[p].refused
      BY <1>2, <2>1, HoldWork
    <2> QED
      BY <2>1, <2>2, <2>3 DEF RefusedOK, TokenStops, AccountStops, Passed, At
  <1>3. ASSUME LoadAccount(p), Goto(p, "access"), account[proc[p].acct] = "ok"
        PROVE  RefusedOK(p)'
    <2>1. ~At(p, "idle") /\ At(p, "account")
      BY <1>3 DEF LoadAccount, At
    <2>2. "token" \notin proc[p].refused /\ "account" \notin proc[p].refused
      BY <1>3, <2>1 DEF RefusedOK, AccountStops, Passed, At
    <2>3. proc[p].refused = {}
      BY <2>1, <2>2, BusyWork
    <2>4. proc'[p].phase = "access" /\ proc'[p].refused = {}
      BY <1>3, <2>1, <2>3, GotoWork
    <2> QED
      BY <2>4 DEF RefusedOK, TokenStops, AccountStops, Passed, At
  <1>4. ASSUME CheckAccess(p) \/ CheckRoom(p), Goto(p, "execute") \/ Goto(p, "insert")
        PROVE  RefusedOK(p)'
    <2>1. ~At(p, "idle") /\ proc[p].refused = {}
      BY <1>4 DEF CheckAccess, CheckRoom, At, RefusedOK, Passed
    <2>2. proc'[p].phase \in {"execute", "insert"} /\ proc'[p].refused = {}
      BY <1>4, <2>1, GotoWork
    <2> QED
      BY <2>2 DEF RefusedOK, TokenStops, AccountStops, Passed, At
  <1>5. ASSUME NEW phase \in {"log", "revokeAll", "forgetTokens", "forgetPerm"}, ~At(p, "idle"),
               Goto(p, phase) \/ Hold(p, phase, TokensOf(proc[p].acct))
        PROVE  RefusedOK(p)'
    BY <1>5, GotoWork, HoldWork, RefusedElsewhere
  <1>6. SetApiAccess(p) \/ RevokeAllFor(p) \/ DeleteCustomer(p) \/ ForgetTokens(p) => RefusedOK(p)'
    BY <1>1, <1>5 DEF SetApiAccess, RevokeAllFor, DeleteCustomer, ForgetTokens, At
  <1>7. Verify(p) \/ LoadAccount(p) \/ CheckAccess(p) \/ CheckRoom(p) => RefusedOK(p)'
    BY <1>1, <1>2, <1>3, <1>4 DEF Verify, LoadAccount, CheckAccess, CheckRoom
  <1>8. (\E t \in Tokens, ttl \in 1..MaxTtl : Insert(p, t, ttl)) \/ (\E t \in Tokens : Revoke(p, t))
        \/ Serve(p) \/ WriteLog(p) \/ ForgetPerm(p) => RefusedOK(p)'
    BY <1>1 DEF Insert, Revoke, Serve, WriteLog, ForgetPerm
  <1> QED
    BY <1>6, <1>7, <1>8 DEF Step

(* A bearer that did not verify when it was presented, and a credential    *)
(* for an account that has not been "ok" since, are never executed for,    *)
(* whoever else is at work and however often the account's status changes. *)
THEOREM RefusalsHold == Spec => []RefusedStaysRefused
  <1>1. Init => RefusedInv
    BY DEF Init, RefusedInv, RefusedOK, TokenStops, AccountStops, Passed, At, Idle
  <1>2. TypeOK /\ RefusedInv /\ [Next]_vars => RefusedInv'
    <2> SUFFICES ASSUME TypeOK, RefusedInv, [Next]_vars PROVE RefusedInv'
      OBVIOUS
    <2>1. ASSUME NEW p \in Procs, Request(p) \/ Step(p) \/ Restart(p)
          PROVE  RefusedInv'
      <3>0. Restart(p) => proc'[p] = Idle
        BY FinishWork DEF Restart, Finish
      <3>1. Restart(p) => RefusedOK(p)'
        BY <3>0, RefusedElsewhere DEF Idle
      <3>2. RefusedOK(p)'
        BY <2>1, <3>1, RefusedRequest, RefusedStep DEF RefusedInv
      <3> QED
        BY <2>1, <3>2, OthersKeep, OnlySettledIsOk, RefusedUndisturbed DEF RefusedInv
    <2>2. Tick \/ UNCHANGED vars => RefusedInv'
      BY RefusedUndisturbed DEF RefusedInv, Tick, vars
    <2>3. ASSUME NEW a, ChangePassword(a)
          PROVE  RefusedInv'
      <3>1. proc' = proc /\ \A b \in Accounts : account[b] # "ok" => account'[b] # "ok"
        BY <2>3 DEF ChangePassword, TypeOK
      <3> QED
        BY <3>1, RefusedUndisturbed DEF RefusedInv
    <2>4. ASSUME NEW a \in Accounts, Settle(a)
          PROVE  RefusedInv'
      BY <2>4, RefusedSettled DEF RefusedInv
    <2> QED
      BY <2>1, <2>2, <2>3, <2>4 DEF Next, Accounts
  <1>3. RefusedInv => RefusedStaysRefused
    BY DEF RefusedInv, RefusedOK, Passed, RefusedStaysRefused
  <1> QED
    BY <1>1, <1>2, <1>3, TypeCorrect, PTL DEF Spec

---------------------------------------------------------------------------
(* API access. *)

(* An access that is on, and a remembered one, has been seen.              *)
Informed(p) ==
    /\ \A a \in Accounts : AccessOn(perm[a]) => a \in seen[p]
    /\ \A a \in Accounts : cache[p][a] = "on" => a \in seen[p]

Served(p) ==
    (proc[p].phase \in {"execute", "insert"} /\ ~(proc[p].op = "page" /\ proc[p].acct \in Resellers))
        => proc[p].acct \in seen[p]

AccessInv == \A p \in Procs : Informed(p) /\ Served(p)

LEMMA SwitchInforms ==
    ASSUME TypeOK, AccessInv, NEW a \in Accounts, NEW switch, Switch(a, switch), cache' = cache,
           NEW p \in Procs
    PROVE  Informed(p)' /\ seen[p] \subseteq seen'[p]
  <1>1. seen[p] \subseteq seen'[p]
    BY DEF Switch, TypeOK
  <1>2. AccessOn(switch) => a \in seen'[p]
    BY DEF Switch, TypeOK
  <1>3. \A b \in Accounts : AccessOn(perm'[b]) => b \in seen'[p]
    BY <1>1, <1>2 DEF Switch, TypeOK, AccessInv, Informed
  <1> QED
    BY <1>1, <1>3 DEF Informed, AccessInv, AccessOn

LEMMA ServedUndisturbed ==
    ASSUME NEW p, Served(p), Alike(p) \/ proc'[p] = proc[p], seen[p] \subseteq seen'[p]
    PROVE  Served(p)'
  BY DEF Served, Alike

LEMMA ServedElsewhere ==
    ASSUME NEW p, proc'[p].phase \notin {"execute", "insert"}
    PROVE  Served(p)'
  BY DEF Served

LEMMA AccessSwitched ==
    ASSUME TypeOK, AccessInv, NEW p \in Procs, Request(p) \/ Step(p),
           NEW a \in Accounts, NEW switch, Switch(a, switch), cache' = cache, Served(p)'
    PROVE  AccessInv'
  BY OthersKeep, SwitchInforms, ServedUndisturbed DEF AccessInv

LEMMA AccessKept ==
    ASSUME TypeOK, AccessInv, NEW p \in Procs, Request(p) \/ Step(p),
           UNCHANGED <<perm, cache, seen>>, Served(p)'
    PROVE  AccessInv'
  <1>1. \A q \in Procs : Informed(q)'
    BY DEF AccessInv, Informed, AccessOn
  <1> QED
    BY <1>1, OthersKeep, ServedUndisturbed DEF AccessInv

LEMMA AccessRequest ==
    ASSUME TypeOK, AccessInv, NEW p \in Procs, Request(p)
    PROVE  AccessInv'
  <1>1. ASSUME NEW w, Begin(p, w), w.phase \notin {"execute", "insert"}
        PROVE  AccessInv'
    BY <1>1, BeginWork, ServedElsewhere, AccessKept DEF Begin
  <1>2. ASSUME NEW t \in Tokens, Present(p, t)
        PROVE  AccessInv'
    BY <1>1, <1>2 DEF Present, Work
  <1>3. ASSUME NEW op, NEW a, Ask(p, op, a) \/ Administer(p, op, a)
        PROVE  AccessInv'
    BY <1>1, <1>3 DEF Ask, Administer, Work
  <1>4. ASSUME NEW a \in Accounts, OpenPage(p, a)
        PROVE  AccessInv'
    <2> DEFINE w == Work("page", IF a \in Customers THEN "access" ELSE "execute", a, {}, {})
    <2>1. w.op = "page" /\ w.acct = a /\ (w.phase = "access" \/ a \in Resellers)
      BY DEF Work, Accounts
    <2>2. proc'[p] = w
      BY <1>4, BeginWork DEF OpenPage
    <2>3. Served(p)'
      BY <2>1, <2>2 DEF Served
    <2> QED
      BY <1>4, <2>3, AccessKept DEF OpenPage, Begin
  <1>5. ASSUME NEW a, AskDeletion(p, a)
        PROVE  AccessInv'
    BY <1>1, <1>5 DEF AskDeletion, Work
  <1>6. ASSUME NEW a \in Resellers, DeleteReseller(p, a)
        PROVE  AccessInv'
    <2>1. a \in Accounts /\ Switch(a, "none") /\ proc' = proc /\ cache' = cache
      BY <1>6 DEF DeleteReseller, Accounts
    <2>2. Served(p)'
      BY <2>1, SwitchInforms, ServedUndisturbed DEF AccessInv
    <2> QED
      BY <2>1, <2>2, AccessSwitched
  <1> QED
    BY <1>2, <1>3, <1>4, <1>5, <1>6 DEF Request

LEMMA AccessStep ==
    ASSUME TypeOK, AccessInv, NEW p \in Procs, Step(p)
    PROVE  AccessInv'
  <1>1. ASSUME Finish(p)
        PROVE  Served(p)'
    BY <1>1, FinishWork, ServedElsewhere DEF Idle
  <1>2. ASSUME NEW phase \in {"account", "access", "log", "revokeAll", "forgetTokens", "forgetPerm"},
               NEW held, ~At(p, "idle"), Goto(p, phase) \/ Hold(p, phase, held)
        PROVE  Served(p)'
    BY <1>2, GotoWork, HoldWork, ServedElsewhere
  <1>3. CASE Verify(p) \/ LoadAccount(p) \/ Serve(p) \/ RevokeAllFor(p) \/ WriteLog(p)
             \/ DeleteCustomer(p) \/ ForgetTokens(p)
    <2>1. ~At(p, "idle") /\ UNCHANGED <<perm, cache, seen>>
      BY <1>3 DEF Verify, LoadAccount, Serve, RevokeAllFor, WriteLog, DeleteCustomer, ForgetTokens, At
    <2>2. Served(p)'
      BY <1>1, <1>2, <1>3, <2>1
      DEF Verify, LoadAccount, Serve, RevokeAllFor, WriteLog, DeleteCustomer, ForgetTokens
    <2> QED
      BY <2>1, <2>2, AccessKept
  <1>4. ASSUME NEW t \in Tokens, Revoke(p, t) \/ \E ttl \in 1..MaxTtl : Insert(p, t, ttl)
        PROVE  AccessInv'
    BY <1>1, <1>4, AccessKept DEF Revoke, Insert
  <1>5. CASE CheckRoom(p)
    <2>1. ~At(p, "idle") /\ At(p, "execute") /\ UNCHANGED <<perm, cache, seen>>
      BY <1>5 DEF CheckRoom, At
    <2>2. CASE Goto(p, "insert")
      <3>1. Served(p)'
        BY <2>1, <2>2, GotoWork DEF Served, AccessInv, At
      <3> QED
        BY <2>1, <3>1, AccessKept
    <2>3. CASE Finish(p)
      BY <1>1, <2>1, <2>3, AccessKept
    <2> QED
      BY <1>5, <2>2, <2>3 DEF CheckRoom
  <1>6. CASE CheckAccess(p)
    <2> DEFINE a == proc[p].acct
    <2>1. ~At(p, "idle") /\ a \in Accounts /\ UNCHANGED <<perm, seen>>
      BY <1>6, BusyWork DEF CheckAccess, At
    <2>2. HasAccess(p, a) => a \in seen[p]
      BY <2>1 DEF HasAccess, AccessInv, Informed
    <2>3. Served(p)'
      BY <1>1, <1>6, <2>1, <2>2, GotoWork DEF CheckAccess, Served
    <2>4. \A q \in Procs, b \in Accounts : cache'[q][b] = "on" => b \in seen[q]
      BY <1>6, <2>1, <2>2 DEF CheckAccess, AccessInv, Informed, TypeOK
    <2>5. \A q \in Procs : Informed(q)'
      BY <2>1, <2>4 DEF AccessInv, Informed, AccessOn
    <2> QED
      BY <2>1, <2>3, <2>5, OthersKeep, ServedUndisturbed DEF AccessInv
  <1>7. CASE SetApiAccess(p)
    <2>1. ~At(p, "idle") /\ proc[p].acct \in Accounts /\ cache' = cache
      BY <1>7, BusyWork DEF SetApiAccess, At
    <2>2. Served(p)'
      BY <1>2, <1>7, <2>1 DEF SetApiAccess
    <2> QED
      BY <1>7, <2>1, <2>2, AccessSwitched DEF SetApiAccess
  <1>8. CASE ForgetPerm(p)
    <2>1. proc[p].acct \in Accounts /\ cache' = cache
      BY <1>8, BusyWork DEF ForgetPerm, At
    <2> QED
      BY <1>1, <1>8, <2>1, AccessSwitched DEF ForgetPerm
  <1> QED
    BY <1>3, <1>4, <1>5, <1>6, <1>7, <1>8 DEF Step

(* What a PHP process remembers of an account's API access is never older  *)
(* than the process, and never another account's.                          *)
THEOREM AccessHolds == Spec => []ServedWithinAccess
  <1>1. Init => AccessInv
    BY DEF Init, AccessInv, Informed, Served, On, Idle
  <1>2. TypeOK /\ AccessInv /\ [Next]_vars => AccessInv'
    <2> SUFFICES ASSUME TypeOK, AccessInv, [Next]_vars PROVE AccessInv'
      OBVIOUS
    <2>1. ASSUME NEW p \in Procs, Restart(p)
          PROVE  AccessInv'
      <3>1. Informed(p)'
        BY <2>1 DEF Restart, Informed, TypeOK, On, AccessOn
      <3>2. proc'[p].phase = "idle"
        BY <2>1 DEF Restart, TypeOK, Idle
      <3>3. \A q \in Procs : q # p => Informed(q)' /\ seen'[q] = seen[q]
        BY <2>1 DEF Restart, Informed, TypeOK, AccessInv, AccessOn
      <3> QED
        BY <2>1, <3>1, <3>2, <3>3, OthersKeep, ServedElsewhere, ServedUndisturbed DEF AccessInv
    <2>2. Tick \/ UNCHANGED vars => AccessInv'
      BY ServedUndisturbed DEF Tick, vars, AccessInv, Informed, AccessOn
    <2>3. ASSUME NEW a, ChangePassword(a) \/ Settle(a)
          PROVE  AccessInv'
      BY <2>3, StatusSteps, ServedUndisturbed DEF AccessInv, Informed, AccessOn
    <2> QED
      BY <2>1, <2>2, <2>3, AccessRequest, AccessStep DEF Next
  <1>3. AccessInv => ServedWithinAccess
    BY DEF AccessInv, Served, ServedWithinAccess
  <1> QED
    BY <1>1, <1>2, <1>3, TypeCorrect, PTL DEF Spec

---------------------------------------------------------------------------
(* The token limit. *)

Room(a) == Cardinality(LiveTokens(a)) + Cardinality(Inserting(a)) <= Limit + Cardinality(Procs) - 1

LEMMA Counted ==
    ASSUME TypeOK, NEW a
    PROVE  /\ IsFiniteSet(LiveTokens(a)) /\ IsFiniteSet(Inserting(a))
           /\ Cardinality(LiveTokens(a)) \in Nat /\ Cardinality(Inserting(a)) \in Nat
           /\ Cardinality(Procs) \in Nat /\ Cardinality(Procs) >= 1
           /\ Cardinality(Inserting(a)) <= Cardinality(Procs)
  <1>1. LiveTokens(a) \subseteq Tokens /\ Inserting(a) \subseteq Procs
    BY DEF LiveTokens, TokensOf, Inserting
  <1>2. Cardinality(Procs) \in Nat /\ Cardinality(Procs) # 0
    BY Configured, FS_EmptySet, FS_CardinalityType
  <1>3. IsFiniteSet(LiveTokens(a)) /\ IsFiniteSet(Inserting(a))
        /\ Cardinality(Inserting(a)) <= Cardinality(Procs)
    BY <1>1, Configured, FS_Subset
  <1> QED
    BY <1>2, <1>3, FS_CardinalityType

LEMMA FewerStillRoom ==
    ASSUME TypeOK, TypeOK', NEW a, Room(a), Limit \in Nat,
           LiveTokens(a)' \subseteq LiveTokens(a), Inserting(a)' \subseteq Inserting(a)
    PROVE  Room(a)'
  <1>1. /\ Cardinality(LiveTokens(a)') <= Cardinality(LiveTokens(a))
        /\ Cardinality(LiveTokens(a)') \in Nat
    BY Counted, FS_Subset, FS_CardinalityType
  <1>2. /\ Cardinality(Inserting(a)') <= Cardinality(Inserting(a))
        /\ Cardinality(Inserting(a)') \in Nat
    BY Counted, FS_Subset, FS_CardinalityType
  <1>3. Cardinality(LiveTokens(a))' = Cardinality(LiveTokens(a)')
        /\ Cardinality(Inserting(a))' = Cardinality(Inserting(a)')
    OBVIOUS
  <1> QED
    BY <1>1, <1>2, <1>3, Counted DEF Room

LEMMA OnlyInsertsAreNew ==
    ASSUME TypeOK, [Next]_vars, NEW a, NEW t \in LiveTokens(a)', t \notin LiveTokens(a)
    PROVE  \E p \in Procs, ttl \in 1..MaxTtl : Insert(p, t, ttl) /\ proc[p].acct = a
  <1>1. t \in Tokens /\ Owned(a, t)' /\ Exists(t)' /\ row'[t].revoked = NotYet /\ row'[t].expires > now'
    BY DEF LiveTokens, TokensOf, Owned
  <1>2. ~Spent(t)'
    <2>1. row'[t] \in Rows
      BY <1>1, TypeKept, RowType DEF TypeOK, Exists
    <2>2. row'[t].expires \in Int /\ now' \in Int
      BY <2>1, TypeKept, Configured DEF TypeOK, Rows, Times
    <2> QED
      BY <1>1, <2>2 DEF Spent, Verifies
  <1>3. CASE row[t] = Unissued
    <2>1. ASSUME row' = row
          PROVE  FALSE
      BY <1>1, <1>3, <2>1 DEF Exists
    <2>2. ASSUME NEW b, row' = Dropped(b)
          PROVE  FALSE
      BY <1>1, <1>3, <2>2 DEF Dropped, Exists, Owned
    <2>3. ASSUME NEW p \in Procs, RevokeAllFor(p)
          PROVE  FALSE
      BY <1>1, <1>3, <2>3 DEF RevokeAllFor, Exists, Owned
    <2>4. ASSUME NEW p \in Procs, NEW u \in Tokens, Revoke(p, u)
          PROVE  FALSE
      BY <1>1, <1>3, <2>4 DEF Revoke, Exists, Owned, TypeOK
    <2>5. ASSUME NEW p \in Procs, NEW u \in Tokens, NEW ttl \in 1..MaxTtl, Insert(p, u, ttl)
          PROVE  u = t /\ proc[p].acct = a
      BY <1>1, <1>3, <2>5 DEF Insert, Exists, Owned, TypeOK
    <2>6. (\E p \in Procs : Restart(p)) \/ Tick \/ UNCHANGED vars => row' = row
      BY DEF Restart, Tick, vars
    <2> QED
      BY <2>1, <2>2, <2>3, <2>4, <2>5, <2>6, RequestRows, StepRows, StatusSteps DEF Next
  <1>4. CASE row[t] # Unissued
    <2>1. Verifies(t)
      BY <1>1, <1>2, <1>4, SpentStays DEF Spent
    <2>2. row[t].owner = row'[t].owner
      BY <1>1, <1>4, <2>1, RowsEvolve, StampedRow DEF Evolves, Verifies, Exists
    <2>3. row[t].expires \in Int /\ now \in Int
      BY <1>1, <2>1, RowType, Configured DEF Verifies, Rows, Times, TypeOK
    <2>4. t \in LiveTokens(a)
      BY <1>1, <2>1, <2>2, <2>3 DEF LiveTokens, TokensOf, Owned, Verifies
    <2> QED
      BY <2>4
  <1> QED
    BY <1>3, <1>4

LEMMA OnlyCheckRoomAdmits ==
    ASSUME TypeOK, [Next]_vars, NEW a, NEW p \in Inserting(a)', p \notin Inserting(a)
    PROVE  CheckRoom(p) /\ proc[p].acct = a /\ RoomFor(proc[p].op, a)
  <1>1. p \in Procs /\ proc'[p].phase = "insert" /\ proc'[p].acct = a /\ proc'[p] # proc[p]
        /\ ~Alike(p)
    BY DEF Inserting, At, Alike
  <1>2. Request(p) \/ Step(p) \/ Restart(p)
    BY <1>1, OthersKeep, StatusSteps DEF Next, Tick, vars
  <1>3. ~Finish(p) /\ ~Restart(p)
    BY <1>1, FinishWork DEF Restart, Finish, Idle
  <1>4. ~Request(p)
    <2>1. ASSUME NEW w, Begin(p, w)
          PROVE  w.phase = "insert"
      BY <1>1, <2>1, BeginWork
    <2>2. ASSUME NEW b, DeleteReseller(p, b)
          PROVE  FALSE
      BY <1>1, <2>2 DEF DeleteReseller
    <2>3. ASSUME NEW op, NEW phase, NEW b, NEW refused, NEW held, Begin(p, Work(op, phase, b, refused, held))
          PROVE  phase = "insert"
      BY <2>1, <2>3 DEF Work
    <2> QED
      BY <2>2, <2>3 DEF Request, Present, Ask, Administer, OpenPage, AskDeletion
  <1>5. ASSUME NEW phase, NEW held, ~At(p, "idle"), Goto(p, phase) \/ Hold(p, phase, held)
        PROVE  phase = "insert" /\ proc[p].acct = a
    BY <1>1, <1>5, GotoWork, HoldWork
  <1>6. CheckRoom(p)
    <2>1. ~Serve(p) /\ ~WriteLog(p) /\ ~ForgetPerm(p)
      BY <1>3 DEF Serve, WriteLog, ForgetPerm
    <2>2. (\A t \in Tokens : ~Revoke(p, t)) /\ (\A t \in Tokens, ttl \in 1..MaxTtl : ~Insert(p, t, ttl))
      BY <1>3 DEF Revoke, Insert
    <2>3. ~Verify(p) /\ ~LoadAccount(p)
      BY <1>3, <1>5 DEF Verify, LoadAccount, At
    <2>4. ~CheckAccess(p)
      BY <1>3, <1>5 DEF CheckAccess, At
    <2>5. ~SetApiAccess(p)
      BY <1>5 DEF SetApiAccess, At
    <2>6. ~RevokeAllFor(p) /\ ~ForgetTokens(p)
      BY <1>5 DEF RevokeAllFor, ForgetTokens, At
    <2>7. ~DeleteCustomer(p)
      BY <1>3, <1>5 DEF DeleteCustomer, At
    <2> QED
      BY <1>2, <1>3, <1>4, <2>1, <2>2, <2>3, <2>4, <2>5, <2>6, <2>7 DEF Step
  <1> QED
    BY <1>3, <1>5, <1>6 DEF CheckRoom, At

LEMMA RoomKept ==
    ASSUME TypeOK, [Next]_vars, NEW a, Limit > 0, Room(a)
    PROVE  Room(a)'
  <1> USE Configured
  <1>0. TypeOK'
    BY TypeKept
  <1>1. CASE LiveTokens(a)' \subseteq LiveTokens(a) /\ Inserting(a)' \subseteq Inserting(a)
    BY <1>0, <1>1, FewerStillRoom
  <1>2. ASSUME NEW p \in Inserting(a)', p \notin Inserting(a)
        PROVE  Room(a)'
    <2>1. CheckRoom(p) /\ p \in Procs /\ RoomFor(proc[p].op, a)
      BY <1>2, OnlyCheckRoomAdmits DEF Inserting
    <2>2. LiveTokens(a)' = LiveTokens(a)
      BY <2>1 DEF CheckRoom, LiveTokens, TokensOf, Owned, Exists
    <2>3. Cardinality(LiveTokens(a)) < Limit
      BY <2>1 DEF RoomFor
    <2>4. Cardinality(Inserting(a)') <= Cardinality(Procs) /\ Cardinality(Inserting(a)') \in Nat
      BY <1>0, FS_Subset, FS_CardinalityType DEF Inserting
    <2> QED
      BY <2>2, <2>3, <2>4, Counted DEF Room
  <1>3. ASSUME NEW t \in LiveTokens(a)', t \notin LiveTokens(a)
        PROVE  Room(a)'
    <2>1. PICK p \in Procs, ttl \in 1..MaxTtl : Insert(p, t, ttl) /\ proc[p].acct = a
      BY <1>3, OnlyInsertsAreNew
    <2>2. LiveTokens(a)' \subseteq LiveTokens(a) \cup {t}
      BY <2>1 DEF Insert, LiveTokens, TokensOf, Owned, Exists, TypeOK
    <2>3. Inserting(a)' = Inserting(a) \ {p} /\ p \in Inserting(a)
      BY <2>1, FinishWork DEF Insert, Inserting, At, Idle
    <2>4. Cardinality(Inserting(a)') = Cardinality(Inserting(a)) - 1
      BY <2>3, Counted, FS_RemoveElement
    <2>5. /\ IsFiniteSet(LiveTokens(a) \cup {t})
          /\ Cardinality(LiveTokens(a) \cup {t}) = Cardinality(LiveTokens(a)) + 1
      BY <1>3, Counted, FS_AddElement
    <2>6. /\ Cardinality(LiveTokens(a)') <= Cardinality(LiveTokens(a)) + 1
          /\ Cardinality(LiveTokens(a)') \in Nat
      BY <2>2, <2>5, FS_Subset, FS_CardinalityType
    <2> QED
      BY <2>4, <2>6, Counted DEF Room
  <1> QED
    BY <1>1, <1>2, <1>3

(* However many processes issue tokens at once, an account holds at most   *)
(* as many more than its limit as there are processes beside one.          *)
THEOREM OverrunsBounded == Spec => []OverrunBounded
  <1> DEFINE Inv == Limit > 0 => \A a \in Accounts : Room(a)
  <1>1. TypeOK /\ Init => Inv
    <2> SUFFICES ASSUME TypeOK, Init, Limit > 0, NEW a \in Accounts PROVE Room(a)
      OBVIOUS
    <2>1. LiveTokens(a) = {} /\ Inserting(a) = {}
      BY DEF Init, LiveTokens, TokensOf, Owned, Exists, Inserting, At, Idle
    <2>2. Cardinality(LiveTokens(a)) = 0 /\ Cardinality(Inserting(a)) = 0
      BY <2>1, FS_EmptySet
    <2> QED
      BY <2>2, Counted, Configured DEF Room
  <1>2. TypeOK /\ Inv /\ [Next]_vars => Inv'
    BY RoomKept
  <1>3. Inv => OverrunBounded
    BY DEF OverrunBounded, Room
  <1>4. Init => TypeOK
    BY IdleWork, Configured DEF Init, TypeOK, On, Statuses
  <1> HIDE DEF Inv
  <1> QED
    BY <1>1, <1>2, <1>3, <1>4, TypeCorrect, PTL DEF Spec

---------------------------------------------------------------------------
(* Which tokens work. *)

(* A row is stamped with a moment, so a stamp is never mistaken for none,  *)
(* and both the moment and the expiry are numbers the clock can be         *)
(* compared with: the five questions have one answer.                      *)
LEMMA OneAnswer ==
    ASSUME TypeOK, NEW a \in Accounts, NEW t \in TokensOf(a)
    PROVE  /\ Verifies(t) <=> IsLive(a, t)
           /\ IsLive(a, t) <=> t \in LiveTokens(a)
           /\ IsLive(a, t) <=> GridCounts(a, t)
           /\ IsLive(a, t) <=> TokenState(t) = "Active"
           /\ IsLive(a, t) => ~IsRevoked(a, t)
  <1>1. t \in Tokens /\ Owned(a, t) /\ Exists(t)
    BY DEF TokensOf, Owned
  <1>2. now \in Nat /\ row[t].expires \in Nat
    BY <1>1, RowType, Configured DEF TypeOK, Rows, Times
  <1>3. row[t].expires <= now <=> ~(row[t].expires > now)
    BY <1>2
  <1>4. Verifies(t) <=> row[t].revoked = NotYet /\ row[t].expires > now
    BY <1>1, <1>3 DEF Verifies
  <1>5. IsLive(a, t) <=> row[t].revoked = NotYet /\ row[t].expires > now
    BY <1>1 DEF IsLive
  <1>6. TokenState(t) = "Active" <=> row[t].revoked = NotYet /\ row[t].expires > now
    BY <1>3 DEF TokenState
  <1> QED
    BY <1>1, <1>4, <1>5, <1>6 DEF LiveTokens, GridCounts, IsRevoked

(* The middleware, the executor, the quota, the reseller's grid and the    *)
(* token page agree which tokens work, at every second of their lives and  *)
(* for any number of accounts and tokens.                                  *)
THEOREM QuestionsAgree == Spec => []LivenessAgrees
  <1>1. TypeOK => LivenessAgrees
    BY OneAnswer DEF LivenessAgrees
  <1> QED
    BY TypeCorrect, <1>1, PTL
=============================================================================
