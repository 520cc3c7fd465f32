----------------------------- MODULE ApiTokens -----------------------------
(***************************************************************************)
(* The API's credentials: bearer tokens in api_token, the switch of an     *)
(* account's API access in api_perm, and the requests that read and write  *)
(* them.  Every request is a PHP process that runs one statement at a time *)
(* with other processes in between, and none of the operations here runs   *)
(* in a transaction but the deletion of a reseller.                        *)
(*                                                                         *)
(* Scopes, names, secrets, the stamp of the last use and the contents of   *)
(* the address allow-list are data and left out; a refusal by the          *)
(* allow-list is a choice.  Whoever administers accounts is an account of  *)
(* the panel outside Accounts.  An account leaves "ok" and comes back to   *)
(* it whenever its password is changed.                                    *)
(***************************************************************************)
EXTENDS Integers, FiniteSets

CONSTANTS
    Procs,          \* PHP processes
    Tokens,         \* token ids
    Customers,      \* accounts of the type 'user'
    Resellers,      \* accounts of the type 'reseller'
    Limit,          \* token_max_per_account
    DefaultAllowed, \* allowed_by_default
    Operations,     \* the requests made in this instance, of AllOperations
    Outcomes,       \* what the daemon does in this instance, of AllOutcomes
    MaxTtl,         \* token_max_ttl_days, in this instance's units
    MaxTime         \* the end of this instance's clock

Accounts == Customers \cup Resellers

AllOperations ==
    {"bearer", "session",           \* a request to the endpoint
     "issue", "page",               \* tokenIssue and Executor::issueToken(), the panel's page
     "grant", "withdraw",           \* customer-/resellerSetApiAccess, the reseller's page
     "revokeAll", "delete",
     "password"}                    \* customerUpdate with a password

(* What the daemon makes of an account's status: it does what the status   *)
(* asks for or fails to.                                                   *)
AllOutcomes == {<<"tochangepwd", "ok">>, <<"tochangepwd", "error">>,
                <<"todelete", "absent">>, <<"todelete", "error">>}

ASSUME Configured ==
    /\ IsFiniteSet(Procs) /\ Procs # {} /\ IsFiniteSet(Tokens)
    /\ Customers \cap Resellers = {}
    /\ Limit \in Nat
    /\ DefaultAllowed \in BOOLEAN
    /\ Operations \subseteq AllOperations
    /\ Outcomes \subseteq AllOutcomes
    /\ MaxTtl \in Nat \ {0} /\ MaxTime \in Nat

VARIABLES
    now,        \* the clock
    row,        \* api_token
    perm,       \* api_perm, "none" where there is no row
    account,    \* admin_status, "absent" where there is no row
    proc,       \* what each process is doing
    cache,      \* the static array of customerHasApiAccess(), per process
    seen,       \* accounts whose access was on since the process began
    swept       \* tokens that existed when a withdrawal, since completed, began

vars == <<now, row, perm, account, proc, cache, seen, swept>>

---------------------------------------------------------------------------
NotYet == -1   \* revoked_at IS NULL

Times == 0..(MaxTime + MaxTtl)

Rows == [owner : Accounts, revoked : Times \cup {NotYet}, expires : Times]

Unissued == [owner |-> "nobody"]   \* the id is still ahead
Deleted  == [owner |-> "deleted"]  \* the id is behind, and its row gone

Exists(t) == row[t] \notin {Unissued, Deleted}

Owned(a, t) == Exists(t) /\ row[t].owner = a

TokensOf(a) == {t \in Tokens : Owned(a, t)}

(* "error" is every status but those named here, "disabled" among them.    *)
Statuses == {"ok", "tochangepwd", "error", "todelete", "absent"}

Idle == [op |-> "none", phase |-> "idle"]

Phases == {"verify", "account", "access", "execute", "insert",
           "perm", "revokeAll", "log", "delete", "forgetTokens", "forgetPerm"}

(* `refused' says why a credential has been no good ever since it was      *)
(* presented.                                                              *)
Works ==
    {Idle} \cup [op : Operations, phase : Phases, acct : Accounts,
                refused : SUBSET {"token", "account"}, held : SUBSET Tokens]

Work(op, phase, a, refused, held) ==
    [op |-> op, phase |-> phase, acct |-> a, refused |-> refused, held |-> held]

At(p, phase) == proc[p].phase = phase

Goto(p, phase) == proc' = [proc EXCEPT ![p].phase = phase]

Hold(p, phase, held) == proc' = [proc EXCEPT ![p].phase = phase, ![p].held = held]

Finish(p) == proc' = [proc EXCEPT ![p] = Idle]

---------------------------------------------------------------------------
(* Five ways the code asks whether a token still works. *)

Verifies(t) == Exists(t) /\ row[t].revoked = NotYet /\ ~(row[t].expires <= now)

IsLive_Inclusive(a, t) ==   \* mutant: a token lives through its last second
    Owned(a, t) /\ row[t].revoked = NotYet /\ row[t].expires >= now

IsLive(a, t) == Owned(a, t) /\ row[t].revoked = NotYet /\ row[t].expires > now

IsRevoked(a, t) == ~(Owned(a, t) /\ row[t].revoked = NotYet)

LiveTokens(a) ==   \* requireRoomForAnother(), and the loop of handleCreate()
    {t \in TokensOf(a) : row[t].revoked = NotYet /\ row[t].expires > now}

GridCounts(a, t) ==   \* live_tokens of customersOf()
    Owned(a, t) /\ row[t].revoked = NotYet /\ row[t].expires > now

TokenState(t) ==   \* the label of the token page
    CASE row[t].revoked # NotYet -> "Revoked"
      [] row[t].revoked = NotYet /\ row[t].expires <= now -> "Expired"
      [] OTHER -> "Active"

Inserting(a) == {p \in Procs : At(p, "insert") /\ proc[p].acct = a}

RoomFor_OneMore(op, a) ==   \* mutant
    (op = "issue" /\ Limit = 0) \/ Cardinality(LiveTokens(a)) <= Limit

(* token_max_per_account below one is no limit to the API, and leaves no   *)
(* room at all on the page.                                                *)
RoomFor(op, a) == (op = "issue" /\ Limit = 0) \/ Cardinality(LiveTokens(a)) < Limit

---------------------------------------------------------------------------
(* API access, and what a process remembers of it. *)

AccessOn(switch) == switch = "allowed" \/ (switch = "none" /\ DefaultAllowed)

On == {a \in Accounts : AccessOn(perm[a])}

(* api_perm for one account; every process sees an access that comes on.   *)
Switch(a, switch) ==
    /\ perm' = [perm EXCEPT ![a] = switch]
    /\ seen' = IF AccessOn(switch) THEN [p \in Procs |-> seen[p] \cup {a}] ELSE seen

HasAccess_OneAnswer(p, a) ==   \* mutant: the static array has no key
    IF \E b \in Accounts : cache[p][b] # "unknown"
    THEN \E b \in Accounts : cache[p][b] = "on"
    ELSE AccessOn(perm[a])

(* The first question about an account in a process is answered from       *)
(* api_perm, and every later one like the first.                           *)
HasAccess(p, a) ==
    IF cache[p][a] = "unknown" THEN AccessOn(perm[a]) ELSE cache[p][a] = "on"

---------------------------------------------------------------------------
(* Requests to the endpoint and to the token page. *)

Begin(p, work) ==
    /\ At(p, "idle") /\ work.op \in Operations
    /\ proc' = [proc EXCEPT ![p] = work]
    /\ UNCHANGED <<now, row, perm, account, cache, seen, swept>>

Unfit(a) == IF account[a] = "ok" THEN {} ELSE {"account"}

(* A bearer that a request presents. *)
Present(p, t) ==
    /\ Exists(t)
    /\ Begin(p, Work("bearer", "verify", row[t].owner,
                     Unfit(row[t].owner) \cup (IF Verifies(t) THEN {} ELSE {"token"}), {t}))

(* A session or a password, for an account. *)
Ask(p, op, a) ==
    /\ op \in {"session", "issue"}
    /\ Begin(p, Work(op, "account", a, Unfit(a), {}))

(* The token page; the customers' asks for API access, the resellers' not. *)
(* Its session outlives a change of the account's status.                  *)
OpenPage(p, a) ==
    /\ account[a] # "absent"
    /\ Begin(p, Work("page", IF a \in Customers THEN "access" ELSE "execute", a, {}, {}))

Verify_FallsThrough(p) ==   \* mutant: a refused bearer falls back to the session
    /\ At(p, "verify")
    /\ Goto(p, "account")
    /\ UNCHANGED <<now, row, perm, account, cache, seen, swept>>

(* TokenService::verify(); the allow-list may refuse a good token. *)
Verify(p) ==
    /\ At(p, "verify")
    /\ \/ /\ \A t \in proc[p].held : Verifies(t)
          /\ Hold(p, "account", {})
       \/ Finish(p)
    /\ UNCHANGED <<now, row, perm, account, cache, seen, swept>>

(* The account is read, and is "ok" by now or refused. *)
LoadAccount(p) ==
    /\ At(p, "account")
    /\ IF account[proc[p].acct] = "ok" THEN Goto(p, "access") ELSE Finish(p)
    /\ UNCHANGED <<now, row, perm, account, cache, seen, swept>>

CheckAccess(p) ==
    LET a == proc[p].acct
    IN  /\ At(p, "access")
        /\ cache' = [cache EXCEPT ![p][a] = IF HasAccess(p, a) THEN "on" ELSE "off"]
        /\ IF HasAccess(p, a) THEN Goto(p, "execute") ELSE Finish(p)
        /\ UNCHANGED <<now, row, perm, account, seen, swept>>

(* A request for anything but the tokens, or one that fails. *)
Serve(p) ==
    /\ At(p, "execute")
    /\ Finish(p)
    /\ UNCHANGED <<now, row, perm, account, cache, seen, swept>>

Stamped(t) == [row[t] EXCEPT !.revoked = now]

Revoke_Anybodys(p, t) ==   \* mutant: the UPDATE does not ask for the owner
    /\ At(p, "execute") /\ proc[p].op # "issue"
    /\ row' = IF Exists(t) /\ row[t].revoked = NotYet
              THEN [row EXCEPT ![t] = Stamped(t)] ELSE row
    /\ Finish(p)
    /\ UNCHANGED <<now, perm, account, cache, seen, swept>>

(* tokenRevoke, Executor::revokeToken() or the page, for any id asked for. *)
Revoke(p, t) ==
    /\ At(p, "execute") /\ proc[p].op # "issue"
    /\ row' = IF Owned(proc[p].acct, t) /\ row[t].revoked = NotYet
              THEN [row EXCEPT ![t] = Stamped(t)] ELSE row
    /\ Finish(p)
    /\ UNCHANGED <<now, perm, account, cache, seen, swept>>

(* The live tokens are counted, and the INSERT follows later. *)
CheckRoom(p) ==
    /\ At(p, "execute") /\ proc[p].op \in {"issue", "page"}
    /\ IF RoomFor(proc[p].op, proc[p].acct) THEN Goto(p, "insert") ELSE Finish(p)
    /\ UNCHANGED <<now, row, perm, account, cache, seen, swept>>

Insert_Uncapped(p, t, ttl) ==   \* mutant: the lifetime asked for is not capped
    /\ At(p, "insert")
    /\ row[t] = Unissued
    /\ row' = [row EXCEPT ![t] = [owner |-> proc[p].acct, revoked |-> NotYet,
                                  expires |-> now + ttl + MaxTtl]]
    /\ Finish(p)
    /\ UNCHANGED <<now, perm, account, cache, seen, swept>>

(* mint(): a lifetime is asked for and capped, and never left out. *)
Insert(p, t, ttl) ==
    /\ At(p, "insert")
    /\ row[t] = Unissued
    /\ row' = [row EXCEPT ![t] = [owner |-> proc[p].acct, revoked |-> NotYet,
                                  expires |-> now + ttl]]
    /\ Finish(p)
    /\ UNCHANGED <<now, perm, account, cache, seen, swept>>

---------------------------------------------------------------------------
(* Requests of whoever administers the account. *)

(* The reseller's page and the mutations find the account's row first.     *)
Administer(p, op, a) ==
    /\ account[a] # "absent"
    /\ \/ op \in {"grant", "withdraw"} /\ Begin(p, Work(op, "perm", a, {}, {}))
       \/ op = "revokeAll" /\ Begin(p, Work(op, "revokeAll", a, {}, {}))

SetApiAccess_NoSweep(p) ==   \* mutant: the tokens are left to expire
    /\ At(p, "perm")
    /\ Switch(proc[p].acct, IF proc[p].op = "grant" THEN "allowed" ELSE "denied")
    /\ Hold(p, "log", IF proc[p].op = "grant" THEN {} ELSE TokensOf(proc[p].acct))
    /\ UNCHANGED <<now, row, account, cache, swept>>

(* AccessService::setApiAccess() begins with the upsert. *)
SetApiAccess(p) ==
    /\ At(p, "perm")
    /\ \/ /\ proc[p].op = "grant"
          /\ Switch(proc[p].acct, "allowed")
          /\ Goto(p, "log")
       \/ /\ proc[p].op = "withdraw"
          /\ Switch(proc[p].acct, "denied")
          /\ Hold(p, "revokeAll", TokensOf(proc[p].acct))
    /\ UNCHANGED <<now, row, account, cache, swept>>

RevokeAllFor(p) ==
    /\ At(p, "revokeAll")
    /\ row' = [t \in Tokens |->
                  IF Owned(proc[p].acct, t) /\ row[t].revoked = NotYet
                  THEN Stamped(t) ELSE row[t]]
    /\ Goto(p, "log")
    /\ UNCHANGED <<now, perm, account, cache, seen, swept>>

(* The operation is logged and reported as done. *)
WriteLog(p) ==
    /\ At(p, "log")
    /\ swept' = swept \cup proc[p].held
    /\ Finish(p)
    /\ UNCHANGED <<now, row, perm, account, cache, seen>>

Dropped(a) == [t \in Tokens |-> IF Owned(a, t) THEN Deleted ELSE row[t]]

(* customerDelete asks for a settled account. *)
AskDeletion(p, a) ==
    /\ account[a] \in {"ok", "error"}
    /\ Begin(p, Work("delete", "delete", a, {}, {}))

(* deleteCustomer() of the panel, and its event to forgetAccount(), if the *)
(* row is still there.                                                     *)
DeleteCustomer(p) ==
    LET a == proc[p].acct
    IN  /\ At(p, "delete")
        /\ IF account[a] = "absent"
           THEN Finish(p) /\ UNCHANGED account
           ELSE Goto(p, "forgetTokens") /\ account' = [account EXCEPT ![a] = "todelete"]
        /\ UNCHANGED <<now, row, perm, cache, seen, swept>>

ForgetTokens(p) ==
    /\ At(p, "forgetTokens")
    /\ row' = Dropped(proc[p].acct)
    /\ Goto(p, "forgetPerm")
    /\ UNCHANGED <<now, perm, account, cache, seen, swept>>

ForgetPerm(p) ==
    /\ At(p, "forgetPerm")
    /\ Switch(proc[p].acct, "none")
    /\ Finish(p)
    /\ UNCHANGED <<now, row, account, cache, swept>>

(* PanelCore::deleteReseller() does all of it in one transaction. *)
DeleteReseller(p, a) ==
    /\ At(p, "idle") /\ "delete" \in Operations /\ account[a] # "absent"
    /\ account' = [account EXCEPT ![a] = "absent"]
    /\ row' = Dropped(a)
    /\ Switch(a, "none")
    /\ UNCHANGED <<now, proc, cache, swept>>

---------------------------------------------------------------------------

(* customerUpdate with a password, over whatever the account's row says.   *)
ChangePassword(a) ==
    /\ "password" \in Operations /\ account[a] # "absent"
    /\ account' = [account EXCEPT ![a] = "tochangepwd"]
    /\ UNCHANGED <<now, row, perm, proc, cache, seen, swept>>

(* An account that is "ok" again is so for every request under way.        *)
BackFor(a) ==
    [p \in Procs |-> IF proc[p] # Idle /\ proc[p].acct = a
                     THEN [proc[p] EXCEPT !.refused = @ \ {"account"}] ELSE proc[p]]

Settle(a) ==
    /\ \E o \in Outcomes :
          /\ account[a] = o[1]
          /\ account' = [account EXCEPT ![a] = o[2]]
          /\ proc' = IF o[2] = "ok" THEN BackFor(a) ELSE proc
    /\ UNCHANGED <<now, row, perm, cache, seen, swept>>

(* The request is over, or its process dies between two statements; the    *)
(* next one starts with nothing remembered.                                *)
Restart(p) ==
    /\ proc' = [proc EXCEPT ![p] = Idle]
    /\ cache' = [cache EXCEPT ![p] = [a \in Accounts |-> "unknown"]]
    /\ seen' = [seen EXCEPT ![p] = On]
    /\ UNCHANGED <<now, row, perm, account, swept>>

Tick ==
    /\ now < MaxTime
    /\ now' = now + 1
    /\ UNCHANGED <<row, perm, account, proc, cache, seen, swept>>

(* The API was in use before, and some accounts have a row in api_perm.    *)
Init ==
    /\ now = 0
    /\ row = [t \in Tokens |-> Unissued]
    /\ perm \in [Accounts -> {"none", "allowed", "denied"}]
    /\ account = [a \in Accounts |-> "ok"]
    /\ proc = [p \in Procs |-> Idle]
    /\ cache = [p \in Procs |-> [a \in Accounts |-> "unknown"]]
    /\ seen = [p \in Procs |-> On]
    /\ swept = {}

Request(p) ==
    \/ \E t \in Tokens : Present(p, t)
    \/ \E op \in AllOperations, a \in Accounts : Ask(p, op, a) \/ Administer(p, op, a)
    \/ \E a \in Accounts : OpenPage(p, a)
    \/ \E a \in Customers : AskDeletion(p, a)
    \/ \E a \in Resellers : DeleteReseller(p, a)

Step(p) ==
    \/ Verify(p)
    \/ LoadAccount(p)
    \/ CheckAccess(p)
    \/ Serve(p)
    \/ \E t \in Tokens : Revoke(p, t)
    \/ CheckRoom(p)
    \/ \E t \in Tokens, ttl \in 1..MaxTtl : Insert(p, t, ttl)
    \/ SetApiAccess(p)
    \/ RevokeAllFor(p)
    \/ WriteLog(p)
    \/ DeleteCustomer(p)
    \/ ForgetTokens(p)
    \/ ForgetPerm(p)

Next ==
    \/ \E p \in Procs : Request(p) \/ Step(p) \/ Restart(p)
    \/ \E a \in Customers : ChangePassword(a) \/ Settle(a)
    \/ Tick

Spec == Init /\ [][Next]_vars

---------------------------------------------------------------------------
(* Properties. *)

(* Every variable has its shape. *)
TypeOK ==
    /\ now \in 0..MaxTime
    /\ row \in [Tokens -> Rows \cup {Unissued, Deleted}]
    /\ perm \in [Accounts -> {"none", "allowed", "denied"}]
    /\ account \in [Accounts -> Statuses]
    /\ proc \in [Procs -> Works]
    /\ cache \in [Procs -> [Accounts -> {"unknown", "on", "off"}]]
    /\ seen \in [Procs -> SUBSET Accounts]
    /\ swept \subseteq Tokens

(* A bearer that was revoked or had expired when it was presented gets     *)
(* nothing done, and no request does anything for an account that has not  *)
(* been "ok" at some moment since it began: no field runs for it and no    *)
(* token is minted, whatever else a session, another process or the daemon *)
(* does meanwhile.                                                         *)
RefusedStaysRefused ==
    \A p \in Procs : proc[p].phase \in {"execute", "insert"} => proc[p].refused = {}

(* Whoever gets something done, the resellers on their page excepted, has  *)
(* had API access at some moment since the PHP process began: an answer    *)
(* the process remembers is never older than the process itself.           *)
ServedWithinAccess ==
    \A p \in Procs :
        (proc[p].phase \in {"execute", "insert"} /\ ~(proc[p].op = "page" /\ proc[p].acct \in Resellers))
            => proc[p].acct \in seen[p]

(* Once a withdrawal is reported as done, no token that existed when it    *)
(* switched the access off works again, even if access is granted again    *)
(* meanwhile, tokens are issued, or another withdrawal dies half way.      *)
WithdrawalSweeps == \A t \in swept : ~Verifies(t)

(* Issuing checks and inserts in two statements.  An account's live tokens *)
(* and those about to be inserted for it are at most as many more than its *)
(* limit as there are processes beside the one that takes the last place.  *)
OverrunBounded ==
    Limit > 0 => \A a \in Accounts :
        Cardinality(LiveTokens(a)) + Cardinality(Inserting(a)) <= Limit + Cardinality(Procs) - 1

(* The middleware, the executor, the quota, the reseller's grid and the    *)
(* token page agree which tokens work, and no working token is revoked.    *)
LivenessAgrees ==
    \A a \in Accounts : \A t \in TokensOf(a) :
        /\ Verifies(t) <=> IsLive(a, t)
        /\ IsLive(a, t) <=> t \in LiveTokens(a)
        /\ IsLive(a, t) <=> GridCounts(a, t)
        /\ IsLive(a, t) <=> TokenState(t) = "Active"
        /\ IsLive(a, t) => ~IsRevoked(a, t)

(* The moment a token was revoked never changes: revoking it again, alone  *)
(* or with all the others, keeps the first time.                           *)
RevokedOnce ==
    [][\A t \in Tokens :
        (Exists(t) /\ row[t].revoked # NotYet /\ Exists(t)')
            => row'[t].revoked = row[t].revoked]_vars

(* A token is revoked only by a request for the account that owns it.      *)
RevokedByRight ==
    [][\A t \in Tokens :
        (Exists(t) /\ Exists(t)' /\ row'[t].revoked # row[t].revoked)
            => \E p \in Procs : /\ proc'[p] # proc[p] /\ proc[p] # Idle
                               /\ proc[p].acct = row[t].owner]_vars
=============================================================================
