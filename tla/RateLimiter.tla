---------------------------- MODULE RateLimiter ----------------------------
(***************************************************************************)
(* RateLimiter::charge(): fixed-window counters in APCu where the panel    *)
(* has it, in the table api_rate where it does not or where APCu refuses   *)
(* to count.  An APCu charge is one atomic apcu_inc(); a database charge   *)
(* is an upsert, a SELECT of the row and, now and then, a prune, and other *)
(* requests come between the three.                                        *)
(*                                                                         *)
(* A bucket is charged with one window length only, which charge() checks  *)
(* within a request and the BUCKET_ constants keep across requests: Length *)
(* is a function of the bucket.  An unlimited bucket (a negative limit) is *)
(* not counted at all and has no place here.                               *)
(***************************************************************************)
EXTENDS Integers, FiniteSets

CONSTANTS
    Workers,        \* PHP processes, each charging one hit at a time
    Buckets,        \* 'queries', 'mutations', 'tokenIssueIp', 'tokenIssueUser'
    Keys,           \* 'token:7', 'ip:198.51.100.1', ...
    Classes,        \* who charges: an ordinary client, or one of trusted_clients
    Limit,          \* hits allowed in a window, per bucket and class
    Length,         \* a bucket's window in seconds
    UseApcu,        \* ApcuStore::available()
    MaxTime,        \* the last second of this instance
    MaxStall,       \* how long a PHP process takes over one charge at most
    MaxCharges,     \* hits charged in this instance
    MaxEvictions,   \* live counters APCu drops under memory pressure
    MaxRefusals     \* increments APCu refuses

PruneWindows == 2

(* The prune leaves two windows alone, and so relies on no charge taking   *)
(* longer than that.                                                       *)
ASSUME Configured ==
    /\ IsFiniteSet(Workers)
    /\ Limit \in [Buckets -> [Classes -> Nat]]
    /\ Length \in [Buckets -> Nat \ {0}]
    /\ UseApcu \in BOOLEAN
    /\ MaxTime \in Nat /\ MaxCharges \in Nat /\ MaxEvictions \in Nat /\ MaxRefusals \in Nat
    /\ MaxStall \in Nat
    /\ \A b \in Buckets : MaxStall <= PruneWindows * Length[b]

Seconds == 0..MaxTime
Slots   == Buckets \X Keys \X Seconds   \* a bucket, a key, the start of a window
Stores  == {"apcu", "api_rate"}

VARIABLES
    now,        \* the clock
    apcu,       \* the APCu counters: hits (0 is no entry) and the end of the entry's life
    apiRate,    \* api_rate.hits, 0 where there is no row
    req,        \* what each worker is doing
    charges,    \* hits charged so far
    evictions,  \* live counters APCu has dropped so far
    refusals,   \* increments APCu has refused so far
    admitted,   \* hits let through, by the store that counted them, window and class
    used,       \* hits let through, by store and window, whoever charged
    restarts    \* how often an APCu counter was lost and its window began again

vars ==
    <<now, apcu, apiRate, req, charges, evictions, refusals, admitted, used, restarts>>

---------------------------------------------------------------------------
(* $now - ($now % $windowSeconds) *)
WindowOf(b, t) == t - (t % Length[b])

Idle == [phase |-> "idle"]

Requests ==
    {Idle} \cup [phase : {"apcu", "upsert", "select", "prune"}, bucket : Buckets,
                key : Keys, class : Classes, at : Seconds, hits : Nat]

Slot(r) == <<req[r].bucket, req[r].key, WindowOf(req[r].bucket, req[r].at)>>

LimitOf(r) == Limit[req[r].bucket][req[r].class]

Active(r) == req[r] # Idle

(* The clock and the window are read once, at the beginning. *)
Charge(r, b, k, c) ==
    /\ ~Active(r)
    /\ charges < MaxCharges
    /\ charges' = charges + 1
    /\ req' = [req EXCEPT ![r] = [phase |-> IF UseApcu THEN "apcu" ELSE "upsert",
                                  bucket |-> b, key |-> k, class |-> c, at |-> now, hits |-> 0]]
    /\ UNCHANGED <<now, apcu, apiRate, evictions, refusals, admitted, used, restarts>>

(* At limit 3 the third hit passes and the fourth does not. *)
Allowed(r, hits) == hits <= LimitOf(r)

(* The hit is let through or refused, and the worker is free again. *)
Answer(r, hits, store) ==
    /\ req' = [req EXCEPT ![r] = Idle]
    /\ IF Allowed(r, hits)
       THEN /\ admitted' = [admitted EXCEPT ![store][Slot(r)][req[r].class] = @ + 1]
            /\ used' = [used EXCEPT ![store][Slot(r)] = @ + 1]
       ELSE UNCHANGED <<admitted, used>>

RetryAfter_Elapsed(b, t) == t - WindowOf(b, t)   \* mutant

(* The seconds a refused caller is told to wait. *)
RetryAfter(b, t) == (WindowOf(b, t) + Length[b]) - t

---------------------------------------------------------------------------
(* APCu. *)

(* apcu_inc(): creates an entry that lives for one window, or adds to it.  *)
ApcuIncrement(r) ==
    LET s == Slot(r)
    IN  /\ req[r].phase = "apcu"
        /\ apcu' = [apcu EXCEPT ![s] = [hits  |-> @.hits + 1,
                                        until |-> IF @.hits = 0 THEN now + Length[req[r].bucket]
                                                                ELSE @.until]]
        /\ Answer(r, apcu[s].hits + 1, "apcu")
        /\ UNCHANGED <<now, apiRate, charges, evictions, refusals, restarts>>

ApcuRefuses_NoHits(r) ==   \* mutant: no answer is taken for no hits
    /\ req[r].phase = "apcu"
    /\ refusals < MaxRefusals
    /\ refusals' = refusals + 1
    /\ Answer(r, 0, "apcu")
    /\ UNCHANGED <<now, apcu, apiRate, charges, evictions, restarts>>

(* APCu was usable and has just refused: the database counts this hit. *)
ApcuRefuses(r) ==
    /\ req[r].phase = "apcu"
    /\ refusals < MaxRefusals
    /\ refusals' = refusals + 1
    /\ req' = [req EXCEPT ![r].phase = "upsert"]
    /\ UNCHANGED <<now, apcu, apiRate, charges, evictions, admitted, used, restarts>>

Lose(s) ==
    /\ apcu[s].hits > 0
    /\ apcu' = [apcu EXCEPT ![s] = [hits |-> 0, until |-> 0]]
    /\ restarts' = [restarts EXCEPT ![s] = @ + 1]
    /\ UNCHANGED <<now, apiRate, req, charges, refusals, admitted, used>>

(* The entry's time is over. *)
ApcuExpire(s) == now >= apcu[s].until /\ Lose(s) /\ UNCHANGED evictions

(* APCu is a cache, and a cache may evict a live counter. *)
ApcuEvict(s) ==
    /\ evictions < MaxEvictions
    /\ evictions' = evictions + 1
    /\ Lose(s)

---------------------------------------------------------------------------
(* The table api_rate. *)

Upsert_Down(r) ==   \* mutant: the counter counts down
    /\ req[r].phase = "upsert"
    /\ apiRate' = [apiRate EXCEPT ![Slot(r)] = @ - 1]
    /\ req' = [req EXCEPT ![r].phase = "select"]
    /\ UNCHANGED <<now, apcu, charges, evictions, refusals, admitted, used, restarts>>

Upsert_Ignore(r) ==   \* mutant: INSERT IGNORE, an existing row keeps its hits
    /\ req[r].phase = "upsert"
    /\ apiRate' = [apiRate EXCEPT ![Slot(r)] = 1]
    /\ req' = [req EXCEPT ![r].phase = "select"]
    /\ UNCHANGED <<now, apcu, charges, evictions, refusals, admitted, used, restarts>>

(* INSERT ... ON DUPLICATE KEY UPDATE hits = hits + 1 *)
Upsert(r) ==
    /\ req[r].phase = "upsert"
    /\ apiRate' = [apiRate EXCEPT ![Slot(r)] = @ + 1]
    /\ req' = [req EXCEPT ![r].phase = "select"]
    /\ UNCHANGED <<now, apcu, charges, evictions, refusals, admitted, used, restarts>>

Select_Before(r) ==   \* mutant: the count as it was before this hit
    /\ req[r].phase = "select"
    /\ req' = [req EXCEPT ![r].phase = "prune", ![r].hits = apiRate[Slot(r)] - 1]
    /\ UNCHANGED <<now, apcu, apiRate, charges, evictions, refusals, admitted, used, restarts>>

(* A missing row counts as this request's first hit. *)
Select(r) ==
    /\ req[r].phase = "select"
    /\ req' = [req EXCEPT ![r].phase = "prune",
                          ![r].hits = IF apiRate[Slot(r)] = 0 THEN 1 ELSE apiRate[Slot(r)]]
    /\ UNCHANGED <<now, apcu, apiRate, charges, evictions, refusals, admitted, used, restarts>>

(* This bucket's rows two windows behind the current one. *)
Dead(r, s) ==
    /\ s[1] = req[r].bucket
    /\ s[3] + PruneWindows * Length[s[1]] < WindowOf(s[1], req[r].at)

(* One charge in a hundred prunes. *)
Prune(r) ==
    /\ req[r].phase = "prune"
    /\ apiRate' \in {apiRate, [s \in Slots |-> IF Dead(r, s) THEN 0 ELSE apiRate[s]]}
    /\ Answer(r, req[r].hits, "api_rate")
    /\ UNCHANGED <<now, apcu, charges, evictions, refusals, restarts>>

---------------------------------------------------------------------------

Tick ==
    /\ now < MaxTime
    /\ \A r \in Workers : Active(r) => now < req[r].at + MaxStall
    /\ now' = now + 1
    /\ UNCHANGED <<apcu, apiRate, req, charges, evictions, refusals, admitted, used, restarts>>

Init ==
    /\ now = 0
    /\ apcu = [s \in Slots |-> [hits |-> 0, until |-> 0]]
    /\ apiRate = [s \in Slots |-> 0]
    /\ req = [r \in Workers |-> Idle]
    /\ charges = 0 /\ evictions = 0 /\ refusals = 0
    /\ admitted = [store \in Stores |-> [s \in Slots |-> [c \in Classes |-> 0]]]
    /\ used = [store \in Stores |-> [s \in Slots |-> 0]]
    /\ restarts = [s \in Slots |-> 0]

Step(r) ==
    \/ \E b \in Buckets, k \in Keys, c \in Classes : Charge(r, b, k, c)
    \/ ApcuIncrement(r)
    \/ ApcuRefuses(r)
    \/ Upsert(r)
    \/ Select(r)
    \/ Prune(r)

Next ==
    \/ \E r \in Workers : Step(r)
    \/ \E s \in Slots : ApcuExpire(s) \/ ApcuEvict(s)
    \/ Tick

Spec == Init /\ [][Next]_vars

---------------------------------------------------------------------------
(* Properties. *)

(* Every variable has its shape. *)
TypeOK ==
    /\ now \in Seconds
    /\ apcu \in [Slots -> [hits : Nat, until : Nat]]
    /\ apiRate \in [Slots -> Nat]
    /\ req \in [Workers -> Requests]
    /\ charges \in Nat /\ evictions \in Nat /\ refusals \in Nat
    /\ admitted \in [Stores -> [Slots -> [Classes -> Nat]]]
    /\ used \in [Stores -> [Slots -> Nat]]
    /\ restarts \in [Slots -> Nat]

(* APCu lets a caller through once more over for every time it has lost    *)
(* the counter of the window, and never more than that.  When it refuses   *)
(* some increments two counters run side by side, and a caller gets the    *)
(* allowance of the window at most once more than APCu alone would give.   *)
AllowanceBounded ==
    \A s \in Slots, c \in Classes :
        /\ admitted["apcu"][s][c] <= Limit[s[1]][c] * (1 + restarts[s])
        /\ admitted["apcu"][s][c] + admitted["api_rate"][s][c] <= Limit[s[1]][c] * (2 + restarts[s])

(* A refused caller that waits as long as it is told is charged to another *)
(* window, and is never told to wait for less than a second or for longer  *)
(* than the window.                                                        *)
RetrySuffices ==
    \A r \in Workers : Active(r) =>
        LET b    == req[r].bucket
            wait == RetryAfter(b, req[r].at)
        IN  wait \in 1..Length[b] /\ WindowOf(b, req[r].at + wait) # WindowOf(b, req[r].at)

(* Counted in the database, the limiter keeps the promise of FixedWindow,  *)
(* though the upsert and the SELECT are two statements, rows are pruned    *)
(* and ordinary and trusted callers charge one counter: together they are  *)
(* let through no more often than the more generous limit says.            *)
SlotLimit(s, c) == Limit[s[1]][c]

Promise ==
    INSTANCE FixedWindow WITH
        Windows   <- Slots,
        Allowance <- SlotLimit,
        admitted  <- admitted["api_rate"],
        used      <- used["api_rate"]

KeepsPromise == Promise!Spec

=============================================================================
