------------------------- MODULE RateLimiterProofs -------------------------
(* Theorems about RateLimiter, checked by TLAPS. *)
EXTENDS RateLimiter, FiniteSetTheorems, TLAPS

(* The clock stands in a window so late that a prune may take the rows of s. *)
Over(s) == s[3] + PruneWindows * Length[s[1]] < WindowOf(s[1], now)

(* A charge is answered before its window is over. *)
Timely ==
    \A r \in Workers : Active(r) => req[r].at <= now /\ now <= req[r].at + MaxStall

(* The charges by callers of the classes in C that have counted in the row *)
(* of s, and those of them that have read a number up to m.                *)
Counted(s, C) ==
    {r \in Workers : /\ req[r].phase \in {"select", "prune"}
                     /\ Slot(r) = s /\ req[r].class \in C}
Due(s, C, m) == {r \in Counted(s, C) : req[r].phase = "prune" /\ req[r].hits <= m}

(* A row counts whoever was let through and whoever has counted and is not *)
(* yet answered.                                                           *)
RowCovers(s) ==
    /\ used["api_rate"][s] + Cardinality(Counted(s, Classes)) <= apiRate[s]
    /\ \A c \in Classes :
          admitted["api_rate"][s][c] + Cardinality(Counted(s, {c})) <= apiRate[s]

(* Those let through, and those that will be because of what they have     *)
(* read, are no more than the limit.                                       *)
Promised(s) ==
    /\ \A m \in Nat : (\A c \in Classes : Limit[s[1]][c] <= m)
          => used["api_rate"][s] + Cardinality(Due(s, Classes, m)) <= m
    /\ \A c \in Classes :
          LET m == Limit[s[1]][c]
          IN  admitted["api_rate"][s][c] + Cardinality(Due(s, {c}, m)) <= m

(* A counter of APCu has let through at most what it counts.               *)
ApcuBounded(s) ==
    \A c \in Classes :
        LET before == Limit[s[1]][c] * restarts[s]
        IN  /\ admitted["apcu"][s][c] <= before + apcu[s].hits
            /\ admitted["apcu"][s][c] <= before + Limit[s[1]][c]

IInv ==
    /\ TypeOK /\ Timely
    /\ \A s \in Slots : (~Over(s) => RowCovers(s)) /\ Promised(s) /\ ApcuBounded(s)

---------------------------------------------------------------------------
(* Windows. *)

(* A window begins at a multiple of its length, at most a window before    *)
(* any second of it.                                                       *)
LEMMA WindowStart ==
    ASSUME NEW b \in Buckets, NEW t \in Nat
    PROVE  /\ t \div Length[b] \in Nat
           /\ WindowOf(b, t) = Length[b] * (t \div Length[b])
           /\ WindowOf(b, t) \in Nat
           /\ WindowOf(b, t) <= t
           /\ t < WindowOf(b, t) + Length[b]
<1>1. PICK L \in Nat \ {0} : L = Length[b]
  BY Configured
<1>2. t \div L \in Nat /\ t = L * (t \div L) + (t % L) /\ t % L \in 0..(L - 1)
  OBVIOUS
<1>3. WindowOf(b, t) = t - (t % L)
  BY <1>1 DEF WindowOf
<1>4. L * (t \div L) = t - (t % L)
  BY <1>2
<1>5. t % L \in Nat /\ t % L < L /\ t % L <= t
  OBVIOUS
<1>6. WindowOf(b, t) \in Nat /\ WindowOf(b, t) <= t /\ t < WindowOf(b, t) + L
  BY <1>3, <1>5
<1> QED BY <1>1, <1>2, <1>3, <1>4, <1>6

(* There is one multiple of a number in any stretch of that length.        *)
LEMMA OneMultiple ==
    ASSUME NEW L \in Nat \ {0}, NEW p \in Int, NEW q \in Int, p < q
    PROVE  L * p + L <= L * q
OBVIOUS

LEMMA PruneAge == \A b \in Buckets : PruneWindows * Length[b] \in Nat
<1> SUFFICES ASSUME NEW b \in Buckets
             PROVE  PruneWindows * Length[b] \in Nat
  OBVIOUS
<1>1. Length[b] \in Nat
  BY Configured
<1> QED BY <1>1 DEF PruneWindows

(* Later seconds are in later windows. *)
LEMMA WindowsFollow ==
    ASSUME NEW b \in Buckets, NEW t \in Nat, NEW u \in Nat, t <= u
    PROVE  WindowOf(b, t) <= WindowOf(b, u)
<1>1. PICK L \in Nat \ {0} : L = Length[b]
  BY Configured
<1>2. t - (t % L) <= u - (u % L)
  OBVIOUS
<1> QED BY <1>1, <1>2 DEF WindowOf

(* A stall of two windows leads into the window after next at most.        *)
LEMMA StallEnds ==
    ASSUME NEW b \in Buckets, NEW t \in Nat, NEW u \in Nat, u <= t + MaxStall
    PROVE  WindowOf(b, u) <= WindowOf(b, t) + PruneWindows * Length[b]
<1>1. PICK L \in Nat \ {0} : L = Length[b]
  BY Configured
<1> DEFINE p == t \div L
           q == u \div L
<1>2. p \in Nat /\ q \in Nat /\ WindowOf(b, t) = L * p /\ WindowOf(b, u) = L * q
  BY <1>1, WindowStart
<1>3. MaxStall \in Nat /\ MaxStall <= 2 * L
  BY <1>1, Configured DEF PruneWindows
<1>4. L * q < L * p + L + 2 * L
  BY <1>1, <1>2, <1>3, WindowStart
<1>5. ASSUME p + 2 < q
      PROVE  FALSE
  <2>1. L * (p + 2) + L <= L * q
    BY <1>2, <1>5, OneMultiple
  <2>2. L * (p + 2) = L * p + 2 * L
    BY <1>2
  <2> QED BY <1>2, <1>4, <2>1, <2>2
<1>6. q <= p + 2
  BY <1>2, <1>5
<1>7. L * q <= L * (p + 2)
  BY <1>2, <1>6
<1>8. L * (p + 2) = L * p + 2 * L
  BY <1>2
<1> QED BY <1>1, <1>2, <1>7, <1>8 DEF PruneWindows

(* The second after a window is in another one, and begins it. *)
LEMMA NextWindow ==
    ASSUME NEW b \in Buckets, NEW t \in Nat
    PROVE  /\ RetryAfter(b, t) \in 1..Length[b]
           /\ WindowOf(b, t + RetryAfter(b, t)) # WindowOf(b, t)
<1>1. PICK L \in Nat \ {0} : L = Length[b]
  BY Configured
<1> DEFINE u == t + RetryAfter(b, t)
<1>2. /\ RetryAfter(b, t) \in 1..L
      /\ u = WindowOf(b, t) + L /\ u \in Nat
  <2>1. PICK w \in Nat : w = WindowOf(b, t) /\ w <= t /\ t < w + L
    BY <1>1, WindowStart
  <2>2. RetryAfter(b, t) = (w + L) - t
    BY <1>1, <2>1 DEF RetryAfter
  <2> QED BY <2>1, <2>2
<1>3. u < WindowOf(b, u) + L
  BY <1>1, <1>2, WindowStart
<1> QED BY <1>1, <1>2, <1>3, WindowStart

(* A refused caller that waits as long as it is told is charged to another *)
(* window (the retryAfter of charge()).                                    *)
LEMMA RetryEnough == TypeOK => RetrySuffices
<1> SUFFICES ASSUME TypeOK, NEW r \in Workers, Active(r)
             PROVE  LET b    == req[r].bucket
                        wait == RetryAfter(b, req[r].at)
                    IN  /\ wait \in 1..Length[b]
                        /\ WindowOf(b, req[r].at + wait) # WindowOf(b, req[r].at)
  BY DEF RetrySuffices
<1>1. req[r].bucket \in Buckets /\ req[r].at \in Nat
  BY DEF TypeOK, Active, Requests, Seconds
<1> QED BY <1>1, NextWindow

---------------------------------------------------------------------------
(* Types. *)

(* What is known of a worker that is charging. *)
LEMMA BusyTypes ==
    ASSUME TypeOK, NEW r \in Workers, req[r].phase # "idle"
    PROVE  /\ req[r] \in [phase : {"apcu", "upsert", "select", "prune"}, bucket : Buckets,
                           key : Keys, class : Classes, at : Seconds, hits : Nat]
           /\ Active(r)
           /\ req[r].bucket \in Buckets /\ req[r].class \in Classes
           /\ req[r].at \in Nat /\ req[r].hits \in Nat
BY DEF TypeOK, Requests, Active, Idle, Seconds

LEMMA ActiveIsBusy ==
    ASSUME TypeOK, NEW r \in Workers
    PROVE  Active(r) <=> req[r].phase # "idle"
<1>1. ~Active(r) => req[r].phase = "idle"
  BY DEF Active, Idle
<1>2. Active(r) => req[r].phase \in {"apcu", "upsert", "select", "prune"}
  BY DEF TypeOK, Requests, Active
<1> QED BY <1>1, <1>2

(* A charge has a row, and it knows its limit. *)
LEMMA SlotType ==
    ASSUME TypeOK, NEW r \in Workers, req[r].phase # "idle"
    PROVE  /\ Slot(r) \in Slots
           /\ Slot(r)[1] = req[r].bucket
           /\ Slot(r)[3] = WindowOf(req[r].bucket, req[r].at)
           /\ LimitOf(r) \in Nat
           /\ LimitOf(r) = Limit[Slot(r)[1]][req[r].class]
<1>1. /\ req[r].bucket \in Buckets /\ req[r].key \in Keys
      /\ req[r].class \in Classes /\ req[r].at \in Seconds /\ req[r].at \in Nat
  BY BusyTypes DEF Seconds
<1>2. PICK w \in Nat : w = WindowOf(req[r].bucket, req[r].at) /\ w <= req[r].at
  BY <1>1, WindowStart
<1>3. w \in Seconds
  BY <1>1, <1>2, Configured DEF Seconds
<1>4. Slot(r) = <<req[r].bucket, req[r].key, w>>
  BY <1>2 DEF Slot
<1>5. Limit[req[r].bucket][req[r].class] \in Nat
  BY <1>1, Configured
<1> QED BY <1>1, <1>2, <1>3, <1>4, <1>5 DEF Slots, LimitOf

LEMMA AnswerType ==
    ASSUME TypeOK, NEW r \in Workers, req[r].phase # "idle",
           NEW hits, NEW store \in Stores, Answer(r, hits, store)
    PROVE  /\ req' \in [Workers -> Requests]
           /\ admitted' \in [Stores -> [Slots -> [Classes -> Nat]]]
           /\ used' \in [Stores -> [Slots -> Nat]]
<1>1. Slot(r) \in Slots /\ req[r].class \in Classes
  BY SlotType, BusyTypes
<1>2. req' \in [Workers -> Requests]
  BY DEF Answer, TypeOK, Requests
<1>3. CASE Allowed(r, hits)
  <2>1. /\ admitted' = [admitted EXCEPT ![store][Slot(r)][req[r].class] = @ + 1]
        /\ used' = [used EXCEPT ![store][Slot(r)] = @ + 1]
    BY <1>3 DEF Answer
  <2> HIDE DEF Answer
  <2>2. /\ admitted \in [Stores -> [Slots -> [Classes -> Nat]]]
        /\ used \in [Stores -> [Slots -> Nat]]
    BY DEF TypeOK
  <2> QED BY <1>1, <1>2, <2>1, <2>2
<1>4. CASE ~Allowed(r, hits)
  BY <1>2, <1>4 DEF Answer, TypeOK
<1> QED BY <1>3, <1>4

LEMMA TypeInit == Init => TypeOK
BY Configured DEF Init, TypeOK, Seconds, Requests

LEMMA TypeStep == ASSUME TypeOK, [Next]_vars PROVE TypeOK'
<1>1. CASE UNCHANGED vars
  BY <1>1 DEF vars, TypeOK
<1>2. ASSUME NEW r \in Workers, NEW b \in Buckets, NEW k \in Keys, NEW c \in Classes,
             Charge(r, b, k, c)
      PROVE  TypeOK'
  BY <1>2 DEF Charge, TypeOK, Requests
<1>3. ASSUME NEW r \in Workers, ApcuIncrement(r)
      PROVE  TypeOK'
  <2>1. req[r].phase # "idle" /\ Answer(r, apcu[Slot(r)].hits + 1, "apcu")
    BY <1>3 DEF ApcuIncrement
  <2>2. Slot(r) \in Slots /\ Length[req[r].bucket] \in Nat
    BY <2>1, SlotType, BusyTypes, Configured
  <2>3. apcu' \in [Slots -> [hits : Nat, until : Nat]]
    BY <1>3, <2>2 DEF ApcuIncrement, TypeOK, Seconds
  <2> QED BY <1>3, <2>1, <2>3, AnswerType DEF ApcuIncrement, TypeOK, Stores
<1>4. ASSUME NEW r \in Workers, ApcuRefuses(r)
      PROVE  TypeOK'
  <2>1. [req[r] EXCEPT !.phase = "upsert"] \in Requests
    BY <1>4, BusyTypes DEF ApcuRefuses, Requests
  <2> QED BY <1>4, <2>1 DEF ApcuRefuses, TypeOK
<1>5. ASSUME NEW r \in Workers, Upsert(r)
      PROVE  TypeOK'
  <2>1. [req[r] EXCEPT !.phase = "select"] \in Requests /\ Slot(r) \in Slots
    BY <1>5, BusyTypes, SlotType DEF Upsert, Requests
  <2> QED BY <1>5, <2>1 DEF Upsert, TypeOK
<1>6. ASSUME NEW r \in Workers, Select(r)
      PROVE  TypeOK'
  <2>1. PICK n \in Nat : n = IF apiRate[Slot(r)] = 0 THEN 1 ELSE apiRate[Slot(r)]
    BY <1>6, SlotType DEF Select, TypeOK
  <2>2. [req[r] EXCEPT !.phase = "prune", !.hits = n] \in Requests
    BY <1>6, BusyTypes DEF Select, Requests
  <2>3. req' = [req EXCEPT ![r] = [@ EXCEPT !.phase = "prune", !.hits = n]]
    BY <1>6, <2>1 DEF Select, TypeOK
  <2> QED BY <1>6, <2>2, <2>3 DEF Select, TypeOK
<1>7. ASSUME NEW r \in Workers, Prune(r)
      PROVE  TypeOK'
  <2>1. req[r].phase # "idle" /\ Answer(r, req[r].hits, "api_rate")
    BY <1>7 DEF Prune
  <2>2. apiRate' \in [Slots -> Nat]
    BY <1>7 DEF Prune, TypeOK
  <2> QED BY <1>7, <2>1, <2>2, AnswerType DEF Prune, TypeOK, Stores
<1>8. ASSUME NEW s \in Slots, ApcuExpire(s) \/ ApcuEvict(s)
      PROVE  TypeOK'
  <2>1. evictions' \in Nat /\ Lose(s)
    BY <1>8 DEF ApcuExpire, ApcuEvict, TypeOK
  <2>2. apcu' \in [Slots -> [hits : Nat, until : Nat]] /\ restarts' \in [Slots -> Nat]
    BY <2>1 DEF Lose, TypeOK
  <2> QED BY <2>1, <2>2 DEF Lose, TypeOK
<1>9. CASE Tick
  BY <1>9, Configured DEF Tick, TypeOK, Seconds
<1> QED BY <1>1, <1>2, <1>3, <1>4, <1>5, <1>6, <1>7, <1>8, <1>9 DEF Next, Step

(* Every variable has its shape: the counters of charge() never go below   *)
(* zero, and a window is a second of the clock.                            *)
THEOREM TypeCorrect == Spec => []TypeOK
BY TypeInit, TypeStep, PTL DEF Spec

---------------------------------------------------------------------------
(* Who is charging where. *)

(* Two sets of workers that differ in one worker at most.                  *)
LEMMA OneApart ==
    ASSUME NEW A \in SUBSET Workers, NEW B \in SUBSET Workers, NEW r,
           A \ {r} = B \ {r}
    PROVE  /\ Cardinality(A) \in Nat /\ Cardinality(B) \in Nat
           /\ Cardinality(A) <= Cardinality(B) + 1
           /\ (r \in A => r \in B) => Cardinality(A) <= Cardinality(B)
           /\ r \in B /\ r \notin A => Cardinality(A) + 1 = Cardinality(B)
<1>1. IsFiniteSet(A) /\ IsFiniteSet(B)
  BY Configured, FS_Subset
<1> DEFINE a == Cardinality(A)
           b == Cardinality(B)
           d == Cardinality(A \ {r})
<1>2. a \in Nat /\ b \in Nat
  BY <1>1, FS_CardinalityType
<1>3. d = IF r \in A THEN a - 1 ELSE a
  BY <1>1, FS_RemoveElement
<1>4. d = IF r \in B THEN b - 1 ELSE b
  BY <1>1, FS_RemoveElement
<1> HIDE DEF a, b, d
<1>5. /\ a <= b + 1
      /\ (r \in A => r \in B) => a <= b
      /\ r \in B /\ r \notin A => a + 1 = b
  BY <1>2, <1>3, <1>4
<1> QED BY <1>2, <1>5 DEF a, b

(* A step of one worker leaves the others where they are. *)
LEMMA OthersStay ==
    ASSUME NEW r \in Workers, \A q \in Workers \ {r} : req'[q] = req[q],
           NEW s, NEW C
    PROVE  /\ Counted(s, C) \in SUBSET Workers /\ Counted(s, C)' \in SUBSET Workers
           /\ Counted(s, C)' \ {r} = Counted(s, C) \ {r}
           /\ \A m : /\ Due(s, C, m) \in SUBSET Workers /\ Due(s, C, m)' \in SUBSET Workers
                     /\ Due(s, C, m)' \ {r} = Due(s, C, m) \ {r}
BY DEF Counted, Due, Slot

(* Nobody charges in the window s once it is over. *)
LEMMA NobodyLate ==
    ASSUME TypeOK, Timely, NEW r \in Workers, req[r].phase # "idle"
    PROVE  ~Over(Slot(r))
<1>1. req[r].bucket \in Buckets /\ req[r].at \in Nat /\ now \in Nat /\ now <= req[r].at + MaxStall
  BY BusyTypes DEF Timely, TypeOK, Seconds
<1>2. PICK b \in Buckets, t \in Nat : b = req[r].bucket /\ t = req[r].at
  BY <1>1
<1>3. WindowOf(b, now) <= WindowOf(b, t) + PruneWindows * Length[b]
  BY <1>1, <1>2, StallEnds
<1>4. WindowOf(b, now) \in Nat /\ WindowOf(b, t) \in Nat /\ PruneWindows * Length[b] \in Nat
  BY <1>1, <1>2, WindowStart, PruneAge
<1>5. Slot(r)[1] = b /\ Slot(r)[3] = WindowOf(b, t)
  BY <1>2, SlotType
<1> QED BY <1>3, <1>4, <1>5 DEF Over

(* A prune takes the rows of windows that are over. *)
LEMMA DeadIsOver ==
    ASSUME TypeOK, Timely, NEW r \in Workers, req[r].phase # "idle", NEW s \in Slots, Dead(r, s)
    PROVE  Over(s)
<1>1. req[r].at \in Nat /\ now \in Nat /\ req[r].at <= now
  BY BusyTypes DEF Timely, TypeOK, Seconds
<1>2. PICK b \in Buckets : b = s[1] /\ b = req[r].bucket
  BY DEF Slots, Dead
<1>3. WindowOf(b, req[r].at) <= WindowOf(b, now)
  BY <1>1, WindowsFollow
<1>4. WindowOf(b, now) \in Nat /\ WindowOf(b, req[r].at) \in Nat
      /\ PruneWindows * Length[b] \in Nat /\ s[3] \in Nat
  BY <1>1, WindowStart, PruneAge DEF Slots, Seconds
<1>5. s[3] + PruneWindows * Length[b] < WindowOf(b, req[r].at)
  BY <1>2 DEF Dead
<1>6. s[3] + PruneWindows * Length[b] < WindowOf(b, now)
  BY <1>3, <1>4, <1>5
<1> QED BY <1>2, <1>6 DEF Over

LEMMA TimelyStep == ASSUME TypeOK, Timely, [Next]_vars PROVE Timely'
<1> SUFFICES ASSUME NEW q \in Workers, Active(q)'
             PROVE  (req[q].at <= now /\ now <= req[q].at + MaxStall)'
  BY DEF Timely
<1>1. CASE Tick
  <2>1. req' = req /\ now' = now + 1 /\ now \in Nat /\ MaxStall \in Nat
    BY <1>1, Configured DEF Tick, TypeOK, Seconds
  <2>2. Active(q) /\ req[q].at \in Nat
    BY <2>1, ActiveIsBusy, BusyTypes DEF Active
  <2>3. now < req[q].at + MaxStall /\ req[q].at <= now
    BY <1>1, <2>2 DEF Tick, Timely
  <2> QED BY <2>1, <2>2, <2>3
<1>2. ASSUME now' = now, req'[q] = req[q]
      PROVE  (req[q].at <= now /\ now <= req[q].at + MaxStall)'
  BY <1>2 DEF Timely, Active
<1>3. ASSUME now' = now, Active(q), req'[q].at = req[q].at
      PROVE  (req[q].at <= now /\ now <= req[q].at + MaxStall)'
  BY <1>3 DEF Timely
<1>4. CASE UNCHANGED vars
  BY <1>2, <1>4 DEF vars
<1>5. ASSUME NEW r \in Workers, NEW b \in Buckets, NEW k \in Keys, NEW c \in Classes,
             Charge(r, b, k, c)
      PROVE  (req[q].at <= now /\ now <= req[q].at + MaxStall)'
  <2>1. now' = now /\ now \in Nat /\ MaxStall \in Nat
    BY <1>5, Configured DEF Charge, TypeOK, Seconds
  <2>2. CASE q = r
    <3>1. req'[q].at = now
      BY <1>5, <2>2 DEF Charge, TypeOK
    <3> QED BY <2>1, <3>1
  <2>3. CASE q # r
    BY <1>2, <1>5, <2>1, <2>3 DEF Charge, TypeOK
  <2> QED BY <2>2, <2>3
<1>6. ASSUME NEW r \in Workers,
             ApcuIncrement(r) \/ ApcuRefuses(r) \/ Upsert(r) \/ Select(r) \/ Prune(r)
      PROVE  (req[q].at <= now /\ now <= req[q].at + MaxStall)'
  <2>1. now' = now /\ req[r].phase # "idle"
    BY <1>6 DEF ApcuIncrement, ApcuRefuses, Upsert, Select, Prune
  <2>2. CASE q # r
    <3>1. req'[q] = req[q]
      BY <1>6, <2>2 DEF ApcuIncrement, ApcuRefuses, Upsert, Select, Prune, Answer, TypeOK
    <3> QED BY <1>2, <2>1, <3>1
  <2>3. CASE q = r
    <3>1. CASE ApcuIncrement(r) \/ Prune(r)
      <4>1. req'[q] = Idle
        BY <2>3, <3>1 DEF ApcuIncrement, Prune, Answer, TypeOK
      <4> QED BY <4>1 DEF Active
    <3>2. CASE ApcuRefuses(r) \/ Upsert(r) \/ Select(r)
      <4>1. req'[q].at = req[q].at
        <5>1. req[r] \in [phase : {"apcu", "upsert", "select", "prune"}, bucket : Buckets,
                          key : Keys, class : Classes, at : Seconds, hits : Nat]
          BY <2>1, BusyTypes
        <5> QED BY <2>3, <3>2, <5>1 DEF ApcuRefuses, Upsert, Select, TypeOK
      <4> QED BY <1>3, <2>1, <2>3, <4>1, ActiveIsBusy
    <3> QED BY <1>6, <3>1, <3>2
  <2> QED BY <2>2, <2>3
<1>7. ASSUME NEW s \in Slots, ApcuExpire(s) \/ ApcuEvict(s)
      PROVE  (req[q].at <= now /\ now <= req[q].at + MaxStall)'
  BY <1>2, <1>7 DEF ApcuExpire, ApcuEvict, Lose
<1> QED BY <1>1, <1>4, <1>5, <1>6, <1>7 DEF Next, Step

---------------------------------------------------------------------------
(* The counters of the database. *)

Tallied(s) == (~Over(s) => RowCovers(s)) /\ Promised(s)

(* What does not count, read or answer in the database keeps its counters. *)
LEMMA QuietKeeps ==
    ASSUME NEW s, Tallied(s),
           WindowOf(s[1], now') = WindowOf(s[1], now) \/ (Over(s) => Over(s)'),
           apiRate' = apiRate,
           used'["api_rate"] = used["api_rate"], admitted'["api_rate"] = admitted["api_rate"],
           \A C : Counted(s, C)' = Counted(s, C),
           \A C, m : Due(s, C, m)' = Due(s, C, m)
    PROVE  Tallied(s)'
<1>1. Over(s) => Over(s)'
  BY DEF Over, WindowOf
<1>2. RowCovers(s) => RowCovers(s)'
  BY DEF RowCovers
<1>3. Promised(s)'
  BY DEF Promised, Tallied
<1> QED BY <1>1, <1>2, <1>3 DEF Tallied

(* A worker that was not counting and does not yet. *)
LEMMA StillUncounted ==
    ASSUME NEW r \in Workers, \A q \in Workers \ {r} : req'[q] = req[q],
           req[r].phase \notin {"select", "prune"}, req'[r].phase \notin {"select", "prune"}
    PROVE  \A s, C : /\ Counted(s, C)' = Counted(s, C)
                     /\ \A m : Due(s, C, m)' = Due(s, C, m)
<1> SUFFICES ASSUME NEW s, NEW C
             PROVE  /\ Counted(s, C)' = Counted(s, C)
                    /\ \A m : Due(s, C, m)' = Due(s, C, m)
  OBVIOUS
<1>1. r \notin Counted(s, C) /\ r \notin Counted(s, C)'
  BY DEF Counted
<1>2. Counted(s, C)' = Counted(s, C)
  <2>1. Counted(s, C)' \ {r} = Counted(s, C) \ {r}
    BY OthersStay
  <2> QED BY <1>1, <2>1
<1>3. \A m : r \notin Due(s, C, m) /\ r \notin Due(s, C, m)'
  BY <1>1 DEF Due
<1>4. \A m : Due(s, C, m)' = Due(s, C, m)
  <2>1. \A m : Due(s, C, m)' \ {r} = Due(s, C, m) \ {r}
    BY OthersStay
  <2> QED BY <1>3, <2>1
<1> QED BY <1>2, <1>4

(* A request that goes on with the same charge keeps its window. *)
LEMMA SameSlot ==
    ASSUME NEW r \in Workers, req'[r].bucket = req[r].bucket, req'[r].key = req[r].key,
           req'[r].at = req[r].at
    PROVE  Slot(r)' = Slot(r)
BY DEF Slot, WindowOf

(* The upsert adds the worker to the counted ones and one hit to the row.  *)
LEMMA UpsertKeeps ==
    ASSUME TypeOK, NEW r \in Workers, Upsert(r), NEW s \in Slots, Tallied(s)
    PROVE  Tallied(s)'
<1>1. /\ req[r].phase = "upsert" /\ now' = now /\ used' = used /\ admitted' = admitted
      /\ \A q \in Workers \ {r} : req'[q] = req[q]
  BY DEF Upsert, TypeOK
<1>2. /\ req'[r].phase = "select" /\ req'[r].class = req[r].class
      /\ req'[r].bucket = req[r].bucket /\ req'[r].key = req[r].key /\ req'[r].at = req[r].at
  <2>1. req[r] \in [phase : {"apcu", "upsert", "select", "prune"}, bucket : Buckets,
                    key : Keys, class : Classes, at : Seconds, hits : Nat]
    BY <1>1, BusyTypes
  <2> QED BY <2>1 DEF Upsert, TypeOK
<1>3. Slot(r)' = Slot(r) /\ Slot(r) \in Slots
  BY <1>1, <1>2, SameSlot, SlotType
<1>4. \A C, m : /\ r \notin Counted(s, C) /\ r \notin Due(s, C, m) /\ r \notin Due(s, C, m)'
                /\ r \in Counted(s, C)' => s = Slot(r) /\ req[r].class \in C
  BY <1>1, <1>2, <1>3 DEF Counted, Due
<1>5. \A C, m : Due(s, C, m)' = Due(s, C, m)
  BY <1>1, <1>4, OthersStay
<1>6. /\ apiRate[s] \in Nat
      /\ apiRate'[s] = IF s = Slot(r) THEN apiRate[s] + 1 ELSE apiRate[s]
  BY <1>3 DEF Upsert, TypeOK
<1>7. \A C : /\ Cardinality(Counted(s, C)) \in Nat /\ Cardinality(Counted(s, C)') \in Nat
             /\ Cardinality(Counted(s, C)') - Cardinality(Counted(s, C)) <= apiRate'[s] - apiRate[s]
  <2> SUFFICES ASSUME NEW C
               PROVE  /\ Cardinality(Counted(s, C)) \in Nat /\ Cardinality(Counted(s, C)') \in Nat
                      /\ Cardinality(Counted(s, C)') - Cardinality(Counted(s, C))
                            <= apiRate'[s] - apiRate[s]
    OBVIOUS
  <2>1. /\ Cardinality(Counted(s, C)) \in Nat /\ Cardinality(Counted(s, C)') \in Nat
        /\ Cardinality(Counted(s, C)') <= Cardinality(Counted(s, C)) + 1
        /\ r \notin Counted(s, C)' => Cardinality(Counted(s, C)') <= Cardinality(Counted(s, C))
    BY <1>1, OthersStay, OneApart
  <2> QED BY <1>4, <1>6, <2>1
<1>8. ASSUME RowCovers(s)
      PROVE  RowCovers(s)'
  <2>1. used["api_rate"][s] \in Nat /\ \A c \in Classes : admitted["api_rate"][s][c] \in Nat
    BY DEF TypeOK, Stores
  <2>2. used["api_rate"][s] + Cardinality(Counted(s, Classes)') <= apiRate'[s]
    BY <1>6, <1>7, <1>8, <2>1 DEF RowCovers
  <2>3. ASSUME NEW c \in Classes
        PROVE  admitted["api_rate"][s][c] + Cardinality(Counted(s, {c})') <= apiRate'[s]
    BY <1>6, <1>7, <1>8, <2>1 DEF RowCovers
  <2> QED BY <1>1, <2>2, <2>3 DEF RowCovers
<1>9. Promised(s)'
  BY <1>1, <1>5 DEF Promised, Tallied
<1>10. Over(s)' <=> Over(s)
  BY <1>1 DEF Over, WindowOf
<1> QED BY <1>8, <1>9, <1>10 DEF Tallied

(* The SELECT reads at least as many hits as are let through or counted.   *)
LEMMA SelectKeeps ==
    ASSUME TypeOK, Timely, NEW r \in Workers, Select(r), NEW s \in Slots, Tallied(s)
    PROVE  Tallied(s)'
<1>1. /\ req[r].phase = "select" /\ now' = now /\ apiRate' = apiRate
      /\ used' = used /\ admitted' = admitted
      /\ \A q \in Workers \ {r} : req'[q] = req[q]
  BY DEF Select, TypeOK
<1>2. /\ req'[r].phase = "prune" /\ req'[r].class = req[r].class
      /\ req'[r].bucket = req[r].bucket /\ req'[r].key = req[r].key /\ req'[r].at = req[r].at
      /\ req'[r].hits = IF apiRate[Slot(r)] = 0 THEN 1 ELSE apiRate[Slot(r)]
  <2>1. req[r] \in [phase : {"apcu", "upsert", "select", "prune"}, bucket : Buckets,
                    key : Keys, class : Classes, at : Seconds, hits : Nat]
    BY <1>1, BusyTypes
  <2> QED BY <2>1 DEF Select, TypeOK
<1>3. Slot(r)' = Slot(r) /\ Slot(r) \in Slots /\ req[r].class \in Classes
  BY <1>1, <1>2, SameSlot, SlotType, BusyTypes
<1>4. \A C : Counted(s, C)' = Counted(s, C)
  <2> SUFFICES ASSUME NEW C PROVE Counted(s, C)' = Counted(s, C)
    OBVIOUS
  <2>1. r \in Counted(s, C)' <=> r \in Counted(s, C)
    BY <1>1, <1>2, <1>3 DEF Counted
  <2> QED BY <1>1, <2>1, OthersStay
<1>5. /\ used["api_rate"][s] \in Nat /\ apiRate[s] \in Nat
      /\ \A c \in Classes : admitted["api_rate"][s][c] \in Nat
  BY DEF TypeOK, Stores
<1>6. \A C, m : /\ Cardinality(Due(s, C, m)) \in Nat /\ Cardinality(Due(s, C, m)') \in Nat
                /\ Cardinality(Counted(s, C)) \in Nat
                /\ Cardinality(Due(s, C, m)') <= Cardinality(Counted(s, C))
  <2> SUFFICES ASSUME NEW C, NEW m
               PROVE  /\ Cardinality(Due(s, C, m)) \in Nat /\ Cardinality(Due(s, C, m)') \in Nat
                      /\ Cardinality(Counted(s, C)) \in Nat
                      /\ Cardinality(Due(s, C, m)') <= Cardinality(Counted(s, C))
    OBVIOUS
  <2>1. Due(s, C, m)' \in SUBSET Counted(s, C)
    BY <1>4 DEF Due
  <2>2. IsFiniteSet(Counted(s, C))
    BY Configured, FS_Subset, <1>1, OthersStay
  <2>3. Cardinality(Due(s, C, m)') <= Cardinality(Counted(s, C))
    BY <2>1, <2>2, FS_Subset
  <2> QED BY <1>1, <2>3, OthersStay, OneApart
<1>7. \A C, m : r \notin Due(s, C, m)' => Cardinality(Due(s, C, m)') <= Cardinality(Due(s, C, m))
  <2> SUFFICES ASSUME NEW C, NEW m, r \notin Due(s, C, m)'
               PROVE  Cardinality(Due(s, C, m)') <= Cardinality(Due(s, C, m))
    OBVIOUS
  <2>1. /\ Due(s, C, m) \in SUBSET Workers /\ Due(s, C, m)' \in SUBSET Workers
        /\ Due(s, C, m)' \ {r} = Due(s, C, m) \ {r}
    BY <1>1, OthersStay
  <2> QED BY <2>1, OneApart
<1>8. ASSUME NEW C, NEW m \in Nat, NEW t \in Nat, t + Cardinality(Due(s, C, m)) <= m,
             RowCovers(s) => t + Cardinality(Counted(s, C)) <= apiRate[s]
      PROVE  t + Cardinality(Due(s, C, m)') <= m
  <2>1. CASE r \notin Due(s, C, m)'
    BY <1>6, <1>7, <1>8, <2>1
  <2>2. CASE r \in Due(s, C, m)'
    <3>1. s = Slot(r) /\ r \in Counted(s, C) /\ req'[r].hits <= m
      BY <1>3, <1>4, <2>2 DEF Due, Counted
    <3>2. RowCovers(s)
      BY <1>1, <3>1, NobodyLate DEF Tallied
    <3>3. Cardinality(Counted(s, C)) # 0
      BY <1>1, <3>1, Configured, FS_Subset, FS_EmptySet, OthersStay
    <3>4. req'[r].hits = apiRate[s]
      BY <1>2, <1>5, <1>6, <1>8, <3>1, <3>2, <3>3
    <3> QED BY <1>5, <1>6, <1>8, <3>1, <3>2, <3>4
  <2> QED BY <2>1, <2>2
<1>9. Promised(s)'
  <2>1. ASSUME NEW m \in Nat, \A c \in Classes : Limit[s[1]][c] <= m
        PROVE  used["api_rate"][s] + Cardinality(Due(s, Classes, m)') <= m
    BY <1>5, <1>8, <2>1 DEF RowCovers, Promised, Tallied
  <2>2. ASSUME NEW c \in Classes
        PROVE  admitted["api_rate"][s][c] + Cardinality(Due(s, {c}, Limit[s[1]][c])') <= Limit[s[1]][c]
    <3>1. Limit[s[1]][c] \in Nat
      BY Configured DEF Slots
    <3> QED BY <1>5, <1>8, <3>1 DEF RowCovers, Promised, Tallied
  <2> QED BY <1>1, <2>1, <2>2 DEF Promised
<1>10. RowCovers(s) => RowCovers(s)'
  BY <1>1, <1>4 DEF RowCovers
<1>11. Over(s)' <=> Over(s)
  BY <1>1 DEF Over, WindowOf
<1> QED BY <1>9, <1>10, <1>11 DEF Tallied

(* Whether this answer lets a caller of the classes in C through in s.     *)
LetThrough(r, s, C) ==
    IF s = Slot(r) /\ req[r].class \in C /\ Allowed(r, req[r].hits) THEN 1 ELSE 0

(* The hits let through go up as the answer says. *)
LEMMA AnswerCounts ==
    ASSUME TypeOK, NEW r \in Workers, req[r].phase # "idle",
           Answer(r, req[r].hits, "api_rate"), NEW s \in Slots
    PROVE  /\ used'["api_rate"][s] = used["api_rate"][s] + LetThrough(r, s, Classes)
           /\ \A c \in Classes : admitted'["api_rate"][s][c]
                                  = admitted["api_rate"][s][c] + LetThrough(r, s, {c})
<1>1. Slot(r) \in Slots /\ req[r].class \in Classes
  BY SlotType, BusyTypes
<1>2. /\ used["api_rate"][s] \in Nat
      /\ \A c \in Classes : admitted["api_rate"][s][c] \in Nat
  BY DEF TypeOK, Stores
<1>3. CASE ~Allowed(r, req[r].hits)
  BY <1>2, <1>3 DEF Answer, LetThrough
<1>4. CASE Allowed(r, req[r].hits)
  <2>1. /\ admitted' = [admitted EXCEPT !["api_rate"][Slot(r)][req[r].class] = @ + 1]
        /\ used' = [used EXCEPT !["api_rate"][Slot(r)] = @ + 1]
    BY <1>4 DEF Answer
  <2>2. /\ admitted \in [Stores -> [Slots -> [Classes -> Nat]]]
        /\ used \in [Stores -> [Slots -> Nat]]
        /\ "api_rate" \in Stores
    BY DEF TypeOK, Stores
  <2>3. used'["api_rate"][s] = IF s = Slot(r) THEN used["api_rate"][s] + 1
                                              ELSE used["api_rate"][s]
    BY <1>1, <2>1, <2>2
  <2>4. \A c \in Classes :
           admitted'["api_rate"][s][c] = IF s = Slot(r) /\ c = req[r].class
                                         THEN admitted["api_rate"][s][c] + 1
                                         ELSE admitted["api_rate"][s][c]
    BY <1>1, <2>1, <2>2
  <2>5. \A C : LetThrough(r, s, C) = IF s = Slot(r) /\ req[r].class \in C THEN 1 ELSE 0
    BY <1>4 DEF LetThrough
  <2> QED BY <1>1, <1>2, <2>3, <2>4, <2>5
<1> QED BY <1>3, <1>4

(* Whoever is answered was counted, and was due if it is let through.      *)
LEMMA PruneCounts ==
    ASSUME TypeOK, NEW r \in Workers, Prune(r), NEW s \in Slots, NEW C
    PROVE  /\ Cardinality(Counted(s, C)) \in Nat /\ Cardinality(Counted(s, C)') \in Nat
           /\ Cardinality(Counted(s, C)') + LetThrough(r, s, C) <= Cardinality(Counted(s, C))
           /\ \A m \in Nat :
                 /\ Cardinality(Due(s, C, m)) \in Nat /\ Cardinality(Due(s, C, m)') \in Nat
                 /\ (s = Slot(r) /\ req[r].class \in C => LimitOf(r) <= m)
                    => Cardinality(Due(s, C, m)') + LetThrough(r, s, C) <= Cardinality(Due(s, C, m))
<1>1. /\ req[r].phase = "prune" /\ req'[r] = Idle
      /\ \A q \in Workers \ {r} : req'[q] = req[q]
  BY DEF Prune, Answer, TypeOK
<1>2. req'[r].phase = "idle"
  BY <1>1 DEF Idle
<1>3. r \notin Counted(s, C)' /\ \A m : r \notin Due(s, C, m)'
  BY <1>2 DEF Counted, Due
<1>4. CASE LetThrough(r, s, C) = 0
  <2>1. Cardinality(Counted(s, C)') <= Cardinality(Counted(s, C))
        /\ Cardinality(Counted(s, C)) \in Nat /\ Cardinality(Counted(s, C)') \in Nat
    BY <1>1, <1>3, OthersStay, OneApart
  <2>2. ASSUME NEW m
        PROVE  Cardinality(Due(s, C, m)') <= Cardinality(Due(s, C, m))
               /\ Cardinality(Due(s, C, m)) \in Nat /\ Cardinality(Due(s, C, m)') \in Nat
    <3>1. /\ Due(s, C, m) \in SUBSET Workers /\ Due(s, C, m)' \in SUBSET Workers
          /\ Due(s, C, m)' \ {r} = Due(s, C, m) \ {r}
      BY <1>1, OthersStay
    <3> QED BY <1>3, <3>1, OneApart
  <2> QED BY <1>4, <2>1, <2>2
<1>5. CASE LetThrough(r, s, C) # 0
  <2>1. /\ LetThrough(r, s, C) = 1
        /\ s = Slot(r) /\ req[r].class \in C /\ req[r].hits <= LimitOf(r)
    BY <1>5 DEF LetThrough, Allowed
  <2>2. r \in Counted(s, C)
    BY <1>1, <2>1 DEF Counted
  <2>3. Cardinality(Counted(s, C)') + 1 = Cardinality(Counted(s, C))
        /\ Cardinality(Counted(s, C)) \in Nat /\ Cardinality(Counted(s, C)') \in Nat
    BY <1>1, <1>3, <2>2, OthersStay, OneApart
  <2>4. ASSUME NEW m \in Nat
        PROVE  /\ Cardinality(Due(s, C, m)) \in Nat /\ Cardinality(Due(s, C, m)') \in Nat
               /\ LimitOf(r) <= m
                  => Cardinality(Due(s, C, m)') + 1 = Cardinality(Due(s, C, m))
    <3>1. /\ Due(s, C, m) \in SUBSET Workers /\ Due(s, C, m)' \in SUBSET Workers
          /\ Due(s, C, m)' \ {r} = Due(s, C, m) \ {r}
      BY <1>1, OthersStay
    <3>2. req[r].hits \in Nat /\ LimitOf(r) \in Nat
      BY <1>1, BusyTypes, SlotType
    <3>3. LimitOf(r) <= m => r \in Due(s, C, m)
      BY <1>1, <2>1, <2>2, <3>2 DEF Due
    <3> QED BY <1>3, <3>1, <3>3, OneApart
  <2> QED BY <2>1, <2>3, <2>4
<1> QED BY <1>4, <1>5

(* The answer takes a worker off the counted ones for a hit let through.   *)
LEMMA PruneKeeps ==
    ASSUME TypeOK, Timely, NEW r \in Workers, Prune(r), NEW s \in Slots, Tallied(s)
    PROVE  Tallied(s)'
<1>1. /\ req[r].phase # "idle" /\ now' = now /\ Answer(r, req[r].hits, "api_rate")
  BY DEF Prune
<1>2. /\ used["api_rate"][s] \in Nat /\ apiRate[s] \in Nat
      /\ \A c \in Classes : admitted["api_rate"][s][c] \in Nat
  BY DEF TypeOK, Stores
<1>3. \A C : LetThrough(r, s, C) \in Nat
  BY DEF LetThrough
<1>4. ASSUME ~Over(s), RowCovers(s)
      PROVE  RowCovers(s)'
  <2>1. apiRate'[s] = apiRate[s]
    BY <1>1, <1>4, DeadIsOver DEF Prune
  <2>2. used'["api_rate"][s] + Cardinality(Counted(s, Classes)') <= apiRate'[s]
    <3>1. used["api_rate"][s] + Cardinality(Counted(s, Classes)) <= apiRate[s]
      BY <1>4 DEF RowCovers
    <3> QED BY <1>1, <1>2, <1>3, <2>1, <3>1, AnswerCounts, PruneCounts
  <2>3. ASSUME NEW c \in Classes
        PROVE  admitted'["api_rate"][s][c] + Cardinality(Counted(s, {c})') <= apiRate'[s]
    <3>1. admitted["api_rate"][s][c] + Cardinality(Counted(s, {c})) <= apiRate[s]
      BY <1>4 DEF RowCovers
    <3>2. admitted'["api_rate"][s][c] = admitted["api_rate"][s][c] + LetThrough(r, s, {c})
      BY <1>1, AnswerCounts
    <3>3. /\ Cardinality(Counted(s, {c})) \in Nat /\ Cardinality(Counted(s, {c})') \in Nat
          /\ Cardinality(Counted(s, {c})') + LetThrough(r, s, {c}) <= Cardinality(Counted(s, {c}))
      BY PruneCounts
    <3> QED BY <1>2, <1>3, <2>1, <3>1, <3>2, <3>3
  <2> QED BY <2>2, <2>3 DEF RowCovers
<1>5. Promised(s)'
  <2>1. s = Slot(r) => LimitOf(r) = Limit[s[1]][req[r].class] /\ req[r].class \in Classes
    BY <1>1, SlotType, BusyTypes
  <2>2. ASSUME NEW m \in Nat, \A c \in Classes : Limit[s[1]][c] <= m
        PROVE  used'["api_rate"][s] + Cardinality(Due(s, Classes, m)') <= m
    <3>1. used["api_rate"][s] + Cardinality(Due(s, Classes, m)) <= m
      BY <2>2 DEF Tallied, Promised
    <3>2. Cardinality(Due(s, Classes, m)') + LetThrough(r, s, Classes)
            <= Cardinality(Due(s, Classes, m))
      BY <2>1, <2>2, PruneCounts
    <3> QED BY <1>1, <1>2, <1>3, <3>1, <3>2, AnswerCounts, PruneCounts
  <2>3. ASSUME NEW c \in Classes, NEW m, m = Limit[s[1]][c]
        PROVE  admitted'["api_rate"][s][c] + Cardinality(Due(s, {c}, m)') <= m
    <3>1. admitted["api_rate"][s][c] + Cardinality(Due(s, {c}, m)) <= m
      BY <2>3 DEF Tallied, Promised
    <3>2. m \in Nat
      BY <2>3, Configured DEF Slots
    <3>3. Cardinality(Due(s, {c}, m)') + LetThrough(r, s, {c}) <= Cardinality(Due(s, {c}, m))
      BY <2>1, <2>3, <3>2, PruneCounts
    <3>4. admitted'["api_rate"][s][c] = admitted["api_rate"][s][c] + LetThrough(r, s, {c})
      BY <1>1, AnswerCounts
    <3>5. Cardinality(Due(s, {c}, m)) \in Nat /\ Cardinality(Due(s, {c}, m)') \in Nat
      BY <3>2, PruneCounts
    <3> QED BY <1>2, <1>3, <3>1, <3>2, <3>3, <3>4, <3>5
  <2> QED BY <2>2, <2>3 DEF Promised
<1>6. Over(s)' <=> Over(s)
  BY <1>1 DEF Over, WindowOf
<1> QED BY <1>4, <1>5, <1>6 DEF Tallied

LEMMA TalliedStep ==
    ASSUME TypeOK, Timely, [Next]_vars, NEW s \in Slots, Tallied(s)
    PROVE  Tallied(s)'
<1>1. ASSUME req' = req, apiRate' = apiRate, used' = used, admitted' = admitted,
             Over(s) => Over(s)'
      PROVE  Tallied(s)'
  <2>1. \A C : Counted(s, C)' = Counted(s, C) /\ \A m : Due(s, C, m)' = Due(s, C, m)
    BY <1>1 DEF Counted, Due, Slot
  <2> QED BY <1>1, <2>1, QuietKeeps
<1>2. ASSUME NEW r \in Workers, \A q \in Workers \ {r} : req'[q] = req[q],
             req[r].phase \notin {"select", "prune"}, req'[r].phase \notin {"select", "prune"},
             now' = now, apiRate' = apiRate,
             used'["api_rate"] = used["api_rate"], admitted'["api_rate"] = admitted["api_rate"]
      PROVE  Tallied(s)'
  <2>1. \A C : Counted(s, C)' = Counted(s, C) /\ \A m : Due(s, C, m)' = Due(s, C, m)
    BY <1>2, StillUncounted
  <2>2. WindowOf(s[1], now') = WindowOf(s[1], now)
    BY <1>2
  <2> QED BY <1>2, <2>1, <2>2, QuietKeeps
<1>3. CASE UNCHANGED vars
  BY <1>1, <1>3 DEF vars, Over, WindowOf
<1>4. ASSUME NEW r \in Workers, NEW b \in Buckets, NEW k \in Keys, NEW c \in Classes,
             Charge(r, b, k, c)
      PROVE  Tallied(s)'
  <2>1. req[r].phase = "idle"
    BY <1>4 DEF Charge, Active, Idle
  <2>2. /\ req'[r].phase \in {"apcu", "upsert"}
        /\ \A q \in Workers \ {r} : req'[q] = req[q]
    BY <1>4 DEF Charge, TypeOK
  <2> QED BY <1>2, <1>4, <2>1, <2>2 DEF Charge
<1>5. ASSUME NEW r \in Workers, ApcuIncrement(r)
      PROVE  Tallied(s)'
  <2>1. req[r].phase = "apcu" /\ Answer(r, apcu[Slot(r)].hits + 1, "apcu")
    BY <1>5 DEF ApcuIncrement
  <2>2. /\ req'[r].phase = "idle" /\ \A q \in Workers \ {r} : req'[q] = req[q]
    BY <2>1 DEF Answer, Idle, TypeOK
  <2>3. used'["api_rate"] = used["api_rate"] /\ admitted'["api_rate"] = admitted["api_rate"]
    BY <2>1 DEF Answer, TypeOK, Stores
  <2> QED BY <1>2, <1>5, <2>1, <2>2, <2>3 DEF ApcuIncrement
<1>6. ASSUME NEW r \in Workers, ApcuRefuses(r)
      PROVE  Tallied(s)'
  <2>1. req[r].phase = "apcu" /\ \A q \in Workers \ {r} : req'[q] = req[q]
    BY <1>6 DEF ApcuRefuses, TypeOK
  <2>2. req'[r].phase = "upsert"
    <3>1. req[r] \in [phase : {"apcu", "upsert", "select", "prune"}, bucket : Buckets,
                      key : Keys, class : Classes, at : Seconds, hits : Nat]
      BY <2>1, BusyTypes
    <3> QED BY <1>6, <3>1 DEF ApcuRefuses, TypeOK
  <2> QED BY <1>2, <1>6, <2>1, <2>2 DEF ApcuRefuses
<1>7. ASSUME NEW a \in Slots, ApcuExpire(a) \/ ApcuEvict(a)
      PROVE  Tallied(s)'
  BY <1>1, <1>7 DEF ApcuExpire, ApcuEvict, Lose, Over, WindowOf
<1>8. CASE Tick
  <2>1. now' = now + 1 /\ now \in Nat
    BY <1>8 DEF Tick, TypeOK, Seconds
  <2>2. PICK b \in Buckets : b = s[1]
    BY DEF Slots
  <2>3. WindowOf(b, now) <= WindowOf(b, now') /\ WindowOf(b, now) \in Nat /\ WindowOf(b, now') \in Nat
    BY <2>1, WindowStart, WindowsFollow
  <2>4. s[3] + PruneWindows * Length[b] \in Nat
    BY PruneAge DEF Slots, Seconds
  <2>5. Over(s) => s[3] + PruneWindows * Length[b] < WindowOf(b, now')
    BY <2>2, <2>3, <2>4 DEF Over
  <2>6. Over(s) => Over(s)'
    BY <2>2, <2>5 DEF Over, WindowOf
  <2> QED BY <1>1, <1>8, <2>6 DEF Tick
<1> QED BY <1>3, <1>4, <1>5, <1>6, <1>7, <1>8, UpsertKeeps, SelectKeeps, PruneKeeps DEF Next, Step

---------------------------------------------------------------------------
(* The counters of APCu. *)

LEMMA OneMore ==
    ASSUME NEW l \in Nat, NEW n \in Nat
    PROVE  l * n \in Nat /\ l * (n + 1) = l * n + l
OBVIOUS

LEMMA ApcuStep ==
    ASSUME TypeOK, [Next]_vars, NEW s \in Slots, ApcuBounded(s)
    PROVE  ApcuBounded(s)'
<1> SUFFICES ASSUME NEW c \in Classes
             PROVE  LET before == Limit[s[1]][c] * restarts'[s]
                    IN  /\ admitted'["apcu"][s][c] <= before + apcu'[s].hits
                        /\ admitted'["apcu"][s][c] <= before + Limit[s[1]][c]
  BY DEF ApcuBounded
<1>1. PICK l \in Nat : l = Limit[s[1]][c]
  BY Configured DEF Slots
<1>2. PICK n \in Nat : n = restarts[s]
  BY DEF TypeOK
<1>3. PICK before \in Nat : before = l * n
  BY OneMore
<1>4. PICK h \in Nat : h = apcu[s].hits
  BY DEF TypeOK
<1>5. PICK a \in Nat : a = admitted["apcu"][s][c]
  BY DEF TypeOK, Stores
<1>6. a <= before + h /\ a <= before + l
  BY <1>1, <1>2, <1>3, <1>4, <1>5 DEF ApcuBounded
<1>7. ASSUME restarts' = restarts, apcu'[s].hits = apcu[s].hits,
             admitted'["apcu"][s][c] = admitted["apcu"][s][c]
      PROVE  /\ admitted'["apcu"][s][c] <= Limit[s[1]][c] * restarts'[s] + apcu'[s].hits
             /\ admitted'["apcu"][s][c] <= Limit[s[1]][c] * restarts'[s] + Limit[s[1]][c]
  BY <1>7 DEF ApcuBounded
<1>8. CASE UNCHANGED vars
  BY <1>7, <1>8 DEF vars
<1>9. ASSUME NEW r \in Workers, ApcuIncrement(r)
      PROVE  /\ admitted'["apcu"][s][c] <= Limit[s[1]][c] * restarts'[s] + apcu'[s].hits
             /\ admitted'["apcu"][s][c] <= Limit[s[1]][c] * restarts'[s] + Limit[s[1]][c]
  <2>1. /\ req[r].phase = "apcu" /\ restarts' = restarts
        /\ Answer(r, apcu[Slot(r)].hits + 1, "apcu")
    BY <1>9 DEF ApcuIncrement
  <2>2. Slot(r) \in Slots /\ req[r].class \in Classes
        /\ LimitOf(r) = Limit[Slot(r)[1]][req[r].class]
    BY <2>1, SlotType, BusyTypes
  <2>3. apcu'[s].hits = IF s = Slot(r) THEN h + 1 ELSE h
    BY <1>4, <1>9, <2>2 DEF ApcuIncrement, TypeOK
  <2>4. admitted'["apcu"][s][c] = IF s = Slot(r) /\ c = req[r].class /\ Allowed(r, apcu[Slot(r)].hits + 1)
                                  THEN a + 1 ELSE a
    <3>1. CASE ~Allowed(r, apcu[Slot(r)].hits + 1)
      BY <1>5, <2>1, <3>1 DEF Answer
    <3>2. CASE Allowed(r, apcu[Slot(r)].hits + 1)
      <4>1. admitted' = [admitted EXCEPT !["apcu"][Slot(r)][req[r].class] = @ + 1]
        BY <2>1, <3>2 DEF Answer
      <4>2. admitted \in [Stores -> [Slots -> [Classes -> Nat]]] /\ "apcu" \in Stores
        BY DEF TypeOK, Stores
      <4> QED BY <1>5, <2>2, <3>2, <4>1, <4>2
    <3> QED BY <3>1, <3>2
  <2>5. s = Slot(r) /\ c = req[r].class /\ Allowed(r, apcu[Slot(r)].hits + 1) => h + 1 <= l
    BY <1>1, <1>4, <2>2 DEF Allowed
  <2>6. /\ admitted'["apcu"][s][c] <= before + apcu'[s].hits
        /\ admitted'["apcu"][s][c] <= before + l
    BY <1>6, <2>3, <2>4, <2>5
  <2>7. Limit[s[1]][c] * restarts'[s] = before
    BY <1>1, <1>2, <1>3, <2>1
  <2> QED BY <1>1, <2>6, <2>7
<1>10. ASSUME NEW r \in Workers, Prune(r)
      PROVE  /\ admitted'["apcu"][s][c] <= Limit[s[1]][c] * restarts'[s] + apcu'[s].hits
             /\ admitted'["apcu"][s][c] <= Limit[s[1]][c] * restarts'[s] + Limit[s[1]][c]
  <2>1. admitted'["apcu"] = admitted["apcu"]
    BY <1>10 DEF Prune, Answer, TypeOK, Stores
  <2> QED BY <1>7, <1>10, <2>1 DEF Prune
<1>11. ASSUME NEW t \in Slots, ApcuExpire(t) \/ ApcuEvict(t)
      PROVE  /\ admitted'["apcu"][s][c] <= Limit[s[1]][c] * restarts'[s] + apcu'[s].hits
             /\ admitted'["apcu"][s][c] <= Limit[s[1]][c] * restarts'[s] + Limit[s[1]][c]
  <2>1. /\ admitted' = admitted
        /\ apcu' = [apcu EXCEPT ![t] = [hits |-> 0, until |-> 0]]
        /\ restarts' = [restarts EXCEPT ![t] = @ + 1]
    BY <1>11 DEF ApcuExpire, ApcuEvict, Lose
  <2>2. CASE s # t
    <3>1. restarts'[s] = restarts[s] /\ apcu'[s] = apcu[s]
      BY <2>1, <2>2 DEF TypeOK
    <3> QED BY <2>1, <3>1 DEF ApcuBounded
  <2>3. CASE s = t
    <3>1. restarts'[s] = n + 1 /\ apcu'[s].hits = 0
      BY <1>2, <2>1, <2>3 DEF TypeOK
    <3>2. Limit[s[1]][c] * restarts'[s] = before + l
      BY <1>1, <1>3, <3>1, OneMore
    <3> QED BY <1>1, <1>5, <1>6, <2>1, <3>1, <3>2
  <2> QED BY <2>2, <2>3
<1>12. ASSUME NEW r \in Workers,
              \/ \E b \in Buckets, k \in Keys, d \in Classes : Charge(r, b, k, d)
              \/ ApcuRefuses(r) \/ Upsert(r) \/ Select(r)
      PROVE  /\ admitted'["apcu"][s][c] <= Limit[s[1]][c] * restarts'[s] + apcu'[s].hits
             /\ admitted'["apcu"][s][c] <= Limit[s[1]][c] * restarts'[s] + Limit[s[1]][c]
  BY <1>7, <1>12 DEF Charge, ApcuRefuses, Upsert, Select
<1>13. CASE Tick
  BY <1>7, <1>13 DEF Tick
<1> QED BY <1>8, <1>9, <1>10, <1>11, <1>12, <1>13 DEF Next, Step

---------------------------------------------------------------------------
(* The invariant, and what follows. *)

LEMMA Initially == Init => IInv
<1> SUFFICES ASSUME Init
             PROVE  IInv
  OBVIOUS
<1>1. TypeOK
  BY TypeInit
<1>2. \A r \in Workers : req[r] = Idle /\ req[r].phase = "idle"
  BY DEF Init, Idle
<1>3. Timely
  BY <1>2 DEF Timely, Active
<1>4. \A s, C : Counted(s, C) = {} /\ \A m : Due(s, C, m) = {}
  BY <1>2 DEF Counted, Due
<1>5. ASSUME NEW s \in Slots
      PROVE  RowCovers(s) /\ Promised(s)
  <2>1. /\ used["api_rate"][s] = 0 /\ apiRate[s] = 0
        /\ \A c \in Classes : admitted["api_rate"][s][c] = 0
    BY DEF Init, Stores
  <2>2. \A C : Cardinality(Counted(s, C)) = 0 /\ \A m : Cardinality(Due(s, C, m)) = 0
    BY <1>4, FS_EmptySet
  <2>3. \A c \in Classes : Limit[s[1]][c] \in Nat
    BY Configured DEF Slots
  <2>4. RowCovers(s)
    BY <2>1, <2>2 DEF RowCovers
  <2>5. Promised(s)
    BY <2>1, <2>2, <2>3 DEF Promised
  <2> QED BY <2>4, <2>5
<1>6. ASSUME NEW s \in Slots
      PROVE  ApcuBounded(s)
  <2>1. \A c \in Classes : Limit[s[1]][c] \in Nat
    BY Configured DEF Slots
  <2>2. /\ restarts[s] = 0 /\ apcu[s].hits = 0
        /\ \A c \in Classes : admitted["apcu"][s][c] = 0
    BY DEF Init, Stores
  <2> QED BY <2>1, <2>2 DEF ApcuBounded
<1> QED BY <1>1, <1>3, <1>5, <1>6 DEF IInv

LEMMA StepKeeps == IInv /\ [Next]_vars => IInv'
<1> SUFFICES ASSUME IInv, [Next]_vars
             PROVE  IInv'
  OBVIOUS
<1>1. TypeOK' /\ Timely'
  BY TypeStep, TimelyStep DEF IInv
<1>2. ASSUME NEW s \in Slots
      PROVE  Tallied(s)' /\ ApcuBounded(s)'
  BY TalliedStep, ApcuStep DEF IInv, Tallied
<1> QED BY <1>1, <1>2 DEF IInv, Tallied, Slots, Seconds

LEMMA Invariant == Spec => []IInv
BY Initially, StepKeeps, PTL DEF Spec

(* RetrySuffices, in every reachable state: whoever is told to retry after *)
(* so many seconds is counted in another window then.                      *)
THEOREM RetriesSuffice == Spec => []RetrySuffices
BY TypeCorrect, RetryEnough, PTL

(* The invariant bounds what each of the two stores lets through.          *)
LEMMA StoresBound == IInv => AllowanceBounded
<1> SUFFICES ASSUME IInv, NEW s \in Slots, NEW c \in Classes
             PROVE  /\ admitted["apcu"][s][c] <= Limit[s[1]][c] * (1 + restarts[s])
                    /\ admitted["apcu"][s][c] + admitted["api_rate"][s][c]
                          <= Limit[s[1]][c] * (2 + restarts[s])
  BY DEF AllowanceBounded
<1>1. PICK l \in Nat : l = Limit[s[1]][c]
  BY Configured DEF Slots
<1>2. PICK n \in Nat : n = restarts[s]
  BY DEF IInv, TypeOK
<1>3. /\ admitted["apcu"][s][c] \in Nat /\ admitted["api_rate"][s][c] \in Nat
  BY DEF IInv, TypeOK, Stores
<1>4. admitted["apcu"][s][c] <= l * n + l
  BY <1>1, <1>2 DEF IInv, ApcuBounded
<1>5. admitted["api_rate"][s][c] <= l
  <2>1. admitted["api_rate"][s][c] + Cardinality(Due(s, {c}, l)) <= l
    BY <1>1 DEF IInv, Promised
  <2>2. Due(s, {c}, l) \in SUBSET Workers
    BY DEF Due, Counted
  <2>3. Cardinality(Due(s, {c}, l)) \in Nat
    BY <2>2, OneApart
  <2> QED BY <1>3, <2>1, <2>3
<1>6. l * n \in Nat /\ l * (1 + n) = l * n + l /\ l * (2 + n) = l * n + l + l
  <2>1. 1 + n = n + 1 /\ 2 + n = (n + 1) + 1
    OBVIOUS
  <2> QED BY <2>1, OneMore
<1> QED BY <1>1, <1>2, <1>3, <1>4, <1>5, <1>6

(* AllowanceBounded: APCu lets a caller through once more over for every   *)
(* counter it loses, and the database once more when APCu refuses to       *)
(* count, and that is all.                                                 *)
THEOREM AllowanceHolds == Spec => []AllowanceBounded
BY Invariant, StoresBound, PTL

(* An answer of the database that lets a caller through is a step of       *)
(* FixedWindow.                                                            *)
LEMMA PruneAdmits ==
    ASSUME IInv, NEW r \in Workers, Prune(r)
    PROVE  Promise!Next \/ UNCHANGED <<admitted["api_rate"], used["api_rate"]>>
<1>1. req[r].phase = "prune" /\ Answer(r, req[r].hits, "api_rate")
  BY DEF Prune
<1>2. CASE ~Allowed(r, req[r].hits)
  BY <1>1, <1>2 DEF Answer
<1>3. CASE Allowed(r, req[r].hits)
  <2>1. PICK s \in Slots : s = Slot(r)
    BY <1>1, SlotType DEF IInv
  <2>2. PICK c \in Classes : c = req[r].class
    BY <1>1, BusyTypes DEF IInv
  <2>3. /\ req[r].hits \in Nat /\ Limit[s[1]][c] \in Nat /\ req[r].hits <= Limit[s[1]][c]
    BY <1>1, <1>3, <2>1, <2>2, SlotType, BusyTypes DEF Allowed, IInv
  <2>4. \A C, m : /\ Due(s, C, m) \in SUBSET Workers /\ Cardinality(Due(s, C, m)) \in Nat
                  /\ (c \in C /\ req[r].hits <= m) => Cardinality(Due(s, C, m)) # 0
    <3> SUFFICES ASSUME NEW C, NEW m
                 PROVE  /\ Due(s, C, m) \in SUBSET Workers /\ Cardinality(Due(s, C, m)) \in Nat
                        /\ (c \in C /\ req[r].hits <= m) => Cardinality(Due(s, C, m)) # 0
      OBVIOUS
    <3>1. Due(s, C, m) \in SUBSET Workers
      BY DEF Due, Counted
    <3>2. IsFiniteSet(Due(s, C, m)) /\ Cardinality(Due(s, C, m)) \in Nat
      BY <3>1, Configured, FS_Subset, FS_CardinalityType
    <3>3. (c \in C /\ req[r].hits <= m) => r \in Due(s, C, m)
      BY <1>1, <2>1, <2>2 DEF Due, Counted
    <3> QED BY <3>1, <3>2, <3>3, FS_EmptySet
  <2>5. admitted["api_rate"][s][c] \in Nat /\ used["api_rate"][s] \in Nat
    BY DEF IInv, TypeOK, Stores
  <2>6. admitted["api_rate"][s][c] < SlotLimit(s, c)
    <3>1. admitted["api_rate"][s][c] + Cardinality(Due(s, {c}, Limit[s[1]][c])) <= Limit[s[1]][c]
      BY DEF IInv, Promised
    <3>2. Cardinality(Due(s, {c}, Limit[s[1]][c])) \in Nat \ {0}
      BY <2>3, <2>4
    <3> QED BY <2>3, <2>5, <3>1, <3>2 DEF SlotLimit
  <2>7. \E d \in Classes : used["api_rate"][s] < SlotLimit(s, d)
    <3>1. ASSUME \A d \in Classes : ~(used["api_rate"][s] < SlotLimit(s, d))
          PROVE  FALSE
      <4>1. PICK m \in Nat : m = used["api_rate"][s]
        BY <2>5
      <4>2. \A d \in Classes : Limit[s[1]][d] <= m
        <5>1. \A d \in Classes : Limit[s[1]][d] \in Nat
          BY Configured DEF Slots
        <5> QED BY <3>1, <4>1, <5>1 DEF SlotLimit
      <4>3. m + Cardinality(Due(s, Classes, m)) <= m
        BY <4>1, <4>2 DEF IInv, Promised
      <4>4. Cardinality(Due(s, Classes, m)) \in Nat \ {0}
        BY <2>3, <2>4, <4>2
      <4> QED BY <4>1, <4>3, <4>4
    <3> QED BY <3>1
  <2>8. /\ admitted'["api_rate"] = [admitted["api_rate"] EXCEPT ![s][c] = @ + 1]
        /\ used'["api_rate"] = [used["api_rate"] EXCEPT ![s] = @ + 1]
    <3>1. /\ admitted' = [admitted EXCEPT !["api_rate"][s][c] = @ + 1]
          /\ used' = [used EXCEPT !["api_rate"][s] = @ + 1]
      BY <1>1, <1>3, <2>1, <2>2 DEF Answer
    <3>2. /\ admitted \in [Stores -> [Slots -> [Classes -> Nat]]]
          /\ used \in [Stores -> [Slots -> Nat]] /\ "api_rate" \in Stores
      BY DEF IInv, TypeOK, Stores
    <3> QED BY <3>1, <3>2
  <2>9. Promise!Admit(s, c)
    BY <2>6, <2>7, <2>8 DEF Promise!Admit
  <2> QED BY <2>9 DEF Promise!Next
<1> QED BY <1>2, <1>3

LEMMA NextAdmits ==
    ASSUME IInv, [Next]_vars
    PROVE  [Promise!Next]_<<admitted["api_rate"], used["api_rate"]>>
<1>1. CASE UNCHANGED vars
  BY <1>1 DEF vars
<1>2. ASSUME NEW r \in Workers, ApcuIncrement(r)
      PROVE  UNCHANGED <<admitted["api_rate"], used["api_rate"]>>
  BY <1>2 DEF ApcuIncrement, Answer, IInv, TypeOK, Stores
<1>3. ASSUME NEW r \in Workers,
             \/ \E b \in Buckets, k \in Keys, c \in Classes : Charge(r, b, k, c)
             \/ ApcuRefuses(r) \/ Upsert(r) \/ Select(r)
      PROVE  UNCHANGED <<admitted["api_rate"], used["api_rate"]>>
  BY <1>3 DEF Charge, ApcuRefuses, Upsert, Select
<1>4. ASSUME NEW s \in Slots, ApcuExpire(s) \/ ApcuEvict(s)
      PROVE  UNCHANGED <<admitted["api_rate"], used["api_rate"]>>
  BY <1>4 DEF ApcuExpire, ApcuEvict, Lose
<1>5. CASE Tick
  BY <1>5 DEF Tick
<1> QED BY <1>1, <1>2, <1>3, <1>4, <1>5, PruneAdmits DEF Next, Step

(* The database counter of charge() implements FixedWindow, for any number *)
(* of requests, classes and windows: no class is let through more often    *)
(* than it may, nor all of them more often than the most generous limit.   *)
THEOREM PromiseKept == Spec => KeepsPromise
<1>1. Init => Promise!Init
  BY DEF Init, Promise!Init, Stores
<1>2. IInv /\ [Next]_vars => [Promise!Next]_<<admitted["api_rate"], used["api_rate"]>>
  BY NextAdmits
<1> QED BY <1>1, <1>2, Invariant, PTL DEF Spec, KeepsPromise, Promise!Spec

=============================================================================
