--------------------------- MODULE ApiCoreProofs ---------------------------
(***************************************************************************)
(* Theorems, checked by TLAPS, about what the requests of the API go       *)
(* through whatever they are about: the write transactions, the batched    *)
(* reads and the extensions of the schema.  The last part is about the     *)
(* module that TLC runs, in which one of all these services moves: what    *)
(* is proved of each of them holds there.                                  *)
(***************************************************************************)
EXTENDS MCServices, AccountServicesProofs, SqlAccountsProofs, SequenceTheorems, TLAPS

(***************************************************************************)
(* For any number of mutations and any nesting: a mutation that is         *)
(* answered with success is kept, and one that is answered with a failure  *)
(* is not, as long as the panel's helper has not leaked a level.           *)
(*                                                                         *)
(* Until it has, the counter is the number of open calls.  An exception    *)
(* that no call catches is on its way out until the answer, so whatever    *)
(* is written belongs to a call whose transaction is open; what is open    *)
(* holds nothing but the running mutation's writes; and what is left open  *)
(* between mutations is a transaction that could not be ended.             *)
(***************************************************************************)

CallKinds == {"writer", "helper"}

(* The type, with the counter never below the number of open calls. *)
TxTyping == TxTypeOK /\ depth >= Len(frames) /\ Len(frames) <= MaxNesting

(* A call is popped. *)
LEMMA Popped ==
  ASSUME frames \in Seq(CallKinds), frames # <<>>, Leave
  PROVE  /\ Len(frames) \in Nat \ {0}
         /\ frames' \in Seq(CallKinds)
         /\ Len(frames') = Len(frames) - 1
         /\ frames' = <<>> <=> Len(frames) = 1
<1>1. Len(frames) \in Nat \ {0}
  BY EmptySeq, LenProperties
<1>2. \A i \in 1..(Len(frames) - 1) : frames[i] \in CallKinds
  BY <1>1, LenProperties
<1>3. frames' \in Seq(CallKinds) /\ Len(frames') = Len(frames) - 1
  <2> DEFINE n   == Len(frames) - 1
             sub == SubSeq(frames, 1, n)
  <2>1. n \in Nat /\ n \in Int /\ 1 \in Int
    BY <1>1
  <2>2. sub \in Seq(CallKinds) /\ Len(sub) = IF 1 <= n THEN n - 1 + 1 ELSE 0
    <3> HIDE DEF n
    <3> QED  BY <2>1, <1>2, SubSeqProperties DEF n
  <2>3. frames' = sub
    BY DEF Leave
  <2>4. Len(sub) = n
    <3> HIDE DEF n, sub
    <3> QED  BY <2>1, <2>2
  <2> HIDE DEF sub
  <2> QED  BY <2>2, <2>3, <2>4
<1>4. frames' = <<>> <=> Len(frames') = 0
  BY <1>3, EmptySeq
<1> QED  BY <1>1, <1>3, <1>4

(* A call is pushed. *)
LEMMA Pushed ==
  ASSUME frames \in Seq(CallKinds), NEW kind \in CallKinds, frames' = Append(frames, kind)
  PROVE  frames' \in Seq(CallKinds) /\ Len(frames') = Len(frames) + 1 /\ frames' # <<>>
  BY AppendProperties

LEMMA NoFrames == frames \in Seq(CallKinds) => (frames = <<>> <=> Len(frames) = 0)
  BY EmptySeq

LEMMA NoMarks == DOMAIN <<>> = {}
<1>1. <<>> \in Seq(CallKinds) /\ Len(<<>>) = 0
  BY EmptySeq
<1>2. DOMAIN <<>> = 1..0
  BY <1>1, LenProperties
<1> QED  BY <1>2

---------------------------------------------------------------------------
(* The type invariant. *)

LEMMA TxTypingInit == TxInit => TxTyping
<1> SUFFICES ASSUME TxInit  PROVE TxTyping
  OBVIOUS
<1>1. frames \in Seq(CallKinds) /\ Len(frames) = 0
  BY EmptySeq DEF TxInit
<1>2. DOMAIN marks = {}
  BY NoMarks DEF TxInit
<1>3. TxTypeOK
  BY <1>1, <1>2 DEF TxInit, TxTypeOK, CallKinds
<1> QED  BY <1>1, <1>3, TxConfigured DEF TxInit, TxTyping

(* What a statement of Db leaves of the connection has its type. *)
Connected ==
    /\ open \in BOOLEAN
    /\ pending \subseteq Writes /\ kept \subseteq Writes
    /\ DOMAIN marks \subseteq Nat /\ \A l \in DOMAIN marks : marks[l] \subseteq Writes

LEMMA BeginTypes ==
  ASSUME Connected, depth \in Nat, BeginTransaction
  PROVE  Connected' /\ depth' = depth + 1
<1>1. CASE depth = 0
  BY <1>1, NoMarks DEF Connected, BeginTransaction
<1>2. CASE depth # 0 /\ open
  <2>1. marks' = [l \in DOMAIN marks \cup {depth} |-> IF l = depth THEN pending ELSE marks[l]]
    BY <1>2 DEF BeginTransaction
  <2>2. DOMAIN marks' \subseteq Nat /\ \A l \in DOMAIN marks' : marks'[l] \subseteq Writes
    BY <2>1 DEF Connected
  <2> QED  BY <1>2, <2>2 DEF Connected, BeginTransaction
<1>3. CASE depth # 0 /\ ~open
  BY <1>3 DEF Connected, BeginTransaction
<1> QED  BY <1>1, <1>2, <1>3 DEF Connected

LEMMA CommitTypes ==
  ASSUME Connected, depth \in Nat, CommitWorks \/ CommitFails
  PROVE  Connected' /\ depth' = depth - 1
<1>1. CASE CommitWorks /\ depth = 1
  BY <1>1, NoMarks DEF Connected, CommitWorks
<1>3. CASE CommitWorks /\ depth # 1
  <2>1. marks' = Without({depth - 1})
    BY <1>3 DEF CommitWorks
  <2>2. DOMAIN marks' \subseteq Nat /\ \A l \in DOMAIN marks' : marks'[l] \subseteq Writes
    BY <2>1 DEF Connected, Without
  <2> QED  BY <1>3, <2>2 DEF Connected, CommitWorks
<1>2. CASE CommitFails
  BY <1>2 DEF Connected, CommitFails, connection
<1> QED  BY <1>1, <1>2, <1>3

LEMMA RollBackTypes ==
  ASSUME Connected, depth \in Nat, RollBackWorks \/ RollBackFails
  PROVE  Connected' /\ depth' \in Nat /\ (depth > 0 => depth' = depth - 1)
<1>1. depth' \in Nat /\ (depth > 0 => depth' = depth - 1)
  BY DEF RollBackWorks, RollBackFails
<1>2. CASE RollBackWorks /\ depth - 1 <= 0
  BY <1>1, <1>2, NoMarks DEF Connected, RollBackWorks
<1>3. CASE RollBackWorks /\ depth - 1 > 0
  <2>1. marks' = Without({l \in DOMAIN marks : l > depth - 1})
    BY <1>3 DEF RollBackWorks
  <2>2. DOMAIN marks' \subseteq Nat /\ \A l \in DOMAIN marks' : marks'[l] \subseteq Writes
    BY <2>1 DEF Connected, Without
  <2> QED  BY <1>1, <1>3, <2>2 DEF Connected, RollBackWorks
<1>4. CASE RollBackFails
  BY <1>1, <1>4 DEF Connected, RollBackFails, connection
<1> QED  BY <1>2, <1>3, <1>4

LEMMA TxTypingStep == TxTyping /\ [TxNext]_txVars => TxTyping'
<1> SUFFICES ASSUME TxTyping, [TxNext]_txVars  PROVE TxTyping'
  OBVIOUS
<1> USE DEF TxTyping, TxTypeOK
<1>0. /\ frames \in Seq(CallKinds) /\ Len(frames) \in Nat
      /\ Connected /\ depth \in Nat
      /\ \A m \in Mutations, i \in Nat : i <= MaxNesting => <<m, i>> \in Writes
  BY LenProperties, TxConfigured DEF CallKinds, Connected, Writes
<1>1. ASSUME NEW m \in Mutations, Start(m)  PROVE TxTyping'
  BY <1>1 DEF Start, connection
<1>2. ASSUME NEW m \in Mutations, Write(m)  PROVE TxTyping'
  BY <1>0, <1>2 DEF Write
<1>3. ASSUME NEW m \in Mutations, Ddl(m)  PROVE TxTyping'
  BY <1>0, <1>3, NoMarks DEF Ddl
<1>4. ASSUME NEW m \in Mutations, Answer(m)  PROVE TxTyping'
  BY <1>4 DEF Answer, connection
<1>5. ASSUME NEW kind \in CallKinds, Enter(kind)  PROVE TxTyping'
  <2>1. CASE CanBegin /\ BeginTransaction /\ frames' = Append(frames, kind) /\ UNCHANGED throwing
    BY <1>0, <1>5, <2>1, BeginTypes, Pushed, TxConfigured DEF Enter, Connected, CallKinds
  <2>2. CASE ~CanBegin /\ throwing' = TRUE /\ UNCHANGED <<depth, connection, frames>>
    BY <1>5, <2>2 DEF Enter, connection
  <2> QED  BY <1>5, <2>1, <2>2 DEF Enter
<1>6. CASE StatementFails
  BY <1>6, NoMarks DEF StatementFails, connection
<1>7. CASE Return
  <2>1. Connected' /\ depth' = depth - 1
    BY <1>0, <1>7, CommitTypes DEF Return
  <2>2. /\ Len(frames) \in Nat \ {0}
        /\ frames' \in Seq(CallKinds)
        /\ Len(frames') = Len(frames) - 1
    BY <1>0, <1>7, Popped DEF Return
  <2>3. depth' \in Nat /\ depth' >= Len(frames') /\ Len(frames') <= MaxNesting
    BY <2>1, <2>2, TxConfigured
  <2>4. throwing' \in BOOLEAN /\ abandoned' \subseteq Mutations /\ UNCHANGED <<running, made, answer, leaked>>
    BY <1>7 DEF Return
  <2> QED  BY <2>1, <2>2, <2>3, <2>4 DEF Connected, CallKinds
<1>8. CASE UnwindWriter
  <2>1. Connected' /\ depth' \in Nat /\ (depth > 0 => depth' = depth - 1)
    BY <1>0, <1>8, RollBackTypes DEF UnwindWriter
  <2>2. /\ Len(frames) \in Nat \ {0}
        /\ frames' \in Seq(CallKinds)
        /\ Len(frames') = Len(frames) - 1
    BY <1>0, <1>8, Popped DEF UnwindWriter
  <2>3. depth' >= Len(frames') /\ Len(frames') <= MaxNesting
    BY <1>0, <2>1, <2>2, TxConfigured
  <2>4. abandoned' \subseteq Mutations /\ UNCHANGED <<running, throwing, made, answer, leaked>>
    BY <1>8 DEF UnwindWriter
  <2> QED  BY <2>1, <2>2, <2>3, <2>4 DEF Connected, CallKinds
<1>9. CASE UnwindHelper
  BY <1>0, <1>9, Popped, TxConfigured DEF UnwindHelper, connection, CallKinds
<1>10. CASE UNCHANGED txVars
  BY <1>10 DEF txVars
<1> QED  BY <1>1, <1>2, <1>3, <1>4, <1>5, <1>6, <1>7, <1>8, <1>9, <1>10 DEF TxNext, CallKinds

(* The counter, the connection and the calls keep their shape, for any     *)
(* number of mutations and any nesting, also when the counter is wrong.    *)
THEOREM TxTypeCorrect == TxSpec => []TxTypeOK
<1>1. TxTyping => TxTypeOK
  BY DEF TxTyping
<1> QED  BY TxTypingInit, TxTypingStep, <1>1, PTL DEF TxSpec

---------------------------------------------------------------------------
(* What holds until the helper leaks. *)

(* One mutation runs at a time, once, and only what runs has calls open.   *)
Single ==
    /\ \A m, n \in running : m = n
    /\ running = {} => frames = <<>> /\ ~throwing
    /\ \A m \in running : answer[m] = "none"
    /\ \A m \in Mutations : answer[m] = "none" /\ m \notin running => made[m] = {}

(* Every write of the connection was made, by the mutation it is marked with. *)
Signed ==
    /\ \A m \in Mutations : \A w \in made[m] : w[1] = m
    /\ \A w \in pending \cup kept : w \in made[w[1]]
    /\ \A l \in DOMAIN marks : \A w \in marks[l] : w \in made[w[1]]

(* Between a begin and the last return: what is open is the running        *)
(* mutation's, and holds all it wrote unless an exception is on its way.   *)
Within ==
    frames # <<>> =>
        /\ \A w \in pending : w[1] \in running
        /\ \A l \in DOMAIN marks : \A w \in marks[l] : w[1] \in running
        /\ \A m \in running : made[m] \cap kept = {}
        /\ ~throwing => open /\ \A m \in running : made[m] \subseteq pending
        /\ open \/ (pending = {} /\ DOMAIN marks = {})

(* Outside: what is open could not be ended, and the running mutation      *)
(* is kept, or not, as it is about to be told.                             *)
Outside ==
    frames = <<>> =>
        /\ \A w \in pending : w[1] \in abandoned
        /\ open \/ (pending = {} /\ DOMAIN marks = {})
        /\ \A m \in running : IF throwing THEN made[m] \cap kept = {} ELSE made[m] \subseteq kept

Reported ==
    \A m \in Mutations :
        /\ answer[m] = "ok" => made[m] \subseteq kept
        /\ answer[m] = "failed" /\ m \notin abandoned => made[m] \cap kept = {}

Ordered == depth = Len(frames) /\ Single /\ Signed /\ Within /\ Outside /\ Reported

TxInv == TxTyping /\ (leaked \/ Ordered)

LEMMA TxInvInit == TxInit => TxInv
<1> SUFFICES ASSUME TxInit  PROVE TxInv
  OBVIOUS
<1>1. TxTyping /\ depth = Len(frames)
  BY TxTypingInit, EmptySeq DEF TxInit
<1>2. DOMAIN marks = {}
  BY NoMarks DEF TxInit
<1>3. Single /\ Signed /\ Within /\ Outside /\ Reported
  BY <1>2 DEF TxInit, Single, Signed, Within, Outside, Reported
<1> QED  BY <1>1, <1>3 DEF TxInv, Ordered

LEMMA Named == \A w \in Writes : w[1] \in Mutations
  BY DEF Writes

LEMMA StartKeeps ==
  ASSUME TxTyping, Ordered, NEW m \in Mutations, Start(m)
  PROVE  Ordered'
<1>1. /\ running = {} /\ running' = {m} /\ answer[m] = "none" /\ made[m] = {}
      /\ frames = <<>> /\ ~throwing
      /\ UNCHANGED <<depth, open, pending, marks, kept, frames, throwing, made, answer, abandoned>>
  BY DEF Start, connection, Ordered, Single
<1>2. (depth = Len(frames))' /\ Single' /\ Signed' /\ Reported'
  BY <1>1 DEF Ordered, Single, Signed, Reported
<1>3. Within' /\ Outside'
  BY <1>1 DEF Ordered, Within, Outside
<1> QED  BY <1>2, <1>3 DEF Ordered

(* A write goes into the open transaction. *)
LEMMA WriteKeeps ==
  ASSUME TxTyping, Ordered, NEW m \in Mutations, Write(m)
  PROVE  Ordered'
<1> DEFINE w == <<m, Len(frames)>>
<1>1. /\ m \in running /\ frames # <<>> /\ ~throwing /\ open
      /\ pending' = pending \cup {w} /\ made' = [made EXCEPT ![m] = @ \cup {w}]
      /\ UNCHANGED <<depth, open, marks, kept, running, frames, throwing, answer, abandoned>>
  BY DEF Write, Ordered, Within
<1>2. w[1] = m
  OBVIOUS
<1> HIDE DEF w
<1>3. \A n \in Mutations : made'[n] = IF n = m THEN made[m] \cup {w} ELSE made[n]
  BY <1>1 DEF TxTyping, TxTypeOK
<1>4. w \notin kept
  BY <1>1, <1>2 DEF Ordered, Signed, Within
<1>5. Single'
  BY <1>1, <1>3 DEF Ordered, Single
<1>6. Signed'
  <2>1. \A n \in Mutations : \A v \in made'[n] : v[1] = n
    BY <1>2, <1>3 DEF Ordered, Signed
  <2>2. \A v \in pending' \cup kept' : v \in made'[v[1]]
    BY <1>1, <1>2, <1>3, Named DEF Ordered, Signed, TxTyping, TxTypeOK
  <2>3. \A l \in DOMAIN marks' : \A v \in marks'[l] : v \in made'[v[1]]
    BY <1>1, <1>3, Named DEF Ordered, Signed, TxTyping, TxTypeOK
  <2> QED  BY <2>1, <2>2, <2>3 DEF Signed
<1>7. Within'
  <2>1. \A v \in pending' : v[1] \in running'
    BY <1>1, <1>2 DEF Ordered, Within
  <2>2. \A l \in DOMAIN marks' : \A v \in marks'[l] : v[1] \in running'
    BY <1>1 DEF Ordered, Within
  <2>3. running \subseteq Mutations
    BY DEF TxTyping, TxTypeOK
  <2>4. \A n \in running' : made'[n] \cap kept' = {} /\ made'[n] \subseteq pending'
    BY <1>1, <1>3, <1>4, <2>3 DEF Ordered, Within
  <2> QED  BY <1>1, <2>1, <2>2, <2>4 DEF Within
<1>8. Outside'
  BY <1>1 DEF Outside
<1>9. Reported'
  BY <1>1, <1>3 DEF Ordered, Reported, Single
<1> QED  BY <1>1, <1>5, <1>6, <1>7, <1>8, <1>9 DEF Ordered

(* DDL commits what was left open, which nobody minds but who abandoned it. *)
LEMMA DdlKeeps ==
  ASSUME TxTyping, Ordered, NEW m \in Mutations, Ddl(m)
  PROVE  Ordered'
<1> DEFINE w == <<m, 0>>
<1>1. /\ m \in running /\ frames = <<>> /\ ~throwing /\ made[m] = {}
      /\ pending' = {} /\ kept' = kept \cup pending \cup {w} /\ made' = [made EXCEPT ![m] = {w}]
      /\ UNCHANGED <<depth, running, frames, throwing, answer, abandoned>>
  BY DEF Ddl
<1>2. DOMAIN marks' = {}
  BY NoMarks DEF Ddl
<1>3. w[1] = m
  OBVIOUS
<1> HIDE DEF w
<1>4. \A n \in Mutations : made'[n] = IF n = m THEN {w} ELSE made[n]
  BY <1>1 DEF TxTyping, TxTypeOK
<1>5. Single'
  BY <1>1, <1>4 DEF Ordered, Single
<1>6. Signed'
  <2>1. \A n \in Mutations : \A v \in made'[n] : v[1] = n
    BY <1>3, <1>4 DEF Ordered, Signed
  <2>2. \A v \in pending \cup kept : v[1] \in Mutations /\ v[1] # m /\ v \in made[v[1]]
    BY <1>1, Named DEF Ordered, Signed, TxTyping, TxTypeOK
  <2>3. \A v \in pending' \cup kept' : v \in made'[v[1]]
    BY <1>1, <1>3, <1>4, <2>2
  <2> QED  BY <1>2, <2>1, <2>3 DEF Signed
<1>7. Within'
  BY <1>1 DEF Within
<1>8. Outside'
  <2>1. \A n \in running' : n = m
    BY <1>1 DEF Ordered, Single
  <2> QED  BY <1>1, <1>2, <1>4, <2>1 DEF Outside
<1>9. Reported'
  <2>1. ASSUME NEW n \in Mutations, answer'[n] = "ok"  PROVE made'[n] \subseteq kept'
    BY <1>1, <1>4, <2>1 DEF Ordered, Reported
  <2>2. ASSUME NEW n \in Mutations, answer'[n] = "failed", n \notin abandoned'
        PROVE  made'[n] \cap kept' = {}
    <3>1. n # m /\ made'[n] = made[n] /\ made[n] \cap kept = {}
      BY <1>1, <1>4, <2>2 DEF Ordered, Reported, Single
    <3>2. \A v \in made[n] : v[1] = n
      BY DEF Ordered, Signed
    <3>3. \A v \in pending : v[1] # n
      BY <1>1, <2>2 DEF Ordered, Outside
    <3> QED  BY <1>1, <1>3, <3>1, <3>2, <3>3
  <2> QED  BY <2>1, <2>2 DEF Reported
<1> QED  BY <1>1, <1>5, <1>6, <1>7, <1>8, <1>9 DEF Ordered

LEMMA AnswerKeeps ==
  ASSUME TxTyping, Ordered, NEW m \in Mutations, Answer(m)
  PROVE  Ordered'
<1>1. /\ m \in running /\ frames = <<>> /\ running' = {} /\ ~throwing'
      /\ answer' = [answer EXCEPT ![m] = IF throwing THEN "failed" ELSE "ok"]
      /\ UNCHANGED <<depth, open, pending, marks, kept, frames, made, abandoned>>
  BY DEF Answer, connection
<1>2. \A n \in Mutations : answer'[n] = IF n = m THEN IF throwing THEN "failed" ELSE "ok" ELSE answer[n]
  BY <1>1 DEF TxTyping, TxTypeOK
<1>3. \A n \in running : n = m
  BY <1>1 DEF Ordered, Single
<1>4. Single'
  BY <1>1, <1>2, <1>3 DEF Ordered, Single
<1>5. Signed' /\ Within' /\ Outside'
  BY <1>1 DEF Ordered, Signed, Within, Outside
<1>6. Reported'
  BY <1>1, <1>2 DEF Ordered, Outside, Reported
<1> QED  BY <1>1, <1>4, <1>5, <1>6 DEF Ordered

(* A begin: a transaction of the running mutation's own, or a savepoint    *)
(* within it; a begin that is refused has written nothing.                 *)
LEMMA EnterKeeps ==
  ASSUME TxTyping, Ordered, NEW kind \in CallKinds, Enter(kind)
  PROVE  Ordered'
<1>1. /\ running # {} /\ ~throwing /\ frames \in Seq(CallKinds) /\ Len(frames) \in Nat
      /\ frames = <<>> => \A m \in running : made[m] = {}
      /\ UNCHANGED <<running, made, answer, abandoned>>
  BY LenProperties DEF Enter, TxTyping, TxTypeOK, CallKinds
<1>2. running \subseteq Mutations
  BY DEF TxTyping, TxTypeOK
<1>3. CASE CanBegin /\ BeginTransaction /\ frames' = Append(frames, kind) /\ UNCHANGED throwing
  <2>1. frames' # <<>> /\ depth' = Len(frames')
    BY <1>1, <1>3, Pushed DEF Ordered, BeginTransaction
  <2>2. kept' = kept
    BY <1>3 DEF BeginTransaction
  <2>3. CASE frames = <<>>
    <3>1. open' /\ pending' = {} /\ DOMAIN marks' = {}
      BY <1>1, <1>3, <2>3, NoFrames, NoMarks DEF BeginTransaction, Ordered
    <3>2. Single' /\ Reported'
      BY <1>1, <1>3, <2>2 DEF Ordered, Single, Reported
    <3>3. Signed'
      BY <1>1, <2>2, <3>1 DEF Ordered, Signed
    <3>4. Within' /\ Outside'
      BY <1>1, <2>1, <2>3, <3>1 DEF Within, Outside
    <3> QED  BY <2>1, <3>2, <3>3, <3>4 DEF Ordered
  <2>4. CASE frames # <<>>
    <3>1. depth # 0 /\ open
      BY <1>1, <2>4, NoFrames DEF Ordered, Within
    <3>2. /\ open' /\ pending' = pending
          /\ marks' = [l \in DOMAIN marks \cup {depth} |-> IF l = depth THEN pending ELSE marks[l]]
      BY <1>3, <3>1 DEF BeginTransaction
    <3>3. Single' /\ Reported'
      BY <1>1, <1>3, <2>2, <2>4 DEF Ordered, Single, Reported
    <3>4. Signed'
      BY <1>1, <2>2, <3>2 DEF Ordered, Signed
    <3>5. Within' /\ Outside'
      BY <1>1, <1>3, <2>1, <2>2, <2>4, <3>2 DEF Ordered, Within, Outside
    <3> QED  BY <2>1, <3>3, <3>4, <3>5 DEF Ordered
  <2> QED  BY <2>3, <2>4
<1>4. CASE ~CanBegin /\ throwing' = TRUE /\ UNCHANGED <<depth, connection, frames>>
  <2>1. frames = <<>> /\ UNCHANGED <<depth, open, pending, marks, kept, frames>>
    BY <1>1, <1>4, NoFrames DEF CanBegin, Ordered, connection
  <2>2. Single' /\ Signed' /\ Reported' /\ Within'
    BY <1>1, <2>1 DEF Ordered, Single, Signed, Reported, Within
  <2>3. Outside'
    BY <1>1, <2>1 DEF Ordered, Outside
  <2> QED  BY <2>1, <2>2, <2>3 DEF Ordered
<1> QED  BY <1>3, <1>4 DEF Enter

LEMMA FailureKeeps ==
  ASSUME TxTyping, Ordered, StatementFails
  PROVE  Ordered'
<1>1. /\ frames # <<>> /\ throwing' = TRUE
      /\ UNCHANGED <<depth, kept, running, frames, made, answer, abandoned>>
  BY DEF StatementFails, connection
<1>2. \/ pending' = pending /\ marks' = marks /\ open' = open
      \/ pending' = {} /\ DOMAIN marks' = {}
  BY NoMarks DEF StatementFails, connection
<1>3. Single' /\ Reported' /\ Outside'
  BY <1>1 DEF Ordered, Single, Reported, Outside
<1>4. Signed'
  BY <1>1, <1>2 DEF Ordered, Signed
<1>5. Within'
  BY <1>1, <1>2 DEF Ordered, Within
<1> QED  BY <1>1, <1>3, <1>4, <1>5 DEF Ordered

(* A return within others releases a savepoint, the outermost commits; the *)
(* commit that fails throws, and the outermost leaves its transaction open. *)
LEMMA ReturnKeeps ==
  ASSUME TxTyping, Ordered, Return
  PROVE  Ordered'
<1>1. /\ frames # <<>> /\ ~throwing /\ open
      /\ frames \in Seq(CallKinds) /\ Len(frames) \in Nat \ {0}
      /\ Len(frames') = Len(frames) - 1
      /\ frames' = <<>> <=> Len(frames) = 1
      /\ UNCHANGED <<running, made, answer>>
  BY Popped DEF Return, TxTyping, TxTypeOK, CallKinds, Ordered, Within
<1>2. running \subseteq Mutations
  BY DEF TxTyping, TxTypeOK
<1>3. CASE CommitWorks /\ UNCHANGED <<throwing, abandoned>>
  <2>1. depth' = Len(frames')
    BY <1>1, <1>3 DEF Ordered, CommitWorks
  <2>2. Single'
    BY <1>1, <1>3 DEF Ordered, Single
  <2>3. CASE Len(frames) = 1
    <3>1. frames' = <<>> /\ kept' = kept \cup pending /\ pending' = {} /\ DOMAIN marks' = {}
      BY <1>1, <1>3, <2>3, NoMarks DEF CommitWorks, Ordered
    <3>2. Signed'
      BY <1>1, <3>1 DEF Ordered, Signed
    <3>3. Within' /\ Outside'
      BY <1>1, <1>3, <3>1 DEF Ordered, Within, Outside
    <3>4. ASSUME NEW n \in Mutations, answer[n] = "failed", n \notin abandoned
          PROVE  made[n] \cap pending = {}
      BY <1>1, <3>4 DEF Ordered, Single, Signed, Within
    <3>5. Reported'
      BY <1>1, <1>3, <3>1, <3>4 DEF Ordered, Reported
    <3> QED  BY <2>1, <2>2, <3>2, <3>3, <3>5 DEF Ordered
  <2>4. CASE Len(frames) # 1
    <3>1. frames' # <<>> /\ UNCHANGED <<open, pending, kept>> /\ marks' = Without({depth - 1})
      BY <1>1, <1>3, <2>4 DEF CommitWorks, Ordered
    <3>2. DOMAIN marks' \subseteq DOMAIN marks /\ \A l \in DOMAIN marks' : marks'[l] = marks[l]
      BY <3>1 DEF Without
    <3>3. Signed'
      BY <1>1, <3>1, <3>2 DEF Ordered, Signed
    <3>4. Within' /\ Outside' /\ Reported'
      BY <1>1, <1>3, <3>1, <3>2 DEF Ordered, Within, Outside, Reported
    <3> QED  BY <2>1, <2>2, <3>3, <3>4 DEF Ordered
  <2> QED  BY <2>3, <2>4
<1>4. CASE /\ CommitFails /\ throwing' = TRUE
           /\ abandoned' = IF Len(frames) = 1 /\ open THEN abandoned \cup running ELSE abandoned
  <2>1. UNCHANGED <<open, pending, marks, kept>> /\ depth' = Len(frames')
    BY <1>1, <1>4 DEF CommitFails, connection, Ordered
  <2>2. Single'
    BY <1>1 DEF Ordered, Single
  <2>3. Signed' /\ Within'
    BY <1>1, <1>4, <2>1 DEF Ordered, Signed, Within
  <2>4. Outside'
    BY <1>1, <1>4, <2>1 DEF Ordered, Within, Outside
  <2>5. Reported'
    BY <1>1, <1>4, <2>1 DEF Ordered, Reported
  <2> QED  BY <2>1, <2>2, <2>3, <2>4, <2>5 DEF Ordered
<1> QED  BY <1>3, <1>4 DEF Return

(* A rollback, to the level of a savepoint or of everything; the outermost *)
(* that fails leaves its transaction open.                                 *)
LEMMA UnwindKeeps ==
  ASSUME TxTyping, Ordered, UnwindWriter
  PROVE  Ordered'
<1>1. /\ frames # <<>> /\ throwing /\ throwing'
      /\ Len(frames) \in Nat \ {0}
      /\ Len(frames') = Len(frames) - 1
      /\ frames' = <<>> <=> Len(frames) = 1
      /\ UNCHANGED <<running, made, answer>>
  BY Popped DEF UnwindWriter, TxTyping, TxTypeOK, CallKinds
<1>2. depth' = Len(frames') /\ kept' = kept /\ abandoned \subseteq abandoned'
  BY <1>1 DEF UnwindWriter, RollBackWorks, RollBackFails, connection, Ordered
<1>3. Single' /\ Reported'
  BY <1>1, <1>2 DEF Ordered, Single, Reported
<1>4. CASE RollBackWorks /\ Len(frames) = 1
  <2>1. frames' = <<>> /\ pending' = {} /\ DOMAIN marks' = {}
    BY <1>1, <1>4, NoMarks DEF RollBackWorks, Ordered
  <2>2. Signed'
    BY <1>1, <1>2, <2>1 DEF Ordered, Signed
  <2>3. Within' /\ Outside'
    BY <1>1, <1>2, <2>1 DEF Ordered, Within, Outside
  <2> QED  BY <1>2, <1>3, <2>2, <2>3 DEF Ordered
<1>5. CASE RollBackWorks /\ Len(frames) # 1
  <2>1. frames' # <<>> /\ depth - 1 > 0 /\ depth - 1 \in DOMAIN marks
    BY <1>1, <1>5 DEF Ordered, RollBackWorks
  <2>2. /\ pending' = marks[depth - 1]
        /\ DOMAIN marks' \subseteq DOMAIN marks
        /\ \A l \in DOMAIN marks' : marks'[l] = marks[l]
        /\ open' = open /\ open
    BY <1>1, <1>5, <2>1 DEF RollBackWorks, Without, Ordered, Within
  <2>3. Signed'
    BY <1>1, <1>2, <2>1, <2>2 DEF Ordered, Signed
  <2>4. Within' /\ Outside'
    BY <1>1, <1>2, <2>1, <2>2 DEF Ordered, Within, Outside
  <2> QED  BY <1>2, <1>3, <2>3, <2>4 DEF Ordered
<1>6. CASE /\ RollBackFails
           /\ abandoned' = IF Len(frames) = 1 /\ open THEN abandoned \cup running ELSE abandoned
  <2>1. UNCHANGED <<open, pending, marks>>
    BY <1>6 DEF RollBackFails, connection
  <2>2. Signed' /\ Within'
    BY <1>1, <1>2, <2>1 DEF Ordered, Signed, Within
  <2>3. Outside'
    BY <1>1, <1>2, <1>6, <2>1 DEF Ordered, Within, Outside
  <2> QED  BY <1>2, <1>3, <2>2, <2>3 DEF Ordered
<1> QED  BY <1>4, <1>5, <1>6 DEF UnwindWriter

LEMMA TxInvStep == TxInv /\ [TxNext]_txVars => TxInv'
<1> SUFFICES ASSUME TxInv, [TxNext]_txVars  PROVE TxInv'
  OBVIOUS
<1>1. TxTyping /\ TxTyping'
  BY TxTypingStep DEF TxInv
<1>2. SUFFICES ASSUME ~leaked'  PROVE Ordered'
  BY <1>1 DEF TxInv
<1>3. ~leaked /\ Ordered
  <2>1. leaked' = leaked \/ leaked' = TRUE
    BY DEF TxNext, txVars, Start, Write, Ddl, Answer, Enter, StatementFails, Return, UnwindWriter, UnwindHelper
  <2> QED  BY <1>2, <2>1 DEF TxInv
<1>4. ASSUME NEW m \in Mutations, Start(m)  PROVE Ordered'
  BY <1>1, <1>3, <1>4, StartKeeps
<1>5. ASSUME NEW m \in Mutations, Write(m)  PROVE Ordered'
  BY <1>1, <1>3, <1>5, WriteKeeps
<1>6. ASSUME NEW m \in Mutations, Ddl(m)  PROVE Ordered'
  BY <1>1, <1>3, <1>6, DdlKeeps
<1>7. ASSUME NEW m \in Mutations, Answer(m)  PROVE Ordered'
  BY <1>1, <1>3, <1>7, AnswerKeeps
<1>8. ASSUME NEW kind \in CallKinds, Enter(kind)  PROVE Ordered'
  BY <1>1, <1>3, <1>8, EnterKeeps
<1>9. CASE StatementFails
  BY <1>1, <1>3, <1>9, FailureKeeps
<1>10. CASE Return
  BY <1>1, <1>3, <1>10, ReturnKeeps
<1>11. CASE UnwindWriter
  BY <1>1, <1>3, <1>11, UnwindKeeps
<1>12. CASE UnwindHelper
  BY <1>2, <1>12 DEF UnwindHelper
<1>13. CASE UNCHANGED txVars
  BY <1>3, <1>13 DEF txVars, Ordered, Single, Signed, Within, Outside, Reported
<1> QED  BY <1>4, <1>5, <1>6, <1>7, <1>8, <1>9, <1>10, <1>11, <1>12, <1>13 DEF TxNext, CallKinds

(* A mutation that is answered with success is kept, and one answered with *)
(* a failure is not unless its transaction could not be ended, until       *)
(* the panel's helper leaks a level of the counter - for any number of     *)
(* mutations, any nesting, and whatever fails.                             *)
THEOREM WholeOrNotAtAll == TxSpec => []MutationsWhole
<1>1. TxInv => MutationsWhole
  BY DEF TxInv, Ordered, Reported, MutationsWhole
<1> QED  BY TxInvInit, TxInvStep, <1>1, PTL DEF TxSpec

---------------------------------------------------------------------------
(***************************************************************************)
(* For any number of keys, rows and promises: the answers of BatchedReads  *)
(* agree between two mutations.                                            *)
(*                                                                         *)
(* A key is in one of two conditions.  Either nothing is remembered of it, *)
(* and then nobody has been told anything but failures, and whoever waits  *)
(* for it has it on the list of the next query; or an answer is            *)
(* remembered, which the table has given since the last mutation, and      *)
(* nobody has been told another.                                           *)
(***************************************************************************)

USE DEF Rows

(* Nothing is remembered of k. *)
Open(k) == results[k] = Unread /\ given[k] \subseteq {Failed}

(* An answer is remembered, and it is the one that was given. *)
Closed(k) ==
    /\ results[k] \in valid[k]
    /\ given[k] \subseteq {results[k], Failed}
    /\ k \notin pendingKeys

(* Whoever waits for k is going to be told. *)
Served(p) == promise[p].live => promise[p].key \in pendingKeys \/ results[promise[p].key] # Unread

ReadInv ==
    /\ ReadTypeOK
    /\ \A k \in Keys : table[k] \in valid[k]
    /\ \A k \in Keys : Open(k) \/ Closed(k)
    /\ \A p \in Promises : Served(p)

(* What is in the table and what is remembered are rows, and a mark is no  *)
(* row.                                                                    *)
LEMMA NotRows == Unread \notin Rows /\ Failed \notin Rows
  BY ReadsConfigured

LEMMA Agreement == ReadInv => AnswersAgree
  BY DEF ReadInv, Open, Closed, AnswersAgree

LEMMA ReadInitially == ReadInit => ReadInv
  BY DEF ReadInit, ReadInv, ReadTypeOK, Open, Served, Idling, Waits

(* A promise that waits has a key of the bucket, and a live one waits. *)
LEMMA Awaiting ==
  ASSUME ReadTypeOK, NEW p \in Promises
  PROVE  /\ Awaited(p) => promise[p] \in Waits
         /\ promise[p].live => promise[p] \in Waits
  BY DEF ReadTypeOK, Awaited, Waits, Idling

LEMMA KeyedKeeps ==
  ASSUME ReadInv, NEW p \in Promises, NEW k \in Keys, Keyed(p, k)
  PROVE  ReadInv'
<1>1. ReadTypeOK'
  BY DEF ReadInv, ReadTypeOK, Keyed, Waits
<1>2. \A j \in Keys : table'[j] \in valid'[j]
  BY DEF ReadInv, Keyed
<1>3. \A j \in Keys : (Open(j) \/ Closed(j))'
  BY NotRows DEF ReadInv, ReadTypeOK, Keyed, Open, Closed
<1>4. \A q \in Promises : Served(q)'
  BY DEF ReadInv, ReadTypeOK, Keyed, Served
<1> QED  BY <1>1, <1>2, <1>3, <1>4 DEF ReadInv

(* What settling a promise does to the history: somebody who waits is told. *)
LEMMA Told ==
  ASSUME ReadTypeOK, NEW p \in Promises, Awaited(p), NEW told \in Rows \cup {Failed}, Settle(p, told)
  PROVE  /\ promise' \in [Promises -> Waits \cup {Idling}]
         /\ given' \in [Keys -> SUBSET (Rows \cup {Failed})]
         /\ \A q \in Promises : promise'[q].live => q # p /\ promise'[q] = promise[q]
         /\ \A k \in Keys : \/ given'[k] = given[k]
                            \/ promise[p].live /\ k = promise[p].key /\ given'[k] = given[k] \cup {told}
<1>1. promise[p] \in Waits
  BY Awaiting
<1>2. promise' \in [Promises -> Waits \cup {Idling}]
  BY DEF ReadTypeOK, Settle
<1>3. given' \in [Keys -> SUBSET (Rows \cup {Failed})]
  BY <1>1 DEF ReadTypeOK, Settle, Waits
<1>4. \A q \in Promises : promise'[q].live => q # p /\ promise'[q] = promise[q]
  BY DEF ReadTypeOK, Settle, Idling
<1>5. \A k \in Keys : \/ given'[k] = given[k]
                      \/ promise[p].live /\ k = promise[p].key /\ given'[k] = given[k] \cup {told}
  BY <1>1 DEF ReadTypeOK, Settle, Waits
<1> QED  BY <1>2, <1>3, <1>4, <1>5

LEMMA FlushKeeps ==
  ASSUME ReadInv, NEW p \in Promises, Flush(p)
  PROVE  ReadInv'
<1> DEFINE key == promise[p].key
<1>1. Awaited(p) /\ key \in pendingKeys /\ key \in Keys /\ table[key] \in Rows
  BY DEF ReadInv, ReadTypeOK, Flush
<1>2. Settle(p, table[key])
  BY DEF Flush
<1>3. /\ promise' \in [Promises -> Waits \cup {Idling}]
      /\ given' \in [Keys -> SUBSET (Rows \cup {Failed})]
      /\ \A q \in Promises : promise'[q].live => q # p /\ promise'[q] = promise[q]
      /\ \A k \in Keys : \/ given'[k] = given[k]
                         \/ k = key /\ given'[k] = given[k] \cup {table[key]}
  BY <1>1, <1>2, Told DEF ReadInv
<1>4. /\ table' = table /\ valid' = valid /\ pendingKeys' = {}
      /\ results' = [k \in Keys |-> IF k \in pendingKeys THEN table[k] ELSE results[k]]
  BY DEF Flush
<1>5. ReadTypeOK'
  BY <1>3, <1>4 DEF ReadInv, ReadTypeOK
<1>6. \A k \in Keys : table'[k] \in valid'[k]
  BY <1>4 DEF ReadInv
<1>7. ASSUME NEW k \in Keys
      PROVE  (Open(k) \/ Closed(k))'
  <2>1. CASE k \in pendingKeys
    <3>1. given[k] \subseteq {Failed} /\ results'[k] = table[k] /\ table[k] \in valid[k]
      BY <2>1, <1>4 DEF ReadInv, Open, Closed
    <3> QED  BY <3>1, <1>3, <1>4 DEF Closed
  <2>2. CASE k \notin pendingKeys
    <3>1. given'[k] = given[k] /\ results'[k] = results[k]
      BY <2>2, <1>1, <1>3, <1>4
    <3> QED  BY <3>1, <1>4 DEF ReadInv, Open, Closed
  <2> QED  BY <2>1, <2>2
<1>8. ASSUME NEW q \in Promises
      PROVE  Served(q)'
  <2>1. SUFFICES ASSUME promise'[q].live  PROVE results'[promise'[q].key] # Unread
    BY DEF Served
  <2>2. promise'[q] = promise[q] /\ promise[q] \in Waits /\ promise[q].key \in Keys
    BY <2>1, <1>3, Awaiting DEF ReadInv, Waits
  <2>3. promise[q].key \in pendingKeys \/ results[promise[q].key] # Unread
    BY <2>1, <2>2 DEF ReadInv, Served
  <2>4. table[promise[q].key] # Unread
    BY <2>2, NotRows DEF ReadInv, ReadTypeOK
  <2> QED  BY <2>2, <2>3, <2>4, <1>4
<1> QED  BY <1>5, <1>6, <1>7, <1>8 DEF ReadInv

LEMMA FlushFailsKeeps ==
  ASSUME ReadInv, NEW p \in Promises, FlushFails(p)
  PROVE  ReadInv'
<1>1. /\ promise' \in [Promises -> Waits \cup {Idling}]
      /\ given' \in [Keys -> SUBSET (Rows \cup {Failed})]
      /\ \A q \in Promises : promise'[q].live => promise'[q] = promise[q]
      /\ \A k \in Keys : given'[k] \subseteq given[k] \cup {Failed}
  BY Told DEF ReadInv, FlushFails
<1>2. UNCHANGED <<table, pendingKeys, results, valid>>
  BY DEF FlushFails
<1>3. ReadTypeOK'
  BY <1>1, <1>2 DEF ReadInv, ReadTypeOK
<1>4. \A k \in Keys : (Open(k) \/ Closed(k))'
  BY <1>1, <1>2 DEF ReadInv, Open, Closed
<1>5. \A q \in Promises : Served(q)'
  BY <1>1, <1>2 DEF ReadInv, Served
<1> QED  BY <1>2, <1>3, <1>4, <1>5 DEF ReadInv

LEMMA RecallKeeps ==
  ASSUME ReadInv, NEW p \in Promises, Recall(p)
  PROVE  ReadInv'
<1> DEFINE key    == promise[p].key
           told   == IF results[key] = Unread THEN Absent ELSE results[key]
<1>1. Awaited(p) /\ key \in Keys /\ key \notin pendingKeys /\ Settle(p, told)
  BY Awaiting DEF ReadInv, Recall, Waits
<1>2. told \in Rows \cup {Failed}
  BY <1>1 DEF ReadInv, ReadTypeOK
<1>3. /\ promise' \in [Promises -> Waits \cup {Idling}]
      /\ given' \in [Keys -> SUBSET (Rows \cup {Failed})]
      /\ \A q \in Promises : promise'[q].live => promise'[q] = promise[q]
      /\ \A k \in Keys : \/ given'[k] = given[k]
                         \/ promise[p].live /\ k = key /\ given'[k] = given[k] \cup {told}
  BY <1>1, <1>2, Told DEF ReadInv
<1>4. UNCHANGED <<table, pendingKeys, results, valid>>
  BY DEF Recall
<1>5. promise[p].live => Closed(key) /\ told = results[key]
  BY <1>1 DEF ReadInv, Served, Open
<1>6. ReadTypeOK'
  BY <1>3, <1>4 DEF ReadInv, ReadTypeOK
<1>7. \A k \in Keys : (Open(k) \/ Closed(k))'
  BY <1>3, <1>4, <1>5 DEF ReadInv, Open, Closed
<1>8. \A q \in Promises : Served(q)'
  BY <1>3, <1>4 DEF ReadInv, Served
<1> QED  BY <1>4, <1>6, <1>7, <1>8 DEF ReadInv

(* A mutation begins anew, for nobody waits when it is started. *)
LEMMA MutateKeeps ==
  ASSUME ReadInv, NEW k \in Keys, NEW r \in Rows, Mutate(k, r)
  PROVE  ReadInv'
<1>1. table' \in [Keys -> Rows] /\ valid' = [j \in Keys |-> {table'[j]}]
  BY DEF ReadInv, ReadTypeOK, Mutate
<1>2. ReadTypeOK'
  BY <1>1 DEF ReadInv, ReadTypeOK, Mutate, Reset
<1>3. \A j \in Keys : Open(j)'
  BY DEF Mutate, Reset, Open
<1>4. \A q \in Promises : Served(q)'
  BY DEF Mutate, Served
<1> QED  BY <1>1, <1>2, <1>3, <1>4 DEF ReadInv

LEMMA OthersWriteKeeps ==
  ASSUME ReadInv, NEW k \in Keys, NEW r \in Rows, OthersWrite(k, r)
  PROVE  ReadInv'
<1>1. ReadTypeOK'
  BY DEF ReadInv, ReadTypeOK, OthersWrite
<1>2. \A j \in Keys : table'[j] \in valid'[j] /\ valid[j] \subseteq valid'[j]
  BY DEF ReadInv, ReadTypeOK, OthersWrite
<1>3. \A j \in Keys : (Open(j) \/ Closed(j))'
  BY <1>2 DEF ReadInv, OthersWrite, Open, Closed
<1>4. \A q \in Promises : Served(q)'
  BY DEF ReadInv, OthersWrite, Served
<1> QED  BY <1>1, <1>2, <1>3, <1>4 DEF ReadInv

LEMMA GiveUpKeeps ==
  ASSUME ReadInv, NEW p \in Promises, GiveUp(p)
  PROVE  ReadInv'
<1>1. promise[p] \in Waits
  BY Awaiting DEF ReadInv, GiveUp
<1>2. ReadTypeOK'
  BY <1>1 DEF ReadInv, ReadTypeOK, GiveUp, Waits
<1>3. \A q \in Promises : promise'[q].live => promise'[q] = promise[q]
  BY <1>1 DEF ReadInv, ReadTypeOK, GiveUp, Waits
<1>4. UNCHANGED <<table, pendingKeys, results, valid, given>>
  BY DEF GiveUp
<1>5. \A k \in Keys : (Open(k) \/ Closed(k))'
  BY <1>4 DEF ReadInv, Open, Closed
<1>6. \A q \in Promises : Served(q)'
  BY <1>3, <1>4 DEF ReadInv, Served
<1> QED  BY <1>2, <1>4, <1>5, <1>6 DEF ReadInv

LEMMA ReadStepKeeps == ReadInv /\ [ReadNext]_readVars => ReadInv'
<1> SUFFICES ASSUME ReadInv, [ReadNext]_readVars  PROVE ReadInv'
  OBVIOUS
<1>1. ASSUME NEW p \in Promises, NEW k \in Keys, Keyed(p, k)  PROVE ReadInv'
  BY <1>1, KeyedKeeps
<1>2. ASSUME NEW p \in Promises, Flush(p)  PROVE ReadInv'
  BY <1>2, FlushKeeps
<1>3. ASSUME NEW p \in Promises, FlushFails(p)  PROVE ReadInv'
  BY <1>3, FlushFailsKeeps
<1>4. ASSUME NEW p \in Promises, Recall(p)  PROVE ReadInv'
  BY <1>4, RecallKeeps
<1>5. ASSUME NEW p \in Promises, GiveUp(p)  PROVE ReadInv'
  BY <1>5, GiveUpKeeps
<1>6. ASSUME NEW k \in Keys, NEW r \in Rows, Mutate(k, r)  PROVE ReadInv'
  BY <1>6, MutateKeeps
<1>7. ASSUME NEW k \in Keys, NEW r \in Rows, OthersWrite(k, r)  PROVE ReadInv'
  BY <1>7, OthersWriteKeeps
<1>8. CASE UNCHANGED readVars
  BY <1>8 DEF readVars, ReadInv, ReadTypeOK, Open, Closed, Served
<1> QED  BY <1>1, <1>2, <1>3, <1>4, <1>5, <1>6, <1>7, <1>8 DEF ReadNext

LEMMA ReadInvariant == ReadSpec => []ReadInv
  BY ReadInitially, ReadStepKeeps, PTL DEF ReadSpec

(* Between two mutations of a document all who wait for one key are told   *)
(* one thing, which the table has said since the first of the two, or of a *)
(* failure - for any number of keys, rows and promises, in any order.      *)
THEOREM OneAnswer == ReadSpec => []AnswersAgree
  BY ReadInvariant, Agreement, PTL

---------------------------------------------------------------------------
(***************************************************************************)
(* For any extensions in any order: who is left out of the schema does not *)
(* fit in with those who are kept, but for the two cases ApiExtensions     *)
(* names.                                                                  *)
(*                                                                         *)
(* Who could not be read, though it answers, serves a field of an earlier  *)
(* candidate; if that one is kept, the two do not fit together.  Who did   *)
(* not fit when it was tried fits later only if one that was tried later   *)
(* adds what it uses: what is kept already needs nothing more.             *)
(***************************************************************************)

All == 1..Len(registered)

(* The places looked at so far. *)
Looked == IF stage = "registering" THEN {}
          ELSE IF stage = "reading" THEN {i \in All : i < next} ELSE All

(* The candidates tried so far. *)
Tried == IF stage = "adding" THEN {candidates[k] : k \in {l \in DOMAIN candidates : l < next}}
         ELSE IF stage = "built" THEN ToSet(candidates) ELSE {}

(* c is left out, and would fit only by what a later one adds. *)
Missed(c) ==
    Builds(keeping \cup {c}) =>
        \E j \in keeping : j > c /\ registered[j].adds \cap registered[c].uses # {}

(* i serves a field an earlier candidate has claimed. *)
Clashes(i) == \E j \in ToSet(candidates) : j < i /\ registered[j].serves \cap registered[i].serves # {}

(* Candidates stand in the order of registration, and keep the rules. *)
Listed ==
    /\ stage = "registering" => next = 1
    /\ stage = "reading" => Len(candidates) < next /\ next <= Len(registered) + 1
    /\ stage # "reading" => Len(candidates) <= Len(registered)
    /\ \A c \in ToSet(candidates) : c \in Looked /\ Sound(registered[c])
    /\ \A k, l \in DOMAIN candidates : k < l => candidates[k] < candidates[l]

Claims ==
    /\ \A f \in claimed : \E c \in ToSet(candidates) : f \in registered[c].serves
    /\ \A i \in Looked : i \in ToSet(candidates) \/ ~Sound(registered[i]) \/ Clashes(i)

Chosen ==
    /\ built = keeping /\ keeping \subseteq Tried /\ Builds(keeping)
    /\ \A c \in Tried : c \in keeping \/ Missed(c)

ExtensionInv == ExtensionTypeOK /\ Listed /\ Claims /\ Chosen

LEMMA ExtensionInitially == ExtensionInit => ExtensionInv
<1> SUFFICES ASSUME ExtensionInit  PROVE ExtensionInv
  OBVIOUS
<1>1. registered \in Seq(Offered) /\ Len(registered) = 0 /\ candidates \in Seq(Places) /\ Len(candidates) = 0
  BY EmptySeq DEF ExtensionInit
<1>2. DOMAIN candidates = {}
  <2>1. Len(candidates) = 0
    BY EmptySeq DEF ExtensionInit
  <2> QED  BY <1>1, <2>1, LenProperties
<1>3. ExtensionTypeOK
  BY <1>1, ExtensionsConfigured DEF ExtensionInit, ExtensionTypeOK
<1>4. ToSet(candidates) = {} /\ Looked = {} /\ Tried = {}
  BY <1>2 DEF ToSet, Looked, Tried, ExtensionInit
<1>5. Listed /\ Claims
  BY <1>1, <1>2, <1>4 DEF Listed, Claims, ExtensionInit
<1>6. Chosen
  BY <1>4 DEF Chosen, Builds, ExtensionInit
<1> QED  BY <1>3, <1>5, <1>6 DEF ExtensionInv

(* What is tried is a candidate, which is a place that was looked at. *)
LEMMA Members ==
  ASSUME ExtensionInv
  PROVE  /\ registered \in Seq(Offered) /\ Len(registered) \in Nat /\ next \in Nat
         /\ candidates \in Seq(Places) /\ Len(candidates) \in Nat /\ DOMAIN candidates = 1..Len(candidates)
         /\ \A i \in All : registered[i] \in Extension
         /\ Tried \subseteq ToSet(candidates) /\ ToSet(candidates) \subseteq Looked /\ Looked \subseteq All
<1>1. /\ registered \in Seq(Offered) /\ Len(registered) \in Nat
      /\ candidates \in Seq(Places) /\ Len(candidates) \in Nat /\ DOMAIN candidates = 1..Len(candidates)
  BY LenProperties DEF ExtensionInv, ExtensionTypeOK
<1>2. next \in Nat
  BY ExtensionsConfigured DEF ExtensionInv, ExtensionTypeOK
<1>3. \A i \in All : registered[i] \in Extension
  BY <1>1, LenProperties, ExtensionsConfigured DEF All
<1>4. Tried \subseteq ToSet(candidates) /\ ToSet(candidates) \subseteq Looked /\ Looked \subseteq All
  BY DEF ExtensionInv, Listed, Tried, Looked, ToSet
<1> QED  BY <1>1, <1>2, <1>3, <1>4

(* The property, once the schema is built. *)
LEMMA Fitting == ExtensionInv => OthersAreKept
<1> SUFFICES ASSUME ExtensionInv, stage = "built", NEW i \in All, LeftOutThoughFit(i)
             PROVE  \/ \E j \in keeping : j > i /\ registered[j].adds \cap registered[i].uses # {}
                    \/ \E j \in 1..(i - 1) : j \notin keeping /\ registered[j].serves \cap registered[i].serves # {}
  BY DEF OthersAreKept, ExtensionInv, Chosen, All
<1>1. i \notin keeping /\ Sound(registered[i]) /\ Builds(keeping \cup {i}) /\ i \in Looked
  BY DEF LeftOutThoughFit, Looked
<1>2. CASE i \in ToSet(candidates)
  BY <1>1, <1>2 DEF ExtensionInv, Chosen, Tried, Missed
<1>3. CASE Clashes(i)
  <2>1. PICK j \in ToSet(candidates) : j < i /\ registered[j].serves \cap registered[i].serves # {}
    BY <1>3 DEF Clashes
  <2>2. j \in 1..(i - 1)
    BY <2>1, Members DEF All
  <2>3. j \notin keeping
    <3>1. Sound(registered[j])
      BY DEF ExtensionInv, Listed
    <3>2. registered[j].adds \cap registered[i].adds # {}
      BY <1>1, <2>1, <3>1 DEF Sound
    <3> QED  BY <1>1, <2>2, <3>2 DEF Builds
  <2> QED  BY <2>1, <2>2, <2>3
<1> QED  BY <1>1, <1>2, <1>3 DEF ExtensionInv, Claims

---------------------------------------------------------------------------
(* The invariant, action by action. *)

LEMMA RegisterKeeps ==
  ASSUME ExtensionInv, NEW e \in Offered, Register(e)
  PROVE  ExtensionInv'
<1>1. /\ stage = "registering" /\ Len(registered) < MaxExtensions /\ registered' = Append(registered, e)
      /\ UNCHANGED <<stage, next, candidates, claimed, keeping, built>>
  BY DEF Register
<1>2. /\ registered' \in Seq(Offered) /\ Len(registered') = Len(registered) + 1
  BY <1>1, Members, AppendProperties
<1>3. ExtensionTypeOK'
  BY <1>1, <1>2, Members, ExtensionsConfigured DEF ExtensionInv, ExtensionTypeOK
<1>4. /\ Looked = {} /\ Looked' = {} /\ Tried = {} /\ Tried' = {}
      /\ ToSet(candidates) = {} /\ ToSet(candidates)' = {}
  BY <1>1, Members DEF Looked, Tried
<1>5. Listed'
  BY <1>1, <1>2, <1>4, Members DEF ExtensionInv, Listed
<1>6. Claims'
  BY <1>1, <1>4 DEF ExtensionInv, Claims
<1>7. Chosen'
  BY <1>1, <1>4 DEF ExtensionInv, Chosen, Builds
<1> QED  BY <1>3, <1>5, <1>6, <1>7 DEF ExtensionInv

LEMMA RegisteredKeeps ==
  ASSUME ExtensionInv, Registered
  PROVE  ExtensionInv'
<1>1. /\ stage = "registering" /\ stage' = "reading" /\ next = 1
      /\ UNCHANGED <<registered, next, candidates, claimed, keeping, built>>
  BY DEF Registered, ExtensionInv, Listed
<1>2. ExtensionTypeOK'
  BY <1>1 DEF ExtensionInv, ExtensionTypeOK
<1>3. /\ Looked = {} /\ Looked' = {} /\ Tried = {} /\ Tried' = {}
      /\ ToSet(candidates) = {} /\ ToSet(candidates)' = {}
  BY <1>1, Members DEF Looked, Tried, All
<1>4. Len(candidates) = 0
  <2>1. 1 \in DOMAIN candidates => candidates[1] \in ToSet(candidates)
    BY DEF ToSet
  <2> QED  BY <1>3, <2>1, Members
<1>5. Listed'
  BY <1>1, <1>3, <1>4 DEF ExtensionInv, Listed
<1>6. Claims' /\ Chosen'
  BY <1>1, <1>3 DEF ExtensionInv, Claims, Chosen, Builds
<1> QED  BY <1>2, <1>5, <1>6 DEF ExtensionInv

LEMMA ReadKeeps ==
  ASSUME ExtensionInv, Read
  PROVE  ExtensionInv'
<1>1. /\ stage = "reading" /\ stage' = "reading" /\ next' = next + 1
      /\ next \in All /\ next \in Nat /\ next <= Len(registered)
      /\ UNCHANGED <<registered, keeping, built>>
  BY Members, ExtensionsConfigured DEF Read, All, ExtensionInv, ExtensionTypeOK
<1>2. Looked' = Looked \cup {next}
  BY <1>1, Members DEF Looked, All
<1>3. Tried' = {} /\ Tried = {}
  BY <1>1 DEF Tried
<1>4. Chosen'
  BY <1>1, <1>3 DEF ExtensionInv, Chosen, Builds
<1>5. \A c \in ToSet(candidates) : c \in All /\ c < next
  BY <1>1, Members DEF Looked
<1>6. ASSUME Readable(registered[next]), candidates' = Append(candidates, next),
             claimed' = claimed \cup registered[next].serves
      PROVE  ExtensionInv'
  <2>1. /\ candidates' \in Seq(Places) /\ Len(candidates') = Len(candidates) + 1
        /\ DOMAIN candidates' = 1..(Len(candidates) + 1)
        /\ \A k \in 1..Len(candidates) : candidates'[k] = candidates[k]
        /\ candidates'[Len(candidates) + 1] = next
    <3>1. next \in Places
      BY <1>1, Members, ExtensionsConfigured DEF All, Places, ExtensionInv, ExtensionTypeOK
    <3>2. /\ candidates' \in Seq(Places) /\ Len(candidates') = Len(candidates) + 1
          /\ \A k \in 1..Len(candidates) : candidates'[k] = candidates[k]
          /\ candidates'[Len(candidates) + 1] = next
      BY <1>6, <3>1, Members, AppendProperties
    <3> QED  BY <3>2, LenProperties
  <2>2. ToSet(candidates)' = ToSet(candidates) \cup {next}
    <3>1. \A c \in ToSet(candidates)' : c \in ToSet(candidates) \cup {next}
      BY <2>1, Members DEF ToSet
    <3>2. \A c \in ToSet(candidates) \cup {next} : c \in ToSet(candidates)'
      BY <2>1, Members DEF ToSet
    <3> QED  BY <3>1, <3>2
  <2>3. Sound(registered[next]) /\ registered[next] \in Extension
    BY <1>1, <1>6, Members DEF Readable
  <2>4. ExtensionTypeOK'
    BY <1>1, <1>6, <2>1, <2>3, Members, ExtensionsConfigured DEF ExtensionInv, ExtensionTypeOK, Extension, All
  <2>5. \A k, l \in DOMAIN candidates' : k < l => candidates'[k] < candidates'[l]
    <3>1. \A k \in 1..Len(candidates) : candidates[k] < next
      BY <1>5, Members DEF ToSet
    <3> QED  BY <2>1, <3>1, Members DEF ExtensionInv, Listed
  <2>6. Listed'
    BY <1>1, <1>2, <2>1, <2>2, <2>3, <2>5, Members DEF ExtensionInv, Listed
  <2>7. \A f \in claimed' : \E c \in ToSet(candidates)' : f \in registered[c].serves
    BY <1>6, <2>2 DEF ExtensionInv, Claims
  <2>8. \A i \in Looked' : i \in ToSet(candidates)' \/ ~Sound(registered[i]) \/ Clashes(i)'
    BY <1>1, <1>2, <2>2 DEF ExtensionInv, Claims, Clashes
  <2> QED  BY <1>1, <1>4, <2>4, <2>6, <2>7, <2>8 DEF ExtensionInv, Claims
<1>7. ASSUME ~Readable(registered[next]), UNCHANGED <<candidates, claimed>>
      PROVE  ExtensionInv'
  <2>1. ~Sound(registered[next]) \/ Clashes(next)
    BY <1>5, <1>7 DEF Readable, ExtensionInv, Claims, Clashes
  <2>2. ExtensionTypeOK'
    BY <1>1, <1>7, Members, ExtensionsConfigured DEF ExtensionInv, ExtensionTypeOK, All
  <2>3. Listed'
    BY <1>1, <1>2, <1>7, Members DEF ExtensionInv, Listed
  <2>4. \A i \in Looked \cup {next} : i \in ToSet(candidates) \/ ~Sound(registered[i]) \/ Clashes(i)
    BY <2>1 DEF ExtensionInv, Claims
  <2>5. Claims'
    BY <1>1, <1>2, <1>7, <2>4 DEF ExtensionInv, Claims, Clashes
  <2> QED  BY <1>4, <2>2, <2>3, <2>5 DEF ExtensionInv
<1> QED  BY <1>6, <1>7 DEF Read

LEMMA AllReadKeeps ==
  ASSUME ExtensionInv, AllRead
  PROVE  ExtensionInv'
<1>1. /\ stage = "reading" /\ stage' = "building" /\ next > Len(registered)
      /\ UNCHANGED <<registered, next, candidates, claimed, keeping, built>>
  BY DEF AllRead
<1>2. Looked' = Looked /\ Looked' = All
  BY <1>1, Members DEF Looked, All
<1>3. Tried' = {} /\ Tried = {}
  BY <1>1 DEF Tried
<1>4. Len(candidates) <= Len(registered)
  BY <1>1, Members DEF ExtensionInv, Listed
<1>5. ExtensionTypeOK' /\ Listed' /\ Claims' /\ Chosen'
  BY <1>1, <1>2, <1>3, <1>4 DEF ExtensionInv, ExtensionTypeOK, Listed, Claims, Clashes, Chosen, Builds
<1> QED  BY <1>5 DEF ExtensionInv

LEMMA BuildAllKeeps ==
  ASSUME ExtensionInv, BuildAll
  PROVE  ExtensionInv'
<1>1. /\ stage = "building" /\ stage' \in {"built", "adding"} /\ next' = 1
      /\ UNCHANGED <<registered, candidates, claimed>>
  BY DEF BuildAll
<1>2. /\ Looked = All /\ Looked' = All /\ Tried = {}
      /\ ToSet(candidates)' = ToSet(candidates) /\ ToSet(candidates) \subseteq Places
  BY <1>1, Members, ExtensionsConfigured DEF Looked, Tried, All, Places, ExtensionInv, ExtensionTypeOK
<1>3. Listed' /\ Claims'
  BY <1>1, <1>2 DEF ExtensionInv, Listed, Claims, Clashes
<1>4. ExtensionTypeOK'
  BY <1>1, <1>2, ExtensionsConfigured DEF BuildAll, ExtensionInv, ExtensionTypeOK
<1>5. CASE Builds(ToSet(candidates))
  <2>1. Tried' = ToSet(candidates) /\ keeping' = ToSet(candidates) /\ built' = keeping'
    BY <1>1, <1>5 DEF BuildAll, Tried
  <2> QED  BY <1>1, <1>3, <1>4, <1>5, <2>1 DEF ExtensionInv, Chosen, Builds
<1>6. CASE ~Builds(ToSet(candidates))
  <2>1. Tried' = {} /\ UNCHANGED <<keeping, built>>
    BY <1>1, <1>6, Members DEF BuildAll, Tried
  <2> QED  BY <1>1, <1>2, <1>3, <1>4, <2>1 DEF ExtensionInv, Chosen, Builds
<1> QED  BY <1>5, <1>6

(* One that is kept now gives nothing to one that was missed before, or    *)
(* the latter fitted already.                                              *)
LEMMA StillMissed ==
  ASSUME NEW K, NEW d \in Nat, NEW c \in Nat, c < d, Builds(K), Builds(K \cup {d} \cup {c}),
         registered[d].adds \cap registered[c].uses = {}
  PROVE  Builds(K \cup {c})
<1>1. \A i, j \in K \cup {c} : i # j => registered[i].adds \cap registered[j].adds = {}
  BY DEF Builds
<1>2. \A i \in K : \A f \in registered[i].uses : \E j \in K : f \in registered[j].adds
  BY DEF Builds
<1>3. \A f \in registered[c].uses : \E j \in K \cup {c} : f \in registered[j].adds
  BY DEF Builds
<1>4. \A i \in K \cup {c} : registered[i].uses \subseteq UNION {registered[j].adds : j \in K \cup {c}}
  BY <1>2, <1>3
<1> QED  BY <1>1, <1>4 DEF Builds

LEMMA AddNextKeeps ==
  ASSUME ExtensionInv, AddNext
  PROVE  ExtensionInv'
<1> DEFINE d == candidates[next]
<1>1. /\ stage = "adding" /\ stage' = "adding" /\ next' = next + 1 /\ next \in DOMAIN candidates
      /\ d \in ToSet(candidates) /\ d \in All /\ d \in Nat /\ d \in Places
      /\ UNCHANGED <<registered, candidates, claimed>>
  <2>1. next \in DOMAIN candidates
    BY Members, ExtensionsConfigured DEF AddNext, ExtensionInv, ExtensionTypeOK
  <2>2. d \in ToSet(candidates) /\ d \in All
    BY <2>1, Members DEF ToSet
  <2> QED  BY <2>1, <2>2, Members, ExtensionsConfigured DEF AddNext, All, Places, ExtensionInv, ExtensionTypeOK
<1>2. Looked' = Looked /\ ToSet(candidates)' = ToSet(candidates)
  BY <1>1 DEF Looked, All
<1>3. Listed' /\ Claims'
  BY <1>1, <1>2 DEF ExtensionInv, Listed, Claims, Clashes
<1>4. Tried' = Tried \cup {d}
  BY <1>1, Members DEF Tried
<1>5. \A c \in Tried : c \in Nat /\ c < d
  <2>1. \A k \in DOMAIN candidates : k < next => candidates[k] < d
    BY <1>1 DEF ExtensionInv, Listed
  <2> QED  BY <1>1, <2>1, Members DEF Tried, All
<1>6. next + 1 \in 1..(MaxExtensions + 1)
  BY <1>1, Members, ExtensionsConfigured DEF ExtensionInv, Listed, ExtensionTypeOK
<1>7. \/ Builds(keeping \cup {d}) /\ keeping' = keeping \cup {d} /\ built' = keeping'
      \/ ~Builds(keeping \cup {d}) /\ UNCHANGED <<keeping, built>>
  BY DEF AddNext
<1>8. ExtensionTypeOK'
  BY <1>1, <1>6, <1>7 DEF ExtensionInv, ExtensionTypeOK
<1> HIDE DEF d
<1>9. ASSUME Builds(keeping \cup {d}), keeping' = keeping \cup {d}, built' = keeping'
      PROVE  Chosen'
  <2>1. ASSUME NEW c \in Tried, c \notin keeping'  PROVE Missed(c)'
    <3>1. c \notin keeping /\ Missed(c) /\ Builds(keeping)
      BY <1>9, <2>1 DEF ExtensionInv, Chosen
    <3>2. SUFFICES ASSUME Builds(keeping \cup {d} \cup {c}), registered[d].adds \cap registered[c].uses = {}
                   PROVE  \E j \in keeping : j > c /\ registered[j].adds \cap registered[c].uses # {}
      BY <1>1, <1>5, <1>9 DEF Missed, Builds
    <3>3. Builds(keeping \cup {c})
      BY <1>1, <1>5, <3>1, <3>2, StillMissed
    <3> QED  BY <3>1, <3>3 DEF Missed
  <2> QED  BY <1>1, <1>4, <1>9, <2>1 DEF ExtensionInv, Chosen, Builds
<1>10. ASSUME ~Builds(keeping \cup {d}), UNCHANGED <<keeping, built>>
       PROVE  Chosen'
  <2>1. Missed(d)
    BY <1>10 DEF Missed
  <2>2. \A c \in Tried' : c \in keeping \/ Missed(c)
    BY <1>4, <2>1 DEF ExtensionInv, Chosen
  <2> QED  BY <1>1, <1>4, <1>10, <2>2 DEF ExtensionInv, Chosen, Missed, Builds
<1> QED  BY <1>3, <1>7, <1>8, <1>9, <1>10 DEF ExtensionInv

LEMMA AllAddedKeeps ==
  ASSUME ExtensionInv, AllAdded
  PROVE  ExtensionInv'
<1>1. /\ stage = "adding" /\ stage' = "built" /\ next > Len(candidates)
      /\ UNCHANGED <<registered, next, candidates, claimed, keeping, built>>
  BY DEF AllAdded
<1>2. Looked' = Looked /\ Tried = ToSet(candidates) /\ Tried' = ToSet(candidates)
  BY <1>1, Members DEF Looked, All, Tried, ToSet
<1>3. ExtensionTypeOK' /\ Listed' /\ Claims'
  BY <1>1, <1>2 DEF ExtensionInv, ExtensionTypeOK, Listed, Claims, Clashes
<1>4. Chosen'
  BY <1>1, <1>2 DEF ExtensionInv, Chosen, Missed, Builds
<1> QED  BY <1>3, <1>4 DEF ExtensionInv

LEMMA ExtensionStepKeeps == ExtensionInv /\ [ExtensionNext]_extensionVars => ExtensionInv'
<1> SUFFICES ASSUME ExtensionInv, [ExtensionNext]_extensionVars  PROVE ExtensionInv'
  OBVIOUS
<1>1. CASE UNCHANGED extensionVars
  <2>1. UNCHANGED <<registered, stage, next, candidates, claimed, keeping, built>>
    BY <1>1 DEF extensionVars
  <2>2. Looked' = Looked /\ Tried' = Tried /\ ToSet(candidates)' = ToSet(candidates)
    BY <2>1 DEF Looked, All, Tried, ToSet
  <2>3. Listed' /\ Claims'
    BY <2>1, <2>2 DEF ExtensionInv, Listed, Claims, Clashes
  <2>4. ExtensionTypeOK' /\ Chosen'
    BY <2>1, <2>2 DEF ExtensionInv, ExtensionTypeOK, Chosen, Missed, Builds
  <2> QED  BY <2>3, <2>4 DEF ExtensionInv
<1> QED  BY <1>1, RegisterKeeps, RegisteredKeeps, ReadKeeps, AllReadKeeps, BuildAllKeeps, AddNextKeeps, AllAddedKeeps
         DEF ExtensionNext

(* "Everything else is kept", but for one that uses what a later one adds, *)
(* once anything is amiss, and one that serves what an earlier one has     *)
(* claimed - whatever the plugins offer, and in whatever order.            *)
THEOREM OthersKept == ExtensionSpec => []OthersAreKept
  BY ExtensionInitially, ExtensionStepKeeps, Fitting, PTL DEF ExtensionSpec

---------------------------------------------------------------------------
(***************************************************************************)
(* All the services: a behaviour of MCServices is one of each of them.     *)
(***************************************************************************)

LEMMA EachInitially ==
  Init => SqlInit /\ FtpInit /\ MailInit /\ DnsInit /\ TxInit /\ ReadInit /\ ExtensionInit
  BY DEF Init

LEMMA EachStep ==
  [Next]_services =>
     /\ [SqlNext]_sqlVars /\ [FtpNext]_ftpVars /\ [MailNext]_mailVars /\ [DnsNext]_dnsVars
     /\ [TxNext]_txVars /\ [ReadNext]_readVars /\ [ExtensionNext]_extensionVars
<1> SUFFICES ASSUME [Next]_services
             PROVE  /\ SqlNext \/ UNCHANGED sqlVars
                    /\ FtpNext \/ UNCHANGED ftpVars
                    /\ MailNext \/ UNCHANGED mailVars
                    /\ DnsNext \/ UNCHANGED dnsVars
                    /\ TxNext \/ UNCHANGED txVars
                    /\ ReadNext \/ UNCHANGED readVars
                    /\ ExtensionNext \/ UNCHANGED extensionVars
  OBVIOUS
<1> QED  BY DEF Next, services

(* The specification that TLC runs implements that of every service, so    *)
(* the theorems about the services are theorems about it.                  *)
THEOREM EachImplemented ==
  Spec => SqlSpec /\ FtpSpec /\ MailSpec /\ DnsSpec /\ TxSpec /\ ReadSpec /\ ExtensionSpec
<1>1. Spec => SqlSpec
  BY EachInitially, EachStep, PTL DEF Spec, SqlSpec
<1>2. Spec => FtpSpec
  BY EachInitially, EachStep, PTL DEF Spec, FtpSpec
<1>3. Spec => MailSpec
  BY EachInitially, EachStep, PTL DEF Spec, MailSpec
<1>4. Spec => DnsSpec
  BY EachInitially, EachStep, PTL DEF Spec, DnsSpec
<1>5. Spec => TxSpec
  BY EachInitially, EachStep, PTL DEF Spec, TxSpec
<1>6. Spec => ReadSpec
  BY EachInitially, EachStep, PTL DEF Spec, ReadSpec
<1>7. Spec => ExtensionSpec
  BY EachInitially, EachStep, PTL DEF Spec, ExtensionSpec
<1> QED  BY <1>1, <1>2, <1>3, <1>4, <1>5, <1>6, <1>7

(* Every variable of every service keeps its shape, whatever fails and     *)
(* however the steps of the processes interleave.                          *)
THEOREM ServicesTypeCorrect == Spec => []ServicesTypeOK
<1>1. ReadInv => ReadTypeOK
  BY DEF ReadInv
<1>2. ExtensionInv => ExtensionTypeOK
  BY DEF ExtensionInv
<1>3. ExtensionSpec => []ExtensionInv
  BY ExtensionInitially, ExtensionStepKeeps, PTL DEF ExtensionSpec
<1>4. SqlTypeOK /\ FtpTypeOK /\ MailTypeOK /\ DnsTypeOK /\ TxTypeOK /\ ReadTypeOK /\ ExtensionTypeOK
      => ServicesTypeOK
  BY DEF ServicesTypeOK
<1> QED
  BY EachImplemented, SqlTypeCorrect, FtpTypeCorrect, MailTypeCorrect, DnsTypeCorrect, TxTypeCorrect, ReadInvariant,
     <1>1, <1>2, <1>3, <1>4, PTL
=============================================================================
