------------------------- MODULE WriteTransactions --------------------------
(***************************************************************************)
(* Writer::run() over the transaction count of Db: one transaction on the  *)
(* connection, savepoints below it, and a counter that says which of them  *)
(* a begin, a commit or a rollback is about.                               *)
(*                                                                         *)
(* One PHP process answers several mutations over one connection: those of *)
(* one document, or of one in-process caller.  A mutation is a Writer that *)
(* may call a helper of the panel, createDefaultMailAccounts(), which      *)
(* counts with the same counter, or it is a piece of DDL outside any       *)
(* transaction, with which the server commits whatever is open.            *)
(*                                                                         *)
(* The counter is the panel's; Db, which counts the same way where there   *)
(* is no panel, is what is modelled.  A write is known by the mutation and *)
(* the nesting it was made at.                                             *)
(***************************************************************************)
EXTENDS Integers, Sequences

CONSTANTS
    Mutations,    \* mutations of the process
    MaxNesting    \* transactions within one another in this instance

ASSUME TxConfigured == MaxNesting \in Nat \ {0}

VARIABLES
    depth,     \* the counter
    open,      \* whether the connection is in a transaction
    pending,   \* what that transaction has written
    marks,     \* by level, what was pending when its savepoint was set
    kept,      \* what is committed
    running,   \* the mutations being answered, at most one
    frames,    \* the open calls: "writer" or "helper"
    throwing,  \* whether an exception is on its way out
    made,      \* the writes of each mutation
    answer,    \* what the caller was told
    leaked,    \* whether the helper has left a savepoint behind
    abandoned  \* mutations whose transaction could not be ended

connection == <<open, pending, marks, kept>>
txVars == <<depth, open, pending, marks, kept, running, frames, throwing, made, answer, leaked, abandoned>>

---------------------------------------------------------------------------

Writes == Mutations \X (0..MaxNesting)

TxTypeOK ==
    /\ depth \in Nat
    /\ {open, throwing, leaked} \subseteq BOOLEAN
    /\ pending \subseteq Writes /\ kept \subseteq Writes
    /\ DOMAIN marks \subseteq Nat /\ \A l \in DOMAIN marks : marks[l] \subseteq Writes
    /\ running \subseteq Mutations
    /\ frames \in Seq({"writer", "helper"})
    /\ made \in [Mutations -> SUBSET Writes]
    /\ answer \in [Mutations -> {"none", "ok", "failed"}]
    /\ abandoned \subseteq Mutations

TxInit ==
    /\ depth = 0 /\ open = FALSE /\ pending = {} /\ marks = <<>> /\ kept = {}
    /\ running = {} /\ frames = <<>> /\ throwing = FALSE
    /\ made = [m \in Mutations |-> {}]
    /\ answer = [m \in Mutations |-> "none"]
    /\ leaked = FALSE /\ abandoned = {}

Top == frames[Len(frames)]

Leave == frames' = SubSeq(frames, 1, Len(frames) - 1)

---------------------------------------------------------------------------
(* The statements of Db, as the server carries them out.  Each says what   *)
(* becomes of the counter and of the connection.                           *)

Without(levels) == [l \in DOMAIN marks \ levels |-> marks[l]]

(* A second PDO transaction is refused. *)
CanBegin == depth > 0 \/ ~open

BeginTransaction ==
    /\ depth' = depth + 1
    /\ IF depth = 0
       THEN open' = TRUE /\ pending' = {} /\ marks' = <<>>
       ELSE /\ marks' = IF open THEN [l \in DOMAIN marks \cup {depth} |-> IF l = depth THEN pending ELSE marks[l]]
                                ELSE marks
            /\ UNCHANGED <<open, pending>>
    /\ UNCHANGED kept

(* The counter goes down before the server is asked. *)
CommitWorks ==
    /\ depth' = depth - 1
    /\ IF depth = 1
       THEN open /\ kept' = kept \cup pending /\ open' = FALSE /\ pending' = {} /\ marks' = <<>>
       ELSE depth - 1 \in DOMAIN marks /\ marks' = Without({depth - 1}) /\ UNCHANGED <<open, pending, kept>>

CommitFails_Counted ==   \* mutant: the counter goes down only when the server has committed
    /\ depth' = depth
    /\ UNCHANGED connection

CommitFails ==
    /\ depth' = depth - 1
    /\ UNCHANGED connection

RollBackWorks ==
    LET level == depth - 1
    IN  /\ depth' = IF depth = 0 THEN 0 ELSE level
        /\ IF level <= 0
           THEN open' = FALSE /\ pending' = {} /\ marks' = <<>>
           ELSE /\ level \in DOMAIN marks
                /\ pending' = marks[level] /\ marks' = Without({l \in DOMAIN marks : l > level}) /\ UNCHANGED open
        /\ UNCHANGED kept

(* Writer ignores it. *)
RollBackFails ==
    /\ depth' = IF depth = 0 THEN 0 ELSE depth - 1
    /\ UNCHANGED connection

---------------------------------------------------------------------------
(* A mutation, from its Writer to its answer. *)

Start(m) ==
    /\ running = {} /\ answer[m] = "none"
    /\ running' = {m}
    /\ UNCHANGED <<depth, connection, frames, throwing, made, answer, leaked, abandoned>>

(* The outermost call is a Writer's, a helper is called from within one.   *)
(* The begin is outside the try: if it is refused there is no frame.       *)
Enter(kind) ==
    /\ running # {} /\ ~throwing /\ Len(frames) < MaxNesting
    /\ IF frames = <<>> THEN kind = "writer" /\ \A m \in running : made[m] = {} ELSE Top = "writer"
    /\ \/ CanBegin /\ BeginTransaction /\ frames' = Append(frames, kind) /\ UNCHANGED throwing
       \/ ~CanBegin /\ throwing' = TRUE /\ UNCHANGED <<depth, connection, frames>>
    /\ UNCHANGED <<running, made, answer, leaked, abandoned>>

Write(m) ==
    /\ m \in running /\ frames # <<>> /\ ~throwing
    /\ LET w == <<m, Len(frames)>>
       IN  /\ made' = [made EXCEPT ![m] = @ \cup {w}]
           /\ IF open THEN pending' = pending \cup {w} /\ UNCHANGED kept
                      ELSE kept' = kept \cup {w} /\ UNCHANGED pending    \* nothing to commit: it is
    /\ UNCHANGED <<depth, open, marks, running, frames, throwing, answer, leaked, abandoned>>

(* A statement fails; a deadlock takes the whole transaction with it. *)
StatementFails ==
    /\ frames # <<>> /\ ~throwing
    /\ throwing' = TRUE
    /\ \/ UNCHANGED connection
       \/ open /\ open' = FALSE /\ pending' = {} /\ marks' = <<>> /\ UNCHANGED kept
    /\ UNCHANGED <<depth, running, frames, made, answer, leaked, abandoned>>

(* The commit is outside the try too: what it throws is not rolled back.   *)
Return ==
    /\ frames # <<>> /\ ~throwing
    /\ Leave
    /\ \/ CommitWorks /\ UNCHANGED <<throwing, abandoned>>
       \/ /\ CommitFails /\ throwing' = TRUE
          /\ abandoned' = IF Len(frames) = 1 /\ open THEN abandoned \cup running ELSE abandoned
    /\ UNCHANGED <<running, made, answer, leaked>>

UnwindWriter ==
    /\ frames # <<>> /\ throwing /\ Top = "writer"
    /\ Leave
    /\ \/ RollBackWorks /\ UNCHANGED abandoned
       \/ /\ RollBackFails
          /\ abandoned' = IF Len(frames) = 1 /\ open THEN abandoned \cup running ELSE abandoned
    /\ UNCHANGED <<running, throwing, made, answer, leaked>>

(* createDefaultMailAccounts() catches PDOException alone, and the panel's *)
(* statements throw DatabaseException.                                     *)
UnwindHelper ==
    /\ frames # <<>> /\ throwing /\ Top = "helper"
    /\ leaked' = TRUE
    /\ Leave
    /\ UNCHANGED <<depth, connection, running, throwing, made, answer, abandoned>>

(* A mutation of databases: DDL commits, and is itself kept. *)
Ddl(m) ==
    /\ m \in running /\ frames = <<>> /\ ~throwing /\ made[m] = {}
    /\ made' = [made EXCEPT ![m] = {<<m, 0>>}]
    /\ kept' = kept \cup pending \cup {<<m, 0>>}
    /\ open' = FALSE /\ pending' = {} /\ marks' = <<>>
    /\ UNCHANGED <<depth, running, frames, throwing, answer, leaked, abandoned>>

Answer(m) ==
    /\ m \in running /\ frames = <<>>
    /\ throwing \/ made[m] # {}
    /\ answer' = [answer EXCEPT ![m] = IF throwing THEN "failed" ELSE "ok"]
    /\ throwing' = FALSE
    /\ running' = {}
    /\ UNCHANGED <<depth, connection, frames, made, leaked, abandoned>>

TxNext ==
    \/ \E m \in Mutations : Start(m) \/ Write(m) \/ Ddl(m) \/ Answer(m)
    \/ \E kind \in {"writer", "helper"} : Enter(kind)
    \/ StatementFails \/ Return \/ UnwindWriter \/ UnwindHelper

TxSpec == TxInit /\ [][TxNext]_txVars

---------------------------------------------------------------------------
(* Properties. *)

(* A mutation that was answered with success is kept whole and a failed    *)
(* one not at all, whatever fails, and however the calls nest - as long as *)
(* the helper has not left the counter too high.  From then on a success   *)
(* may be lost and a failure half kept.  A transaction that could be       *)
(* neither committed nor rolled back stays open, and the next DDL commits  *)
(* it all the same.                                                        *)
MutationsWhole ==
    leaked \/ \A m \in Mutations :
                 /\ answer[m] = "ok" => made[m] \subseteq kept
                 /\ answer[m] = "failed" /\ m \notin abandoned => made[m] \cap kept = {}
=============================================================================
