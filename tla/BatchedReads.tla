---------------------------- MODULE BatchedReads ----------------------------
(***************************************************************************)
(* BatchLoader: the edges of a document ask for rows by key, the keys of a *)
(* level are read with one query, and what was read is remembered until    *)
(* the document's next mutation (decision D18).                            *)
(*                                                                         *)
(* One bucket and the table behind it, of which other requests and the     *)
(* daemon change rows at any time.  A promise that waits may be given up:  *)
(* where a sibling fails, graphql-php answers the field above both and     *)
(* goes on to the next mutation, and the promise is still carried out      *)
(* later, for nobody.  Promises are carried out in any order, which        *)
(* includes graphql-php's.                                                 *)
(***************************************************************************)
CONSTANTS
    Keys,       \* what a bucket is asked by
    Readings,   \* what a row may say
    Promises,   \* promises that may wait at a time
    Absent,     \* no row
    Unread,     \* no answer remembered
    Failed      \* the query failed

ASSUME ReadsConfigured ==
    /\ Absent # Unread /\ Absent # Failed /\ Unread # Failed
    /\ Readings \cap {Absent, Unread, Failed} = {}

VARIABLES
    table,        \* by key, what its row says
    pendingKeys,  \* keys waiting for the bucket's next query
    results,      \* by key, the answer remembered
    promise,      \* by promise, the key it waits for, and whether for anyone
    valid,        \* by key, what the table has said since the last mutation
    given         \* by key, the answers given since

readVars == <<table, pendingKeys, results, promise, valid, given>>

---------------------------------------------------------------------------

Rows == Readings \cup {Absent}

Waits == [key : Keys, live : BOOLEAN]

Idling == [key |-> Unread, live |-> FALSE]

ReadTypeOK ==
    /\ table \in [Keys -> Rows]
    /\ pendingKeys \subseteq Keys
    /\ results \in [Keys -> Rows \cup {Unread}]
    /\ promise \in [Promises -> Waits \cup {Idling}]
    /\ valid \in [Keys -> SUBSET Rows]
    /\ given \in [Keys -> SUBSET (Rows \cup {Failed})]

ReadInit ==
    /\ table \in [Keys -> Rows]
    /\ pendingKeys = {}
    /\ results = [k \in Keys |-> Unread]
    /\ promise = [p \in Promises |-> Idling]
    /\ valid = [k \in Keys |-> {table[k]}]
    /\ given = [k \in Keys |-> {}]

Awaited(p) == promise[p] # Idling

---------------------------------------------------------------------------

(* keyed(): a key that has no answer yet joins the next query. *)
Keyed(p, k) ==
    /\ ~Awaited(p)
    /\ promise' = [promise EXCEPT ![p] = [key |-> k, live |-> TRUE]]
    /\ pendingKeys' = IF results[k] = Unread THEN pendingKeys \cup {k} ELSE pendingKeys
    /\ UNCHANGED <<table, results, valid, given>>

(* The promise is settled; nobody hears of the answer if it was given up.  *)
Settle(p, answer) ==
    /\ promise' = [promise EXCEPT ![p] = Idling]
    /\ given' = IF promise[p].live
                THEN [given EXCEPT ![promise[p].key] = @ \cup {answer}]
                ELSE given

(* flushKeys(): one query for all the keys that wait, and the first of     *)
(* their promises has its answer.                                          *)
Flush(p) ==
    /\ Awaited(p) /\ promise[p].key \in pendingKeys
    /\ results' = [k \in Keys |-> IF k \in pendingKeys THEN table[k] ELSE results[k]]
    /\ pendingKeys' = {}
    /\ Settle(p, table[promise[p].key])
    /\ UNCHANGED <<table, valid>>

FlushFails_Cleared(p) ==   \* mutant: the keys are taken off the list before the query
    /\ Awaited(p) /\ promise[p].key \in pendingKeys
    /\ pendingKeys' = {}
    /\ Settle(p, Failed)
    /\ UNCHANGED <<table, results, valid>>

(* The query throws: this promise fails, and the keys wait on, so that the *)
(* next one asks again.                                                    *)
FlushFails(p) ==
    /\ Awaited(p) /\ promise[p].key \in pendingKeys
    /\ Settle(p, Failed)
    /\ UNCHANGED <<table, pendingKeys, results, valid>>

(* Nothing waits for this key, so its answer is the one remembered, or     *)
(* null.                                                                   *)
Recall(p) ==
    /\ Awaited(p) /\ promise[p].key \notin pendingKeys
    /\ LET k == promise[p].key
       IN  Settle(p, IF results[k] = Unread THEN Absent ELSE results[k])
    /\ UNCHANGED <<table, pendingKeys, results, valid>>

(* reset() *)
Reset ==
    /\ pendingKeys' = {}
    /\ results' = [k \in Keys |-> Unread]

(* The resolver of a mutation forgets what was read, then writes: a row, or *)
(* none.  graphql-php starts it when nobody waits for the field before it.  *)
Mutate(k, r) ==
    /\ \A p \in Promises : ~promise[p].live
    /\ Reset
    /\ table' = [table EXCEPT ![k] = r]
    /\ valid' = [j \in Keys |-> {table'[j]}]
    /\ given' = [j \in Keys |-> {}]
    /\ UNCHANGED promise

(* Another request, or the daemon, writes a row. *)
OthersWrite(k, r) ==
    /\ table' = [table EXCEPT ![k] = r]
    /\ valid' = [valid EXCEPT ![k] = @ \cup {r}]
    /\ UNCHANGED <<pendingKeys, results, promise, given>>

(* A sibling has failed and the field above is answered without this one.  *)
GiveUp(p) ==
    /\ promise[p].live
    /\ promise' = [promise EXCEPT ![p].live = FALSE]
    /\ UNCHANGED <<table, pendingKeys, results, valid, given>>

ReadNext ==
    \/ \E p \in Promises :
        \/ \E k \in Keys : Keyed(p, k)
        \/ Flush(p) \/ FlushFails(p) \/ Recall(p) \/ GiveUp(p)
    \/ \E k \in Keys, r \in Rows : Mutate(k, r) \/ OthersWrite(k, r)

ReadSpec == ReadInit /\ [][ReadNext]_readVars

---------------------------------------------------------------------------
(* Properties. *)

(* However the promises of a document are carried out, fail or are given   *)
(* up, all that wait for one key are told one thing between two mutations, *)
(* unless they are told of a failure; and it is what the table has said    *)
(* since the first of the two.                                             *)
AnswersAgree ==
    \A k \in Keys :
        /\ given[k] \subseteq valid[k] \cup {Failed}
        /\ \A a, b \in given[k] \ {Failed} : a = b
=============================================================================
