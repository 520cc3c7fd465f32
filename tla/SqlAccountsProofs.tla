------------------------- MODULE SqlAccountsProofs -------------------------
(***************************************************************************)
(* Theorems, checked by TLAPS, about the SQL service, for any number of    *)
(* processes, customers, databases, users and rows: the panel's rows and   *)
(* the server agree on every name that no unfinished and no overlapping    *)
(* operation has left its mark on, and nobody changes what is another      *)
(* customer's but by overlap.                                              *)
(*                                                                         *)
(* An operation is a row of statements, and after each of them the tables  *)
(* and the server may disagree about the names it deals with.  The         *)
(* invariant says how: what an operation that nobody has overtaken still   *)
(* finds of what it has read and done (Relied), and, of a name without     *)
(* marks, that it is as it should be or in the hands of one operation that *)
(* is half done and not overtaken (DatabaseKept, UserKept, GrantKept).     *)
(***************************************************************************)
EXTENDS SqlAccounts, FiniteSetTheorems, TLAPS

Making   == {"create database", "insert database", "undo database"}
Dropping == {"drop grants", "delete user row"}
Removing == Dropping \cup {"drop user", "revoke"}
Deleting == Removing \cup {"count", "drop database", "delete database row"}
Adding   == {"create user", "grant", "insert user", "undo user", "undo grants"}
Undoing  == {"insert database", "undo database", "insert user", "undo user", "undo grants"}
Half     == Undoing \cup Dropping \cup {"delete database row"}

HalfDone(q, n) == sqlCall[q].at \in Half /\ n \in {sqlCall[q].db, sqlCall[q].user}

(* An overtaken operation that is half done with a name will mark it. *)
Spoilt(n) == \E q \in overtaken : HalfDone(q, n)
Weak(n)   == leftover[n] \subseteq {"delete"} /\ ~Spoilt(n)
Clean(n)  == leftover[n] = {} /\ ~Spoilt(n)

(* Ids are given once, in their order. *)
Numbered ==
    /\ IsFiniteSet(sqlDatabase) /\ IsFiniteSet(sqlUser)
    /\ \A r, o \in sqlDatabase : r.id = o.id => r = o
    /\ \A v, w \in sqlUser : v.id = w.id => v = w
    /\ \A r \in sqlDatabase : r.id < nextId["database"]
    /\ \A w \in sqlUser : w.id < nextId["user"] /\ w.db < nextId["database"]

(* What an operation knows at each of its points. *)
ShapedCall(call) ==
    /\ call.at = "idle" => call = Idle
    /\ call.at # "idle" => call.customer \in SqlCustomers
    /\ call.at \in Making => call.db \in Databases /\ call.user = None
    /\ call.at \in Deleting \cup Adding => call.id \in RowIds /\ call.db \in Databases
    /\ call.at \in {"count", "drop database", "delete database row"} => call.user = None
    /\ call.at \in Removing => /\ call.user \in SqlUsers /\ call.row \in RowIds
                               /\ \E w \in call.rows : w.id = call.row /\ w.user = call.user
    /\ \A v, w \in call.rows : v.id = w.id => v = w
    /\ call.at \in {"create user", "drop user", "drop grants", "undo grants"} => call.whole
    /\ call.at \in {"revoke", "set password"} => ~call.whole
    /\ call.at \in {"drop database", "delete database row"} => call.rows = {} /\ call.drops
    /\ call.at \notin Deleting => call.rows = {} /\ ~call.drops
    /\ call.at \in Adding \cup {"set password"} => call.user \in SqlUsers
    /\ call.at = "set password" => call.db = None

(* Rows keep their ids: one with an id that is known is the one it was. *)
KnownCall(call) ==
    /\ call.at \in Deleting \cup Adding =>
          /\ call.id < nextId["database"]
          /\ \A r \in sqlDatabase : r.id = call.id => r.name = call.db /\ r.customer = call.customer
    /\ \A w \in call.rows : /\ w.db = call.id
                            /\ w.id < nextId["user"]
                            /\ \A v \in sqlUser : v.id = w.id => v = w

(* What an operation that nobody has overtaken still finds. *)
Found(p, call) ==
    /\ call.at \in {"insert database", "undo database"} => schema[call.db] = p
    /\ call.at \in Deleting \cup Adding => \E r \in sqlDatabase : r.id = call.id
    /\ call.rows \subseteq sqlUser
    /\ call.drops => \A w \in sqlUser : w.db = call.id => w \in call.rows
    /\ call.at \in Removing /\ call.whole => \A v \in sqlUser : v.user = call.user => v.id = call.row
    /\ call.at \in Removing /\ ~call.whole => \E v \in sqlUser : v.user = call.user /\ v.id # call.row
    /\ call.at \in {"drop grants", "undo grants"} => account[call.user] = None
    /\ call.at = "delete user row" => <<call.user, call.db>> \notin grants
    /\ call.at = "delete user row" /\ call.whole =>
          account[call.user] = None /\ \A x \in Databases : <<call.user, x>> \notin grants
    /\ call.at = "delete database row" => schema[call.db] = None
    /\ call.at \in {"grant", "insert user", "undo user"} /\ call.whole => account[call.user] = p
    /\ call.at \in {"grant", "insert user", "undo user"} /\ ~call.whole =>
          \A w \in sqlUser : ~(w.user = call.user /\ w.db = call.id)
    /\ call.at \in {"insert user", "undo user"} => <<call.user, call.db>> \in grants

(* And, unless the user has marks, the account is the customer's. *)
Suits(call) ==
    /\ call.at \in {"grant", "set password"} /\ ~call.whole /\ Clean(call.user) =>
          account[call.user] \in {None, call.customer}
    /\ call.at \in {"insert user", "undo user"} /\ ~call.whole /\ Clean(call.user) =>
          account[call.user] = call.customer

Relied(p, call) == Found(p, call) /\ Suits(call)

CallKept(p) ==
    /\ ShapedCall(sqlCall[p])
    /\ KnownCall(sqlCall[p])
    /\ p \notin overtaken => Relied(p, sqlCall[p])

(* A database without marks: it has one row, its owner's, unless it has    *)
(* just been made or dropped.                                              *)
DatabaseKept(x) ==
    /\ Weak(x) /\ leftover[x] # {} => \E r \in sqlDatabase : r.name = x
    /\ Clean(x) =>
        /\ schema[x] \in {None} \cup SqlCustomers \cup Procs
        /\ \A r, o \in sqlDatabase : r.name = x /\ o.name = x => r = o
        /\ schema[x] = None => \A r \in sqlDatabase : r.name = x =>
              \E p \in Procs \ overtaken : sqlCall[p].at = "delete database row" /\ sqlCall[p].db = x
        /\ schema[x] \in SqlCustomers => \E r \in sqlDatabase : r.name = x /\ r.customer = schema[x]
        /\ schema[x] \in Procs =>
              /\ \A r \in sqlDatabase : r.name # x
              /\ sqlCall[schema[x]].at \in {"insert database", "undo database"} /\ sqlCall[schema[x]].db = x

(* A user without marks: the account and the password are the customer's   *)
(* of all the rows, unless it has just been made or dropped.               *)
UserKept(u) ==
    /\ Weak(u) /\ leftover[u] # {} => \E w \in sqlUser : w.user = u
    /\ Clean(u) =>
        /\ account[u] \in {None} \cup SqlCustomers \cup Procs
        /\ \A v, w \in sqlUser : v.user = u /\ w.user = u /\ v.db = w.db => v = w
        /\ account[u] = None => \A w \in sqlUser : w.user = u =>
              \E p \in Procs \ overtaken : /\ sqlCall[p].at \in Dropping /\ sqlCall[p].whole
                                           /\ sqlCall[p].user = u
        /\ account[u] \in SqlCustomers =>
              /\ \E w \in sqlUser : w.user = u
              /\ \A w \in sqlUser, r \in sqlDatabase : w.user = u /\ r.id = w.db => r.customer = account[u]
              /\ password[u] = account[u]
        /\ account[u] \in Procs =>
              /\ \A w \in sqlUser : w.user # u
              /\ sqlCall[account[u]].at \in {"grant", "insert user", "undo user"}
              /\ sqlCall[account[u]].whole /\ sqlCall[account[u]].user = u
              /\ password[u] = sqlCall[account[u]].customer

Grantee(u, x) == \E r \in sqlDatabase, w \in sqlUser : r.name = x /\ w.db = r.id /\ w.user = u

(* The operations that have granted and not yet inserted, or revoked and   *)
(* not yet deleted, and that nobody has overtaken.                         *)
GrantedBy(q, u, x) == /\ q \notin overtaken /\ sqlCall[q].at \in {"insert user", "undo user", "undo grants"}
                      /\ sqlCall[q].user = u /\ sqlCall[q].db = x
RevokedBy(q, u, x) == /\ q \notin overtaken /\ sqlCall[q].at = "delete user row"
                      /\ sqlCall[q].user = u
                      /\ sqlCall[q].whole \/ sqlCall[q].db = x

(* A grant without marks has a row and a row a grant, unless one of the    *)
(* two has just been made or dropped.                                      *)
GrantKept(u, x) ==
    /\ Weak(u) /\ Weak(x) /\ <<u, x>> \in grants => Grantee(u, x) \/ \E q \in Procs : GrantedBy(q, u, x)
    /\ Clean(u) /\ Clean(x) /\ Grantee(u, x) => <<u, x>> \in grants \/ \E q \in Procs : RevokedBy(q, u, x)

SqlInv ==
    /\ SqlTypeOK
    /\ Numbered
    /\ \A p \in Procs : CallKept(p)
    /\ \A x \in Databases : DatabaseKept(x)
    /\ \A u \in SqlUsers : UserKept(u)
    /\ \A u \in SqlUsers, x \in Databases : GrantKept(u, x)

---------------------------------------------------------------------------
(* What any step leaves as it was.                                         *)

Names == Databases \cup SqlUsers

(* A step of p changes only what stands under the names in T, and overtakes *)
(* whoever else deals with one of them.                                    *)
Disturbs(p, T) ==
    /\ \A q \in Procs \ {p} :
          /\ sqlCall'[q] = sqlCall[q]
          /\ sqlCall[q].at # "idle" /\ q \in overtaken => q \in overtaken'
          /\ sqlCall[q].at # "idle" /\ Concerns(sqlCall[q]) \cap T # {} => q \in overtaken'
    /\ \A x \in Databases \ T : schema'[x] = schema[x] \/ schema[x] = p
    /\ \A u \in SqlUsers \ T :
          /\ account'[u] = account[u] \/ account[u] = p
          /\ password'[u] = password[u]
          /\ \A x \in Databases : <<u, x>> \in grants' <=> <<u, x>> \in grants
    /\ \A r \in DatabaseRows : r.name \notin T => (r \in sqlDatabase' <=> r \in sqlDatabase)
    /\ \A w \in UserRows : w.user \notin T => (w \in sqlUser' <=> w \in sqlUser)
    /\ \A r \in sqlDatabase' \ sqlDatabase : r.id = nextId["database"]
    /\ \A w \in sqlUser' \ sqlUser :
          w.id = nextId["user"] /\ \A r \in sqlDatabase : r.id = w.db => r.name \in T
    /\ nextId'["database"] >= nextId["database"] /\ nextId'["user"] >= nextId["user"]

(* What it makes of the marks, and what p leaves half done. *)
Marks(p, T) ==
    /\ \A n \in Names :
          /\ leftover[n] \ {"delete"} \subseteq leftover'[n]
          /\ p \in overtaken /\ HalfDone(p, n) => "overlap" \in leftover'[n]
    /\ \A n \in Names \ T :
          /\ leftover[n] \subseteq leftover'[n]
          /\ HalfDone(p, n) => leftover'[n] # {}
          /\ HalfDone(p, n) /\ sqlCall[p].at \in Undoing => "create" \in leftover'[n]
    /\ \A x \in Databases \ T :
          /\ \/ leftover'[x] = leftover[x] \/ ~(leftover'[x] \subseteq {"delete"})
             \/ p \notin overtaken /\ \E r \in sqlDatabase : r.name = x
          /\ schema[x] = p /\ Clean(x) => leftover'[x] # {}
    /\ \A u \in SqlUsers \ T :
          /\ \/ leftover'[u] = leftover[u] \/ ~(leftover'[u] \subseteq {"delete"})
             \/ p \notin overtaken /\ \E w \in sqlUser : w.user = u
          /\ account[u] = p /\ Clean(u) => leftover'[u] # {}

LEMMA WeakBefore ==
  ASSUME SqlInv, NEW p \in Procs, NEW T, Disturbs(p, T), Marks(p, T), NEW n \in Names
  PROVE  /\ Weak(n)' => Weak(n)
         /\ n \notin T /\ Clean(n)' => Clean(n)
         /\ Clean(n) => Weak(n)
<1>1. leftover[n] \subseteq Leavings /\ overtaken \subseteq Procs
  BY DEF SqlInv, SqlTypeOK, Names
<1>2. ASSUME NEW q \in overtaken, HalfDone(q, n), leftover'[n] \subseteq {"delete"}
      PROVE  Spoilt(n)'
  <2>1. q # p
    BY <1>1, <1>2 DEF Marks
  <2>2. sqlCall'[q] = sqlCall[q] /\ sqlCall[q].at # "idle"
    BY <1>1, <1>2, <2>1 DEF Disturbs, HalfDone, Half, Undoing, Dropping
  <2>3. q \in overtaken'
    BY <1>1, <1>2, <2>1, <2>2 DEF Disturbs
  <2> QED  BY <1>2, <2>2, <2>3 DEF Spoilt, HalfDone
<1>3. leftover'[n] \subseteq {"delete"} => leftover[n] \subseteq {"delete"}
  BY DEF Marks
<1>4. n \notin T => leftover[n] \subseteq leftover'[n]
  BY DEF Marks
<1> QED  BY <1>2, <1>3, <1>4 DEF Weak, Clean, Spoilt

(* Nobody else's operation is disturbed, unless it is overtaken. *)
LEMMA OtherCallsKept ==
  ASSUME SqlInv, SqlTypeOK', NEW p \in Procs, NEW T, Disturbs(p, T), NEW q \in Procs \ {p},
         \A n \in Names \ T : Clean(n)' => Clean(n)
  PROVE  CallKept(q)'
<1>0. PICK call : call = sqlCall[q]
  OBVIOUS
<1>1. /\ sqlCall'[q] = call /\ call \in Calls /\ ShapedCall(call) /\ KnownCall(call)
      /\ q \notin overtaken => Relied(q, call)
      /\ nextId \in [{"database", "user"} -> Int] /\ nextId' \in [{"database", "user"} -> Int]
      /\ sqlDatabase \subseteq DatabaseRows /\ sqlUser \subseteq UserRows
      /\ sqlDatabase' \subseteq DatabaseRows /\ sqlUser' \subseteq UserRows
  BY <1>0 DEF SqlInv, CallKept, Disturbs, SqlTypeOK
<1>3. KnownCall(call)'
  <2>1. ASSUME call.at \in Deleting \cup Adding
        PROVE  /\ call.id < nextId'["database"]
               /\ \A r \in sqlDatabase' : r.id = call.id => r.name = call.db /\ r.customer = call.customer
    <3>1. call.id < nextId["database"] /\ call.id \in Int
      <4>1. call.id \in RowIds
        BY <1>1, <2>1 DEF ShapedCall
      <4>2. call.id < nextId["database"]
        BY <1>1, <2>1 DEF KnownCall
      <4> QED  BY <4>1, <4>2, SqlConfigured DEF RowIds
    <3>2. \A r \in sqlDatabase' : r \notin sqlDatabase => r.id = nextId["database"]
      BY DEF Disturbs
    <3>3. nextId'["database"] >= nextId["database"]
      BY DEF Disturbs
    <3> QED  BY <1>1, <2>1, <3>1, <3>2, <3>3 DEF KnownCall
  <2>2. ASSUME NEW w \in call.rows
        PROVE  w.db = call.id /\ w.id < nextId'["user"] /\ \A v \in sqlUser' : v.id = w.id => v = w
    <3>1. w \in UserRows /\ w.id \in Int
      BY <1>1 DEF Calls, UserRows, RowIds
    <3>2. \A v \in sqlUser' : v \notin sqlUser => v.id = nextId["user"]
      BY DEF Disturbs
    <3>3. nextId'["user"] >= nextId["user"]
      BY DEF Disturbs
    <3> QED  BY <1>1, <3>1, <3>2, <3>3 DEF KnownCall
  <2> QED  BY <1>1, <2>1, <2>2 DEF KnownCall
<1>4. CASE call.at = "idle"
  <2>1. /\ call.at = "idle" /\ call.rows = {} /\ ~call.drops
    BY <1>1, <1>4 DEF ShapedCall, Idle
  <2>2. Relied(q, call)'
    BY <1>1, <2>1 DEF Relied, Found, Suits, Deleting, Removing, Adding, Dropping
  <2> QED  BY <1>1, <1>3, <2>2 DEF CallKept
<1>5. CASE call.at # "idle" /\ q \notin overtaken'
  <2>1. q \notin overtaken /\ Concerns(call) \cap T = {}
    BY <1>0, <1>5 DEF Disturbs
  <2>2. Relied(q, call)
    BY <1>1, <2>1
  <2>3. /\ call.db \in Databases => call.db \notin T
        /\ call.user \in SqlUsers => call.user \notin T
        /\ \A w \in call.rows : w.user \notin T
    <3>1. None \notin Databases \cup SqlUsers /\ \A w \in call.rows : w.user \in SqlUsers
      BY <1>1, SqlConfigured DEF Calls, UserRows
    <3> QED  BY <2>1, <3>1 DEF Concerns
  <2>4. ASSUME call.at \in {"insert database", "undo database"}  PROVE schema'[call.db] = q
    <3>1. call.db \in Databases /\ schema[call.db] = q
      BY <1>1, <2>2, <2>4 DEF ShapedCall, Making, Relied, Found
    <3> QED  BY <2>3, <3>1 DEF Disturbs
  <2>5. ASSUME call.at \in Deleting \cup Adding
        PROVE  \E r \in sqlDatabase : r.id = call.id /\ r.name = call.db /\ r \in sqlDatabase'
    <3>1. PICK r \in sqlDatabase : r.id = call.id
      BY <2>2, <2>5 DEF Relied, Found, Suits
    <3>2. r.name = call.db /\ call.db \in Databases /\ r \in DatabaseRows
      BY <1>1, <2>5, <3>1 DEF KnownCall, ShapedCall
    <3>3. r \in sqlDatabase'
      BY <2>3, <3>1, <3>2 DEF Disturbs
    <3> QED  BY <3>1, <3>2, <3>3
  <2>6. call.rows \subseteq sqlUser'
    <3>1. \A w \in call.rows : w \in UserRows /\ w \in sqlUser
      BY <1>1, <2>2 DEF Relied, Found, Suits
    <3> QED  BY <2>3, <3>1 DEF Disturbs
  <2>7. ASSUME call.drops, NEW w \in sqlUser', w.db = call.id  PROVE w \in call.rows
    <3>1. call.at \in Deleting
      BY <1>1, <2>7 DEF ShapedCall
    <3>2. PICK r \in sqlDatabase : r.id = w.db /\ r.name = call.db
      BY <2>5, <2>7, <3>1
    <3>3. call.db \notin T
      BY <1>1, <2>3, <3>1 DEF ShapedCall
    <3>4. w \in sqlUser
      BY <3>2, <3>3 DEF Disturbs
    <3> QED  BY <2>2, <2>7, <3>4 DEF Relied, Found, Suits
  <2>8. \A v \in UserRows : call.user \in SqlUsers /\ v.user = call.user => (v \in sqlUser' <=> v \in sqlUser)
    BY <2>3 DEF Disturbs
  <2>9. call.user \in SqlUsers =>
           /\ account'[call.user] = account[call.user] \/ account[call.user] = p
           /\ \A x \in Databases : <<call.user, x>> \in grants' <=> <<call.user, x>> \in grants
           /\ Clean(call.user)' => Clean(call.user)
    <3>1. call.user \in SqlUsers => call.user \in Names \ T
      BY <2>3 DEF Names
    <3> QED  BY <3>1, <2>3 DEF Disturbs
  <2>10. /\ call.at \in Removing \cup Adding \cup {"set password"} => call.user \in SqlUsers
         /\ call.at \in Deleting \cup Adding => call.db \in Databases
    BY <1>1 DEF ShapedCall
  <2>11. ASSUME call.at \in Removing
         PROVE  /\ call.whole => \A v \in sqlUser' : v.user = call.user => v.id = call.row
                /\ ~call.whole => \E v \in sqlUser' : v.user = call.user /\ v.id # call.row
    BY <1>1, <2>2, <2>8, <2>10, <2>11 DEF Relied, Found, Suits
  <2>12. ASSUME call.at = "delete user row"
         PROVE  /\ <<call.user, call.db>> \notin grants'
                /\ call.whole => account'[call.user] = None
                /\ call.whole => \A x \in Databases : <<call.user, x>> \notin grants'
    BY <2>2, <2>9, <2>10, <2>12, SqlConfigured DEF Relied, Found, Suits, Removing, Deleting, Dropping
  <2>12a. ASSUME call.at \in {"drop grants", "undo grants"}  PROVE account'[call.user] = None
    BY <2>2, <2>9, <2>10, <2>12a, SqlConfigured DEF Relied, Found, Removing, Dropping, Adding
  <2>13. ASSUME call.at = "delete database row"  PROVE schema'[call.db] = None
    <3>1. schema[call.db] = None /\ call.db \in Databases \ T /\ p # None
      BY <2>2, <2>3, <2>10, <2>13, SqlConfigured DEF Relied, Found, Suits, Deleting
    <3> QED  BY <3>1 DEF Disturbs
  <2>14. ASSUME call.at \in {"grant", "insert user", "undo user"}
         PROVE  /\ call.whole => account'[call.user] = q
                /\ ~call.whole => \A w \in sqlUser' : ~(w.user = call.user /\ w.db = call.id)
    BY <1>1, <2>2, <2>8, <2>9, <2>10, <2>14 DEF Relied, Found, Suits, Adding
  <2>15. call.at \in {"insert user", "undo user"} => <<call.user, call.db>> \in grants'
    BY <2>2, <2>9, <2>10 DEF Relied, Found, Suits, Adding
  <2>16. ASSUME call.at \in {"grant", "set password", "insert user", "undo user"}, ~call.whole, Clean(call.user)'
         PROVE  /\ call.at \in {"grant", "set password"} => account'[call.user] \in {None, call.customer}
                /\ call.at \in {"insert user", "undo user"} => account'[call.user] = call.customer
    <3>1. /\ call.customer \in SqlCustomers /\ call.user \in SqlUsers /\ p \notin SqlCustomers /\ p # None
      BY <1>1, <1>5, <2>10, <2>16, SqlConfigured DEF ShapedCall, Adding
    <3>2. Clean(call.user)
      BY <2>9, <2>16, <3>1
    <3>3. /\ call.at \in {"grant", "set password"} => account[call.user] \in {None, call.customer}
          /\ call.at \in {"insert user", "undo user"} => account[call.user] = call.customer
      BY <2>2, <2>16, <3>2 DEF Relied, Found, Suits
    <3> QED  BY <2>9, <3>1, <3>3
  <2>17. Relied(q, call)'
    BY <1>1, <2>4, <2>5, <2>6, <2>7, <2>11, <2>12, <2>12a, <2>13, <2>14, <2>15, <2>16 DEF Relied, Found, Suits
  <2> QED  BY <1>1, <1>3, <2>17 DEF CallKept
<1>6. CASE q \in overtaken'
  BY <1>1, <1>3, <1>6 DEF CallKept
<1> QED  BY <1>4, <1>5, <1>6

(* A witness other than p is still one, or the name is spoilt. *)
LEMMA HalfDoneStays ==
  ASSUME SqlInv, NEW p \in Procs, NEW T, Disturbs(p, T), NEW q \in Procs \ {p}, NEW n \in Names,
         HalfDone(q, n), Weak(n)'
  PROVE  q \notin overtaken' /\ sqlCall'[q] = sqlCall[q]
BY DEF Disturbs, Weak, Spoilt, HalfDone

LEMMA OtherDatabasesKept ==
  ASSUME SqlInv, SqlTypeOK', NEW p \in Procs, NEW T, Disturbs(p, T), Marks(p, T), NEW x \in Databases \ T
  PROVE  DatabaseKept(x)'
<1>1. /\ x \in Names \ T /\ DatabaseKept(x)
      /\ sqlDatabase \subseteq DatabaseRows /\ sqlDatabase' \subseteq DatabaseRows
  BY DEF SqlInv, SqlTypeOK, Names
<1>2. \A r \in DatabaseRows : r.name = x => (r \in sqlDatabase' <=> r \in sqlDatabase)
  BY DEF Disturbs
<1>3. ASSUME Weak(x)', leftover'[x] # {}  PROVE \E r \in sqlDatabase' : r.name = x
  <2>1. Weak(x)
    BY <1>1, <1>3, WeakBefore
  <2>2. leftover'[x] = leftover[x] \/ \E r \in sqlDatabase : r.name = x
    BY <1>3 DEF Marks, Weak
  <2> QED  BY <1>1, <1>2, <1>3, <2>1, <2>2 DEF DatabaseKept
<1>4. ASSUME Clean(x)'
      PROVE  /\ schema'[x] \in {None} \cup SqlCustomers \cup Procs
             /\ \A r, o \in sqlDatabase' : r.name = x /\ o.name = x => r = o
             /\ schema'[x] = None => \A r \in sqlDatabase' : r.name = x =>
                   \E q \in Procs \ overtaken' : sqlCall'[q].at = "delete database row" /\ sqlCall'[q].db = x
             /\ schema'[x] \in SqlCustomers => \E r \in sqlDatabase' : r.name = x /\ r.customer = schema'[x]
             /\ schema'[x] \in Procs =>
                   /\ \A r \in sqlDatabase' : r.name # x
                   /\ sqlCall'[schema'[x]].at \in {"insert database", "undo database"}
                   /\ sqlCall'[schema'[x]].db = x
  <2>1. Clean(x) /\ leftover'[x] = {} /\ Weak(x)'
    BY <1>1, <1>4, WeakBefore DEF Clean, Weak
  <2>2. schema'[x] = schema[x] /\ schema[x] # p
    BY <1>1, <2>1 DEF Marks, Disturbs
  <2>3. schema[x] = None => \A r \in sqlDatabase' : r.name = x =>
           \E q \in Procs \ overtaken' : sqlCall'[q].at = "delete database row" /\ sqlCall'[q].db = x
    <3> SUFFICES ASSUME schema[x] = None, NEW r \in sqlDatabase', r.name = x
                 PROVE  \E q \in Procs \ overtaken' : /\ sqlCall'[q].at = "delete database row"
                                                      /\ sqlCall'[q].db = x
      OBVIOUS
    <3>1. PICK q \in Procs \ overtaken : sqlCall[q].at = "delete database row" /\ sqlCall[q].db = x
      BY <1>1, <1>2, <2>1 DEF DatabaseKept
    <3>2. HalfDone(q, x)
      BY <3>1 DEF HalfDone, Half, Dropping
    <3>3. q # p
      BY <1>1, <2>1, <3>2 DEF Marks
    <3> QED  BY <1>1, <2>1, <3>1, <3>2, <3>3, HalfDoneStays
  <2>4. schema[x] \in Procs => sqlCall'[schema[x]] = sqlCall[schema[x]]
    BY <2>2 DEF Disturbs
  <2> QED  BY <1>1, <1>2, <2>1, <2>2, <2>3, <2>4 DEF DatabaseKept
<1> QED  BY <1>3, <1>4 DEF DatabaseKept

LEMMA OtherUsersKept ==
  ASSUME SqlInv, SqlTypeOK', NEW p \in Procs, NEW T, Disturbs(p, T), Marks(p, T), NEW u \in SqlUsers \ T
  PROVE  UserKept(u)'
<1>1. /\ u \in Names \ T /\ UserKept(u)
      /\ sqlUser \subseteq UserRows /\ sqlUser' \subseteq UserRows
      /\ sqlDatabase \subseteq DatabaseRows /\ sqlDatabase' \subseteq DatabaseRows
      /\ nextId \in [{"database", "user"} -> Int]
  BY DEF SqlInv, SqlTypeOK, Names
<1>2. \A w \in UserRows : w.user = u => (w \in sqlUser' <=> w \in sqlUser)
  BY DEF Disturbs
<1>3. ASSUME Weak(u)', leftover'[u] # {}  PROVE \E w \in sqlUser' : w.user = u
  <2>1. Weak(u)
    BY <1>1, <1>3, WeakBefore
  <2>2. leftover'[u] = leftover[u] \/ \E w \in sqlUser : w.user = u
    BY <1>3 DEF Marks, Weak
  <2> QED  BY <1>1, <1>2, <1>3, <2>1, <2>2 DEF UserKept
<1>4. ASSUME Clean(u)'
      PROVE  /\ account'[u] \in {None} \cup SqlCustomers \cup Procs
             /\ \A v, w \in sqlUser' : v.user = u /\ w.user = u /\ v.db = w.db => v = w
             /\ account'[u] = None => \A w \in sqlUser' : w.user = u =>
                   \E q \in Procs \ overtaken' : /\ sqlCall'[q].at \in Dropping /\ sqlCall'[q].whole
                                                 /\ sqlCall'[q].user = u
             /\ account'[u] \in SqlCustomers =>
                   /\ \E w \in sqlUser' : w.user = u
                   /\ \A w \in sqlUser', r \in sqlDatabase' : w.user = u /\ r.id = w.db => r.customer = account'[u]
                   /\ password'[u] = account'[u]
             /\ account'[u] \in Procs =>
                   /\ \A w \in sqlUser' : w.user # u
                   /\ sqlCall'[account'[u]].at \in {"grant", "insert user", "undo user"}
                   /\ sqlCall'[account'[u]].whole /\ sqlCall'[account'[u]].user = u
                   /\ password'[u] = sqlCall'[account'[u]].customer
  <2>1. Clean(u) /\ leftover'[u] = {} /\ Weak(u)'
    BY <1>1, <1>4, WeakBefore DEF Clean, Weak
  <2>2. account'[u] = account[u] /\ account[u] # p /\ password'[u] = password[u]
    BY <1>1, <2>1 DEF Marks, Disturbs
  <2>3. account[u] = None => \A w \in sqlUser' : w.user = u =>
           \E q \in Procs \ overtaken' : /\ sqlCall'[q].at \in Dropping /\ sqlCall'[q].whole
                                         /\ sqlCall'[q].user = u
    <3> SUFFICES ASSUME account[u] = None, NEW w \in sqlUser', w.user = u
                 PROVE  \E q \in Procs \ overtaken' : /\ sqlCall'[q].at \in Dropping /\ sqlCall'[q].whole
                                                      /\ sqlCall'[q].user = u
      OBVIOUS
    <3>1. PICK q \in Procs \ overtaken : /\ sqlCall[q].at \in Dropping /\ sqlCall[q].whole
                                         /\ sqlCall[q].user = u
      BY <1>1, <1>2, <2>1 DEF UserKept
    <3>2. HalfDone(q, u)
      BY <3>1 DEF HalfDone, Half, Dropping
    <3>3. q # p
      BY <1>1, <2>1, <3>2 DEF Marks
    <3> QED  BY <1>1, <2>1, <3>1, <3>2, <3>3, HalfDoneStays
  <2>4. account[u] \in Procs => sqlCall'[account[u]] = sqlCall[account[u]]
    BY <2>2 DEF Disturbs
  <2>5. \A w \in sqlUser, r \in sqlDatabase' : r.id = w.db => r \in sqlDatabase
    <3>1. \A w \in sqlUser : w.db < nextId["database"] /\ w.db \in Int
      BY <1>1, SqlConfigured DEF SqlInv, Numbered, UserRows, RowIds
    <3> QED  BY <1>1, <3>1 DEF Disturbs
  <2>6. account[u] \in SqlCustomers =>
           \A w \in sqlUser', r \in sqlDatabase' : w.user = u /\ r.id = w.db => r.customer = account[u]
    BY <1>1, <1>2, <2>1, <2>5 DEF UserKept
  <2>7. account[u] \in SqlCustomers => (\E w \in sqlUser' : w.user = u) /\ password[u] = account[u]
    BY <1>1, <1>2, <2>1 DEF UserKept
  <2>8. \A v, w \in sqlUser' : v.user = u /\ w.user = u /\ v.db = w.db => v = w
    BY <1>1, <1>2, <2>1 DEF UserKept
  <2>9. /\ account[u] \in {None} \cup SqlCustomers \cup Procs
        /\ account[u] \in Procs =>
             /\ \A w \in sqlUser' : w.user # u
             /\ sqlCall[account[u]].at \in {"grant", "insert user", "undo user"}
             /\ sqlCall[account[u]].whole /\ sqlCall[account[u]].user = u
             /\ password[u] = sqlCall[account[u]].customer
    BY <1>1, <1>2, <2>1 DEF UserKept
  <2> QED  BY <2>2, <2>3, <2>4, <2>6, <2>7, <2>8, <2>9
<1> QED  BY <1>3, <1>4 DEF UserKept

LEMMA GrantStays ==
  ASSUME SqlInv, NEW p \in Procs, NEW T, Disturbs(p, T), Marks(p, T),
         NEW u \in SqlUsers, NEW x \in Databases,
         u \notin T \/ sqlCall[p].at \notin {"insert user", "undo user", "undo grants", "delete user row"},
         <<u, x>> \in grants' => <<u, x>> \in grants,
         Weak(u)' /\ Weak(x)' /\ <<u, x>> \in grants' /\ Grantee(u, x) => Grantee(u, x)',
         Clean(u)' /\ Clean(x)' /\ Grantee(u, x)' => Clean(u) /\ Clean(x) /\ Grantee(u, x),
         Clean(u)' /\ Clean(x)' /\ <<u, x>> \in grants => <<u, x>> \in grants' \/ RevokedBy(p, u, x)'
  PROVE  GrantKept(u, x)'
<1>1. u \in Names /\ x \in Names /\ GrantKept(u, x)
  BY DEF SqlInv, Names
<1>2. ASSUME NEW q \in Procs, GrantedBy(q, u, x), Weak(u)'  PROVE GrantedBy(q, u, x)'
  <2>1. HalfDone(q, u) /\ sqlCall[q].at \in {"insert user", "undo user", "undo grants"}
    BY <1>2 DEF GrantedBy, HalfDone, Half, Undoing, Dropping
  <2>2. ASSUME q = p  PROVE FALSE
    <3>1. u \in Names \ T
      BY <1>1, <2>1, <2>2
    <3>2. "create" \in leftover'[u]
      BY <2>1, <2>2, <3>1 DEF Marks, Undoing
    <3> QED  BY <1>2, <3>2 DEF Weak
  <2> QED  BY <1>1, <1>2, <2>1, <2>2, HalfDoneStays DEF GrantedBy
<1>3. ASSUME NEW q \in Procs, RevokedBy(q, u, x), Clean(u)'  PROVE RevokedBy(q, u, x)'
  <2>1. HalfDone(q, u) /\ sqlCall[q].at = "delete user row"
    BY <1>3 DEF RevokedBy, HalfDone, Half, Dropping
  <2>2. ASSUME q = p  PROVE FALSE
    <3>1. u \in Names \ T
      BY <1>1, <2>1, <2>2
    <3>2. leftover'[u] # {}
      BY <2>1, <2>2, <3>1 DEF Marks
    <3> QED  BY <1>3, <3>2 DEF Clean
  <2>3. Weak(u)'
    BY <1>3 DEF Weak, Clean
  <2> QED  BY <1>1, <1>3, <2>1, <2>2, <2>3, HalfDoneStays DEF RevokedBy
<1>4. ASSUME Weak(u)', Weak(x)', <<u, x>> \in grants'
      PROVE  Grantee(u, x)' \/ \E q \in Procs : GrantedBy(q, u, x)'
  BY <1>1, <1>2, <1>4, WeakBefore DEF GrantKept
<1>5. ASSUME Clean(u)', Clean(x)', Grantee(u, x)'
      PROVE  <<u, x>> \in grants' \/ \E q \in Procs : RevokedBy(q, u, x)'
  BY <1>1, <1>3, <1>5 DEF GrantKept
<1> QED  BY <1>4, <1>5 DEF GrantKept

(* Put together: what a step owes is its own call and the names it touches. *)
LEMMA StepKeeps ==
  ASSUME SqlInv, SqlTypeOK', Numbered', NEW p \in Procs, NEW T, Disturbs(p, T), Marks(p, T), CallKept(p)',
         \A x \in Databases \cap T : DatabaseKept(x)',
         \A u \in SqlUsers \cap T : UserKept(u)',
         \A u \in SqlUsers, x \in Databases : GrantKept(u, x)'
  PROVE  SqlInv'
<1>1. \A q \in Procs \ {p} : CallKept(q)'
  BY OtherCallsKept, WeakBefore
<1>2. \A x \in Databases \ T : DatabaseKept(x)'
  BY OtherDatabasesKept
<1>3. \A u \in SqlUsers \ T : UserKept(u)'
  BY OtherUsersKept
<1> QED  BY <1>1, <1>2, <1>3 DEF SqlInv

---------------------------------------------------------------------------
(* How calls change. *)

LEMMA CallChange ==
  ASSUME SqlTypeOK, NEW p \in Procs, NEW call \in Calls, sqlCall' = [sqlCall EXCEPT ![p] = call]
  PROVE  /\ sqlCall' \in [Procs -> Calls]
         /\ sqlCall'[p] = call
         /\ \A q \in Procs \ {p} : sqlCall'[q] = sqlCall[q]
BY DEF SqlTypeOK

LEMMA IdleIsCall == Idle \in Calls
BY DEF Idle, Calls, Points

(* A call that has moved to another point. *)
Moved(call, was, point) ==
    /\ call.at = point
    /\ call.customer = was.customer /\ call.id = was.id /\ call.db = was.db
    /\ call.user = was.user /\ call.row = was.row /\ call.rows = was.rows
    /\ call.whole <=> was.whole
    /\ call.drops <=> was.drops

LEMMA GotoChange ==
  ASSUME SqlTypeOK, NEW p \in Procs, NEW point \in Points, Goto(p, point), NEW was, was = sqlCall[p]
  PROVE  \E call \in Calls : sqlCall' = [sqlCall EXCEPT ![p] = call] /\ Moved(call, was, point)
<1> DEFINE call == [was EXCEPT !.at = point]
<1>1. was \in Calls
  BY DEF SqlTypeOK
<1>2. call \in Calls /\ call.at = point
  BY <1>1 DEF Calls
<1>3. /\ call.customer = was.customer /\ call.id = was.id /\ call.db = was.db
      /\ call.user = was.user /\ call.row = was.row /\ call.rows = was.rows
  BY <1>1 DEF Calls
<1>4. call.whole = was.whole
  BY <1>1 DEF Calls
<1>5. call.drops = was.drops
  BY <1>1 DEF Calls
<1>6. sqlCall' = [sqlCall EXCEPT ![p] = call]
  BY DEF Goto
<1> HIDE DEF call
<1>7. Moved(call, was, point)
  BY <1>2, <1>3, <1>4, <1>5 DEF Moved
<1> QED  BY <1>2, <1>6, <1>7

---------------------------------------------------------------------------
(* Steps that touch nothing: the checks, and the statements that fail.     *)

LEMMA LookKeeps ==
  ASSUME SqlInv, NEW p \in Procs, NEW call \in Calls, sqlCall' = [sqlCall EXCEPT ![p] = call], Look(p),
         UNCHANGED <<server, tables>>, callsLeft' \in 0..MaxCalls,
         sqlCall[p].at \notin Half,
         sqlCall[p].at = "grant" => account[sqlCall[p].user] # p,
         ShapedCall(call), KnownCall(call), p \notin overtaken \/ sqlCall[p].at = "idle" => Relied(p, call)
  PROVE  SqlInv'
<1>1. /\ SqlTypeOK /\ UNCHANGED <<schema, account, password, grants, sqlDatabase, sqlUser, nextId, leftover>>
      /\ overtaken' = {q \in overtaken : sqlCall'[q].at # "idle"} /\ overtaken \subseteq Procs
  BY DEF SqlInv, SqlTypeOK, Look, server, tables
<1>2. /\ sqlCall' \in [Procs -> Calls] /\ sqlCall'[p] = call
      /\ \A q \in Procs \ {p} : sqlCall'[q] = sqlCall[q]
  BY <1>1, CallChange
<1>3. SqlTypeOK' /\ Numbered'
  <2>1. SqlTypeOK'
    BY <1>1, <1>2 DEF SqlTypeOK
  <2> QED  BY <1>1, <2>1 DEF SqlInv, Numbered
<1>4. Disturbs(p, {})
  BY <1>1, <1>2, <1>3 DEF Disturbs, SqlTypeOK, RowIds
<1>5. Marks(p, {})
  <2>1. \A n : ~HalfDone(p, n)
    BY DEF HalfDone
  <2>2. ASSUME NEW u \in SqlUsers, account[u] = p, Clean(u)  PROVE FALSE
    <3>1. sqlCall[p].at \in {"grant", "insert user", "undo user"} /\ sqlCall[p].user = u
      BY <2>2 DEF SqlInv, UserKept
    <3> QED  BY <2>2, <3>1 DEF Half, Undoing, Dropping
  <2>3. ASSUME NEW x \in Databases, schema[x] = p, Clean(x)  PROVE FALSE
    <3>1. sqlCall[p].at \in {"insert database", "undo database"}
      BY <2>3 DEF SqlInv, DatabaseKept
    <3> QED  BY <3>1 DEF Half, Undoing, Dropping
  <2> QED  BY <1>1, <2>1, <2>2, <2>3 DEF Marks, Names
<1>6. CallKept(p)'
  <2>1. \A n \in Names : Clean(n)' => Clean(n)
    BY <1>4, <1>5, WeakBefore
  <2>2. KnownCall(call)'
    BY <1>1 DEF KnownCall
  <2>3. p \notin overtaken' => p \notin overtaken \/ call.at = "idle"
    BY <1>1, <1>2
  <2>4. ASSUME Relied(p, call)  PROVE Relied(p, call)'
    <3>1. call.at \in {"grant", "set password", "insert user", "undo user"} => call.user \in Names
      BY DEF ShapedCall, Adding, Names
    <3>2. call.at \in {"grant", "set password", "insert user", "undo user"} /\ Clean(call.user)' => Clean(call.user)
      BY <2>1, <3>1
    <3>3. /\ schema' = schema /\ account' = account /\ grants' = grants
          /\ sqlDatabase' = sqlDatabase /\ sqlUser' = sqlUser
      BY <1>1
    <3>4. /\ call.at \in {"grant", "set password"} /\ ~call.whole /\ Clean(call.user)' =>
                account[call.user] \in {None, call.customer}
          /\ call.at \in {"insert user", "undo user"} /\ ~call.whole /\ Clean(call.user)' =>
                account[call.user] = call.customer
      BY <2>4, <3>2 DEF Relied, Suits
    <3>5. Found(p, call)'
      BY <2>4, <3>3 DEF Relied, Found
    <3> QED  BY <3>3, <3>4, <3>5 DEF Relied, Suits
  <2>5. ASSUME call.at = "idle"  PROVE Relied(p, call)
    <3>1. call = Idle
      BY <2>5 DEF ShapedCall
    <3>2. call.at = "idle" /\ call.rows = {} /\ ~call.drops
      BY <3>1 DEF Idle
    <3> QED  BY <3>2 DEF Relied, Found, Suits, Deleting, Removing, Adding, Dropping
  <2> QED  BY <1>2, <2>2, <2>3, <2>4, <2>5 DEF CallKept
<1>7. ASSUME NEW u \in SqlUsers, NEW x \in Databases  PROVE GrantKept(u, x)'
  <2>1. Grantee(u, x)' <=> Grantee(u, x)
    BY <1>1 DEF Grantee
  <2>2. u \in Names /\ x \in Names
    BY DEF Names
  <2>3. (Clean(u)' => Clean(u)) /\ (Clean(x)' => Clean(x))
    BY <1>4, <1>5, <2>2, WeakBefore
  <2>4. <<u, x>> \in grants' <=> <<u, x>> \in grants
    BY <1>1
  <2>5. u \notin {}
    OBVIOUS
  <2> QED  BY <1>4, <1>5, <2>1, <2>3, <2>4, <2>5, GrantStays
<1> QED  BY <1>3, <1>4, <1>5, <1>6, <1>7, StepKeeps

LEMMA BeginKeeps ==
  ASSUME SqlInv, NEW p \in Procs, NEW call \in Calls, Begin(p, call), UNCHANGED <<server, tables>>,
         ShapedCall(call), KnownCall(call), Relied(p, call)
  PROVE  SqlInv'
<1>1. sqlCall' = [sqlCall EXCEPT ![p] = call] /\ Look(p) /\ sqlCall[p].at = "idle"
  BY DEF Begin
<1>2. callsLeft' \in 0..MaxCalls
  BY SqlConfigured DEF Begin, SqlInv, SqlTypeOK
<1>3. sqlCall[p].at \notin Half /\ sqlCall[p].at # "grant"
  BY <1>1 DEF Half, Undoing, Dropping
<1> QED  BY <1>1, <1>2, <1>3, LookKeeps

LEMMA EndKeeps ==
  ASSUME SqlInv, NEW p \in Procs, End(p), Look(p), UNCHANGED <<server, tables>>,
         sqlCall[p].at \notin Half, sqlCall[p].at = "grant" => account[sqlCall[p].user] # p
  PROVE  SqlInv'
<1>1. sqlCall' = [sqlCall EXCEPT ![p] = Idle] /\ Idle \in Calls /\ callsLeft' \in 0..MaxCalls
  BY IdleIsCall DEF End, SqlInv, SqlTypeOK
<1>2. Idle.at = "idle" /\ Idle.rows = {} /\ ~Idle.drops
  BY DEF Idle
<1>3. ShapedCall(Idle) /\ KnownCall(Idle) /\ Relied(p, Idle)
  BY <1>2 DEF ShapedCall, KnownCall, Relied, Found, Suits, Making, Deleting, Removing, Adding, Dropping
<1> QED  BY <1>1, <1>3, LookKeeps

LEMMA CreateDatabaseCheckKeeps ==
  ASSUME SqlInv, NEW p \in Procs, NEW c \in SqlCustomers, NEW x \in Databases, CreateDatabaseCheck(p, c, x)
  PROVE  SqlInv'
<1> DEFINE call == [Idle EXCEPT !.at = "create database", !.customer = c, !.db = x]
<1>1. /\ call \in Calls /\ call.at = "create database" /\ call.customer = c /\ call.db = x
      /\ call.user = None /\ call.rows = {} /\ ~call.drops
  BY DEF Idle, Calls, Points
<1>2. Begin(p, call) /\ UNCHANGED <<server, tables>>
  BY DEF CreateDatabaseCheck
<1> HIDE DEF call
<1>3. ShapedCall(call) /\ KnownCall(call) /\ Relied(p, call)
  BY <1>1 DEF ShapedCall, KnownCall, Relied, Found, Suits, Making, Deleting, Removing, Adding, Dropping
<1> QED  BY <1>1, <1>2, <1>3, BeginKeeps

(* What a row tells the operation that begins with it. *)
LEMMA RowKnown ==
  ASSUME SqlInv, NEW r \in sqlDatabase
  PROVE  /\ r.id \in RowIds /\ r.name \in Databases /\ r.customer \in SqlCustomers
         /\ r.id < nextId["database"]
         /\ \A o \in sqlDatabase : o.id = r.id => o = r
         /\ {w \in sqlUser : w.db = r.id} \subseteq UserRows
BY DEF SqlInv, SqlTypeOK, Numbered, DatabaseRows

LEMMA UserRowKnown ==
  ASSUME SqlInv, NEW w \in sqlUser
  PROVE  /\ w.id \in RowIds /\ w.user \in SqlUsers /\ w \in UserRows /\ w.id < nextId["user"]
         /\ \A v \in sqlUser : v.id = w.id => v = w
BY DEF SqlInv, SqlTypeOK, Numbered, UserRows

LEMMA DeleteDatabaseCheckKeeps ==
  ASSUME SqlInv, NEW p \in Procs, NEW r \in sqlDatabase, DeleteDatabaseCheck(p, r)
  PROVE  SqlInv'
<1> DEFINE users == {w \in sqlUser : w.db = r.id}
<1> DEFINE point == IF users = {} THEN "drop database" ELSE "count"
<1> DEFINE call == [Idle EXCEPT !.at = point, !.customer = r.customer, !.id = r.id, !.db = r.name,
                                !.rows = users, !.drops = TRUE]
<1>1. /\ users \subseteq UserRows /\ point \in {"drop database", "count"} /\ r.id \in RowIds
      /\ r.name \in Databases /\ r.customer \in SqlCustomers
  BY RowKnown
<1>2. point = "drop database" => users = {}
  OBVIOUS
<1>3. Begin(p, call) /\ UNCHANGED <<server, tables>>
  BY DEF DeleteDatabaseCheck
<1>4. \A w \in users : w \in sqlUser /\ w.db = r.id
  OBVIOUS
<1>5. \A w \in sqlUser : w.db = r.id => w \in users
  OBVIOUS
<1> HIDE DEF users, point
<1>6. /\ call \in Calls /\ call.at = point /\ call.customer = r.customer /\ call.id = r.id /\ call.db = r.name
      /\ call.user = None /\ call.rows = users /\ call.drops
  BY <1>1 DEF Idle, Calls, Points
<1> HIDE DEF call
<1>7. ShapedCall(call)
  BY <1>1, <1>2, <1>4, <1>6, UserRowKnown DEF ShapedCall, Making, Deleting, Removing, Adding, Dropping
<1>8. KnownCall(call)
  BY <1>4, <1>6, RowKnown, UserRowKnown DEF KnownCall
<1>9. Relied(p, call)
  BY <1>1, <1>4, <1>5, <1>6 DEF Relied, Found, Suits, Deleting, Removing, Adding, Dropping
<1> QED  BY <1>3, <1>6, <1>7, <1>8, <1>9, BeginKeeps

LEMMA DeleteUserCheckKeeps ==
  ASSUME SqlInv, NEW p \in Procs, NEW r \in sqlDatabase, NEW w \in sqlUser, DeleteUserCheck(p, r, w)
  PROVE  SqlInv'
<1> DEFINE call == [Idle EXCEPT !.at = "count", !.customer = r.customer, !.id = r.id, !.db = r.name, !.rows = {w}]
<1>1. /\ r.id \in RowIds /\ r.name \in Databases /\ r.customer \in SqlCustomers /\ w \in UserRows
      /\ r.id = w.db
  BY RowKnown, UserRowKnown DEF DeleteUserCheck
<1>2. Begin(p, call) /\ UNCHANGED <<server, tables>>
  BY DEF DeleteUserCheck
<1>3. /\ call \in Calls /\ call.at = "count" /\ call.customer = r.customer /\ call.id = r.id /\ call.db = r.name
      /\ call.user = None /\ call.rows = {w} /\ ~call.drops
  BY <1>1 DEF Idle, Calls, Points
<1> HIDE DEF call
<1>4. ShapedCall(call)
  BY <1>1, <1>3 DEF ShapedCall, Making, Deleting, Removing, Adding, Dropping
<1>5. KnownCall(call)
  BY <1>1, <1>3, RowKnown, UserRowKnown DEF KnownCall
<1>6. Relied(p, call)
  BY <1>1, <1>3 DEF Relied, Found, Suits, Deleting, Removing, Adding, Dropping
<1> QED  BY <1>2, <1>3, <1>4, <1>5, <1>6, BeginKeeps

LEMMA CreateUserCheckKeeps ==
  ASSUME SqlInv, NEW p \in Procs, NEW r \in sqlDatabase, NEW u \in SqlUsers, CreateUserCheck(p, r, u)
  PROVE  SqlInv'
<1> DEFINE call == [Idle EXCEPT !.at = "create user", !.customer = r.customer, !.id = r.id, !.db = r.name,
                                !.user = u, !.whole = TRUE]
<1>1. r.id \in RowIds /\ r.name \in Databases /\ r.customer \in SqlCustomers
  BY RowKnown
<1>2. Begin(p, call) /\ UNCHANGED <<server, tables>>
  BY DEF CreateUserCheck
<1>3. /\ call \in Calls /\ call.at = "create user" /\ call.customer = r.customer /\ call.id = r.id
      /\ call.db = r.name /\ call.user = u /\ call.rows = {} /\ ~call.drops /\ call.whole
  BY <1>1 DEF Idle, Calls, Points
<1> HIDE DEF call
<1>4. ShapedCall(call)
  BY <1>1, <1>3 DEF ShapedCall, Making, Deleting, Removing, Adding, Dropping
<1>5. KnownCall(call)
  BY <1>1, <1>3, RowKnown DEF KnownCall
<1>6. Relied(p, call)
  BY <1>1, <1>3 DEF Relied, Found, Suits, Deleting, Removing, Adding, Dropping
<1> QED  BY <1>2, <1>3, <1>4, <1>5, <1>6, BeginKeeps

(* A user without marks belongs to the customer of each of its rows. *)
LEMMA OwnerOfUser ==
  ASSUME SqlInv, NEW w \in sqlUser, NEW r \in sqlDatabase, r.id = w.db, Clean(w.user)
  PROVE  account[w.user] \in {None, r.customer}
<1>1. UserKept(w.user) /\ r.customer \in SqlCustomers
  BY RowKnown, UserRowKnown DEF SqlInv
<1> QED  BY <1>1 DEF UserKept

LEMMA GrantCheckKeeps ==
  ASSUME SqlInv, NEW p \in Procs, NEW r \in sqlDatabase, NEW w \in sqlUser, GrantCheck(p, r, w)
  PROVE  SqlInv'
<1> DEFINE call == [Idle EXCEPT !.at = "grant", !.customer = r.customer, !.id = r.id, !.db = r.name, !.user = w.user]
<1>1. r.id \in RowIds /\ r.name \in Databases /\ r.customer \in SqlCustomers /\ w.user \in SqlUsers
  BY RowKnown, UserRowKnown
<1>2. Begin(p, call) /\ UNCHANGED <<server, tables>>
  BY DEF GrantCheck
<1>3. /\ call \in Calls /\ call.at = "grant" /\ call.customer = r.customer /\ call.id = r.id
      /\ call.db = r.name /\ call.user = w.user /\ call.rows = {} /\ ~call.drops /\ ~call.whole
  BY <1>1 DEF Idle, Calls, Points
<1>4. Clean(w.user) => account[w.user] \in {None, r.customer}
  <2>1. PICK o \in sqlDatabase : o.id = w.db /\ o.customer = r.customer
    BY DEF GrantCheck, OwnerRow
  <2> QED  BY <2>1, OwnerOfUser
<1>5. \A v \in sqlUser : ~(v.user = w.user /\ v.db = r.id)
  BY DEF GrantCheck, Granted
<1> HIDE DEF call
<1>6. ShapedCall(call)
  BY <1>1, <1>3 DEF ShapedCall, Making, Deleting, Removing, Adding, Dropping
<1>7. KnownCall(call)
  BY <1>1, <1>3, RowKnown DEF KnownCall
<1>8. Relied(p, call)
  BY <1>1, <1>3, <1>4, <1>5 DEF Relied, Found, Suits, Deleting, Removing, Adding, Dropping
<1> QED  BY <1>2, <1>3, <1>6, <1>7, <1>8, BeginKeeps

LEMMA SetPasswordCheckKeeps ==
  ASSUME SqlInv, NEW p \in Procs, NEW r \in sqlDatabase, NEW w \in sqlUser, SetPasswordCheck(p, r, w)
  PROVE  SqlInv'
<1> DEFINE call == [Idle EXCEPT !.at = "set password", !.customer = r.customer, !.user = w.user]
<1>1. r.customer \in SqlCustomers /\ w.user \in SqlUsers
  BY RowKnown, UserRowKnown
<1>2. Begin(p, call) /\ UNCHANGED <<server, tables>> /\ r.id = w.db
  BY DEF SetPasswordCheck
<1>3. /\ call \in Calls /\ call.at = "set password" /\ call.customer = r.customer /\ call.db = None
      /\ call.user = w.user /\ call.rows = {} /\ ~call.drops /\ ~call.whole
  BY <1>1 DEF Idle, Calls, Points
<1>4. Clean(w.user) => account[w.user] \in {None, r.customer}
  BY <1>2, OwnerOfUser
<1> HIDE DEF call
<1>5. ShapedCall(call)
  BY <1>1, <1>3 DEF ShapedCall, Making, Deleting, Removing, Adding, Dropping
<1>6. KnownCall(call)
  BY <1>3 DEF KnownCall, Deleting, Removing, Adding, Dropping
<1>7. Relied(p, call)
  BY <1>3, <1>4 DEF Relied, Found, Suits, Deleting, Removing, Adding, Dropping
<1> QED  BY <1>2, <1>3, <1>5, <1>6, <1>7, BeginKeeps

LEMMA AtMostOne ==
  ASSUME NEW S, IsFiniteSet(S), NEW a \in S
  PROVE  Cardinality(S) < 2 <=> S = {a}
<1>1. IsFiniteSet(S \ {a}) /\ Cardinality(S \ {a}) = Cardinality(S) - 1 /\ Cardinality(S) \in Nat
  BY FS_RemoveElement, FS_CardinalityType
<1>2. Cardinality(S \ {a}) = 0 <=> S \ {a} = {}
  BY <1>1, FS_EmptySet
<1>3. Cardinality(S) > 0
  BY <1>1, FS_CardinalityType
<1>4. S \ {a} = {} <=> S = {a}
  OBVIOUS
<1> QED  BY <1>1, <1>2, <1>3, <1>4

LEMMA FiniteRows ==
  ASSUME SqlInv, NEW u, NEW x
  PROVE  /\ IsFiniteSet(RowsOfUser(u)) /\ IsFiniteSet({r \in sqlDatabase : r.name = x})
BY FS_Subset DEF SqlInv, Numbered, RowsOfUser

LEMMA RemoveUserCountKeeps ==
  ASSUME SqlInv, NEW p \in Procs, RemoveUserCount(p)
  PROVE  SqlInv'
<1>1. PICK was : was = sqlCall[p]
  OBVIOUS
<1>2. /\ was \in Calls /\ was.at = "count" /\ ShapedCall(was) /\ KnownCall(was)
      /\ p \notin overtaken => Relied(p, was)
  BY <1>1 DEF RemoveUserCount, At, SqlInv, SqlTypeOK, CallKept
<1>3. PICK w \in was.rows :
         sqlCall' = [sqlCall EXCEPT ![p] =
                       [was EXCEPT !.at = IF Cardinality(RowsOfUser(w.user)) < 2 THEN "drop user" ELSE "revoke",
                                   !.user = w.user, !.row = w.id, !.whole = (Cardinality(RowsOfUser(w.user)) < 2)]]
  BY <1>1 DEF RemoveUserCount
<1> DEFINE last == Cardinality(RowsOfUser(w.user)) < 2
<1> DEFINE call == [was EXCEPT !.at = IF last THEN "drop user" ELSE "revoke",
                               !.user = w.user, !.row = w.id, !.whole = last]
<1>4. w \in UserRows /\ w.user \in SqlUsers /\ w.id \in RowIds /\ last \in BOOLEAN
  BY <1>2 DEF Calls, UserRows
<1>5. sqlCall' = [sqlCall EXCEPT ![p] = call]
  BY <1>3
<1>6. p \notin overtaken =>
         /\ w \in sqlUser
         /\ last => \A v \in sqlUser : v.user = w.user => v.id = w.id
         /\ ~last => \E v \in sqlUser : v.user = w.user /\ v.id # w.id
  <2> SUFFICES ASSUME p \notin overtaken
               PROVE  /\ w \in sqlUser
                      /\ last => \A v \in sqlUser : v.user = w.user => v.id = w.id
                      /\ ~last => \E v \in sqlUser : v.user = w.user /\ v.id # w.id
    OBVIOUS
  <2>1. w \in sqlUser
    BY <1>2 DEF Relied, Found
  <2>2. w \in RowsOfUser(w.user)
    BY <2>1 DEF RowsOfUser
  <2>3. last <=> RowsOfUser(w.user) = {w}
    BY <2>2, AtMostOne, FiniteRows
  <2>4. last => \A v \in sqlUser : v.user = w.user => v.id = w.id
    BY <2>3 DEF RowsOfUser
  <2>5. ~last => \E v \in sqlUser : v.user = w.user /\ v.id # w.id
    <3> SUFFICES ASSUME ~last PROVE \E v \in sqlUser : v.user = w.user /\ v.id # w.id
      OBVIOUS
    <3>1. PICK v \in RowsOfUser(w.user) : v # w
      BY <2>2, <2>3
    <3> QED  BY <2>1, <3>1, UserRowKnown DEF RowsOfUser
  <2> QED  BY <2>1, <2>4, <2>5
<1> HIDE DEF last
<1>7. /\ call \in Calls /\ call.customer = was.customer /\ call.id = was.id /\ call.db = was.db
      /\ call.user = w.user /\ call.row = w.id /\ call.rows = was.rows
  BY <1>2, <1>4 DEF Calls, Points
<1>8. /\ last => call.at = "drop user" /\ call.whole
      /\ ~last => call.at = "revoke" /\ ~call.whole
  <2>1. call.whole = last
    BY <1>2, <1>4 DEF Calls
  <2>2. call.at = IF last THEN "drop user" ELSE "revoke"
    BY <1>2 DEF Calls
  <2> QED  BY <2>1, <2>2
<1>9. call.drops = was.drops
  BY <1>2 DEF Calls
<1> HIDE DEF call
<1>10. ShapedCall(call)
  <2>1. /\ was.customer \in SqlCustomers /\ was.id \in RowIds /\ was.db \in Databases
        /\ \A v, o \in was.rows : v.id = o.id => v = o
    BY <1>2 DEF ShapedCall, Deleting
  <2> QED  BY <1>4, <1>7, <1>8, <2>1 DEF ShapedCall, Making, Deleting, Removing, Adding, Dropping
<1>11. KnownCall(call)
  BY <1>2, <1>7, <1>8 DEF KnownCall, Deleting
<1>12. p \notin overtaken => Relied(p, call)
  <2>1. p \notin overtaken =>
           /\ \E r \in sqlDatabase : r.id = was.id
           /\ was.rows \subseteq sqlUser
           /\ was.drops => \A v \in sqlUser : v.db = was.id => v \in was.rows
    BY <1>2 DEF Relied, Found, Deleting
  <2> QED  BY <1>6, <1>7, <1>8, <1>9, <2>1 DEF Relied, Found, Suits, Deleting, Removing, Adding, Dropping
<1>13. Look(p) /\ UNCHANGED <<server, tables>> /\ callsLeft' \in 0..MaxCalls
  BY DEF RemoveUserCount, SqlInv, SqlTypeOK
<1>14. sqlCall[p].at = "count" /\ sqlCall[p].at \notin Half /\ sqlCall[p].at # "grant"
  BY <1>1, <1>2 DEF Half, Undoing, Dropping
<1> QED  BY <1>5, <1>7, <1>10, <1>11, <1>12, <1>13, <1>14, LookKeeps

---------------------------------------------------------------------------
(* A row that fails leaves the operation as half done as it was. *)
LEMMA RowFailsKeeps ==
  ASSUME SqlInv, NEW p \in Procs, CreateDatabaseRowFails(p) \/ CreateUserRowFails(p)
  PROVE  SqlInv'
<1>1. PICK was : was = sqlCall[p]
  OBVIOUS
<1>2. PICK point : /\ \/ was.at = "insert database" /\ point = "undo database"
                      \/ was.at = "insert user" /\ point = "undo user"
                   /\ Goto(p, point) /\ Look(p) /\ UNCHANGED <<server, tables>>
  BY <1>1 DEF CreateDatabaseRowFails, CreateUserRowFails, At
<1>3. /\ SqlTypeOK /\ was \in Calls /\ ShapedCall(was) /\ KnownCall(was)
      /\ p \notin overtaken => Relied(p, was)
      /\ point \in Points
  BY <1>1, <1>2 DEF SqlInv, SqlTypeOK, CallKept, Points
<1>4. PICK call \in Calls : sqlCall' = [sqlCall EXCEPT ![p] = call] /\ Moved(call, was, point)
  BY <1>1, <1>2, <1>3, GotoChange
<1>5. /\ sqlCall' \in [Procs -> Calls] /\ sqlCall'[p] = call
      /\ \A q \in Procs \ {p} : sqlCall'[q] = sqlCall[q]
  BY <1>3, <1>4, CallChange
<1>6. /\ UNCHANGED <<schema, account, password, grants, sqlDatabase, sqlUser, nextId, leftover, callsLeft>>
      /\ overtaken' = {q \in overtaken : sqlCall'[q].at # "idle"} /\ overtaken \subseteq Procs
  BY <1>2, <1>3 DEF Goto, Look, server, tables, SqlTypeOK
<1>7. SqlTypeOK' /\ Numbered'
  <2>1. SqlTypeOK'
    BY <1>3, <1>5, <1>6 DEF SqlTypeOK
  <2> QED  BY <1>6, <2>1 DEF SqlInv, Numbered
<1>8. \A n : \A q \in Procs : HalfDone(q, n)' <=> HalfDone(q, n)
  BY <1>1, <1>2, <1>4, <1>5 DEF Moved, HalfDone, Half, Undoing, Dropping
<1>9. \A n : \A q \in Procs : HalfDone(q, n) => (q \in overtaken' <=> q \in overtaken)
  <2>1. \A n : \A q \in Procs : HalfDone(q, n)' => sqlCall'[q].at # "idle"
    BY DEF HalfDone, Half, Undoing, Dropping
  <2> QED  BY <1>6, <1>8, <2>1
<1>10. \A n : Spoilt(n)' <=> Spoilt(n)
  <2>1. overtaken' \subseteq overtaken
    BY <1>6
  <2> QED  BY <1>6, <1>8, <1>9, <2>1 DEF Spoilt
<1>11. \A n : (Weak(n)' <=> Weak(n)) /\ (Clean(n)' <=> Clean(n))
  BY <1>6, <1>10 DEF Weak, Clean
<1>12. Disturbs(p, {})
  BY <1>5, <1>6, <1>7 DEF Disturbs, SqlTypeOK, RowIds
<1>13. \A q \in Procs \ {p} : CallKept(q)'
  BY <1>7, <1>11, <1>12, OtherCallsKept
<1>14. CallKept(p)'
  <2>1. ShapedCall(call)
    BY <1>2, <1>3, <1>4 DEF Moved, ShapedCall, Making, Deleting, Removing, Adding, Dropping
  <2>2. KnownCall(call)'
    BY <1>2, <1>3, <1>4, <1>6 DEF Moved, KnownCall, Adding, Deleting, Removing, Dropping
  <2>3. ASSUME p \notin overtaken  PROVE Found(p, call)'
    BY <1>2, <1>3, <1>4, <1>6, <2>3 DEF Moved, Relied, Found, Deleting, Removing, Adding, Dropping
  <2>4. ASSUME p \notin overtaken  PROVE Suits(call)'
    BY <1>2, <1>3, <1>4, <1>6, <1>11, <2>4 DEF Moved, Relied, Suits
  <2>5. p \notin overtaken' => p \notin overtaken
    BY <1>2, <1>4, <1>5, <1>6 DEF Moved
  <2> QED  BY <1>5, <2>1, <2>2, <2>3, <2>4, <2>5 DEF CallKept, Relied
<1>15. ASSUME NEW x \in Databases  PROVE DatabaseKept(x)'
  <2>1. DatabaseKept(x)
    BY DEF SqlInv
  <2>2. ASSUME NEW q \in Procs, sqlCall[q].at = "delete database row"
        PROVE  sqlCall'[q] = sqlCall[q] /\ HalfDone(q, sqlCall[q].db)
    BY <1>1, <1>2, <1>5, <2>2 DEF HalfDone, Half, Dropping
  <2>3. ASSUME NEW q \in Procs, sqlCall[q].at \in {"insert database", "undo database"}
        PROVE  sqlCall'[q].at \in {"insert database", "undo database"} /\ sqlCall'[q].db = sqlCall[q].db
    BY <1>1, <1>2, <1>4, <1>5, <2>3 DEF Moved
  <2> QED  BY <1>6, <1>9, <1>11, <2>1, <2>2, <2>3 DEF DatabaseKept
<1>16. ASSUME NEW u \in SqlUsers  PROVE UserKept(u)'
  <2>1. UserKept(u)
    BY DEF SqlInv
  <2>2. ASSUME NEW q \in Procs, sqlCall[q].at \in Dropping
        PROVE  sqlCall'[q] = sqlCall[q] /\ HalfDone(q, sqlCall[q].db)
    BY <1>1, <1>2, <1>5, <2>2 DEF HalfDone, Half, Dropping
  <2>3. ASSUME NEW q \in Procs, sqlCall[q].at \in {"grant", "insert user", "undo user"}, sqlCall[q].whole
        PROVE  /\ sqlCall'[q].at \in {"grant", "insert user", "undo user"} /\ sqlCall'[q].whole
               /\ sqlCall'[q].user = sqlCall[q].user /\ sqlCall'[q].customer = sqlCall[q].customer
    BY <1>1, <1>2, <1>4, <1>5, <2>3 DEF Moved
  <2> QED  BY <1>6, <1>9, <1>11, <2>1, <2>2, <2>3 DEF UserKept
<1>17. ASSUME NEW u \in SqlUsers, NEW x \in Databases  PROVE GrantKept(u, x)'
  <2>1. GrantKept(u, x)
    BY DEF SqlInv
  <2>2. ASSUME NEW q \in Procs, GrantedBy(q, u, x)  PROVE GrantedBy(q, u, x)'
    BY <1>1, <1>2, <1>4, <1>5, <1>6, <2>2 DEF Moved, GrantedBy
  <2>3. ASSUME NEW q \in Procs, RevokedBy(q, u, x)  PROVE RevokedBy(q, u, x)'
    BY <1>1, <1>2, <1>5, <1>6, <2>3 DEF RevokedBy
  <2>4. Grantee(u, x)' <=> Grantee(u, x)
    BY <1>6 DEF Grantee
  <2> QED  BY <1>6, <1>11, <2>1, <2>2, <2>3, <2>4 DEF GrantKept
<1> QED  BY <1>7, <1>13, <1>14, <1>15, <1>16, <1>17 DEF SqlInv

---------------------------------------------------------------------------
(* Steps that touch names.                                                 *)

(* What follows from Touch: where a name that was touched has no marks, the *)
(* one that touched it was not overtaken and nobody else is half done with *)
(* it.                                                                     *)
Touched(p, T, healed) ==
    /\ Marks(p, T)
    /\ \A q \in Procs \ {p} :
          /\ sqlCall[q].at # "idle" /\ q \in overtaken => q \in overtaken'
          /\ sqlCall[q].at # "idle" /\ Concerns(sqlCall[q]) \cap T # {} => q \in overtaken'
    /\ p \in overtaken' => p \in overtaken
    /\ \A n \in Names \cap T :
          /\ Weak(n)' => p \notin overtaken /\ Weak(n) /\ \A q \in Procs \ {p} : ~HalfDone(q, n)
          /\ Weak(n)' /\ leftover'[n] # {} => leftover[n] # {} /\ n \notin healed
          /\ Clean(n)' => n \in healed \/ Clean(n)
          /\ Clean(n)' => Weak(n)'
    /\ overtaken' \subseteq Procs
    /\ leftover' \in [Names -> SUBSET Leavings]

LEMMA TouchMarks ==
  ASSUME SqlInv, NEW p \in Procs, NEW T, NEW healed, Touch(p, T, healed), healed \subseteq T,
         \A q \in Procs \ {p} : sqlCall'[q] = sqlCall[q],
         \A n \in Names : HalfDone(p, n) => n \in T,
         sqlCall[p].at = "grant" => sqlCall[p].user \in T
  PROVE  Touched(p, T, healed)
<1>1. /\ overtaken \subseteq Procs /\ leftover \in [Names -> SUBSET Leavings] /\ None \notin Names
      /\ overtaken' = {q \in Procs : /\ sqlCall'[q].at # "idle"
                                     /\ \/ q \in overtaken
                                        \/ q # p /\ Concerns(sqlCall[q]) \cap T # {}}
      /\ leftover' = [n \in Names |-> IF n \in T /\ p \in overtaken THEN leftover[n] \cup {"overlap"}
                                      ELSE IF n \in healed THEN leftover[n] \ {"delete"}
                                      ELSE leftover[n]]
  BY SqlConfigured DEF SqlInv, SqlTypeOK, Touch, Names
<1>2. leftover' \in [Names -> SUBSET Leavings] /\ overtaken' \subseteq Procs /\ (p \in overtaken' => p \in overtaken)
  BY <1>1 DEF Leavings
<1>3. \A n \in Names :
         leftover'[n] = IF n \in T /\ p \in overtaken THEN leftover[n] \cup {"overlap"}
                        ELSE IF n \in healed THEN leftover[n] \ {"delete"} ELSE leftover[n]
  BY <1>1
<1>4. ASSUME NEW q \in Procs \ {p}, sqlCall[q].at # "idle", q \in overtaken \/ Concerns(sqlCall[q]) \cap T # {}
      PROVE  q \in overtaken'
  BY <1>1, <1>4
<1>5. ASSUME NEW q \in Procs \ {p}, NEW n \in Names, HalfDone(q, n), q \in overtaken \/ n \in T
      PROVE  Spoilt(n)'
  <2>1. sqlCall[q].at # "idle" /\ n \in {sqlCall[q].db, sqlCall[q].user}
    BY <1>5 DEF HalfDone, Half, Undoing, Dropping
  <2>2. n \in Concerns(sqlCall[q])
    BY <1>1, <2>1 DEF Concerns
  <2>3. q \in overtaken'
    BY <1>4, <1>5, <2>1, <2>2
  <2> QED  BY <1>5, <2>3 DEF Spoilt, HalfDone
<1>6. ASSUME NEW n \in Names, Spoilt(n), p \notin overtaken \/ n \notin T  PROVE Spoilt(n)'
  <2>1. PICK q \in overtaken : HalfDone(q, n)
    BY <1>6 DEF Spoilt
  <2>2. q # p /\ q \in Procs
    BY <1>1, <1>6, <2>1
  <2> QED  BY <1>5, <2>1, <2>2
<1>7. ASSUME NEW u \in SqlUsers, account[u] = p, Clean(u)  PROVE u \in T
  <2>1. sqlCall[p].at \in {"grant", "insert user", "undo user"} /\ sqlCall[p].user = u
    BY <1>7 DEF SqlInv, UserKept
  <2>2. sqlCall[p].at # "grant" => HalfDone(p, u)
    BY <2>1 DEF HalfDone, Half, Undoing, Dropping
  <2> QED  BY <2>1, <2>2 DEF Names
<1>8. ASSUME NEW x \in Databases, schema[x] = p, Clean(x)  PROVE x \in T
  <2>1. sqlCall[p].at \in {"insert database", "undo database"} /\ sqlCall[p].db = x
    BY <1>8 DEF SqlInv, DatabaseKept
  <2>2. HalfDone(p, x)
    BY <2>1 DEF HalfDone, Half, Undoing, Dropping
  <2> QED  BY <2>2 DEF Names
<1>9. Marks(p, T)
  <2>1. \A n \in Names : leftover[n] \ {"delete"} \subseteq leftover'[n]
    BY <1>3
  <2>2. \A n \in Names : p \in overtaken /\ HalfDone(p, n) => "overlap" \in leftover'[n]
    BY <1>3
  <2>3. \A n \in Names \ T : leftover'[n] = leftover[n] /\ ~HalfDone(p, n)
    BY <1>3
  <2> QED  BY <1>7, <1>8, <2>1, <2>2, <2>3 DEF Marks, Names
<1>10. ASSUME NEW n \in Names \cap T, Weak(n)'
       PROVE  /\ p \notin overtaken /\ Weak(n) /\ \A q \in Procs \ {p} : ~HalfDone(q, n)
              /\ leftover[n] = {} => leftover'[n] = {}
              /\ n \in healed => leftover'[n] = {}
  <2>1. leftover'[n] \subseteq {"delete"} /\ ~Spoilt(n)'
    BY <1>10 DEF Weak
  <2>2. ASSUME p \in overtaken  PROVE FALSE
    <3>1. leftover'[n] = leftover[n] \cup {"overlap"}
      BY <1>3, <1>10, <2>2
    <3> QED  BY <2>1, <3>1
  <2>3. leftover[n] \subseteq {"delete"}
    BY <1>3, <2>1, <2>2
  <2>4. ~Spoilt(n)
    BY <1>6, <2>1, <2>2
  <2>5. \A q \in Procs \ {p} : ~HalfDone(q, n)
    BY <1>5, <2>1
  <2> QED  BY <1>3, <2>1, <2>2, <2>3, <2>4, <2>5 DEF Weak
<1>11. ASSUME NEW n \in Names \cap T, Clean(n)', n \notin healed  PROVE Clean(n)
  <2>1. leftover'[n] = {} /\ ~Spoilt(n)'
    BY <1>11 DEF Clean
  <2>2. p \notin overtaken /\ leftover[n] = {}
    BY <1>3, <1>11, <2>1
  <2> QED  BY <1>6, <2>1, <2>2 DEF Clean
<1>12. \A n \in Names \cap T : Clean(n)' => Weak(n)'
  BY DEF Clean, Weak
<1> QED  BY <1>2, <1>4, <1>9, <1>10, <1>11, <1>12 DEF Touched

(* Steps that leave the grants and the rows of users as they are. *)
LEMMA DatabaseStepGrants ==
  ASSUME SqlInv, NEW p \in Procs, NEW x \in Databases, Disturbs(p, {x}), Marks(p, {x}), SqlTypeOK',
         UNCHANGED <<grants, sqlUser>>, Clean(x)' => Clean(x), sqlDatabase \subseteq sqlDatabase',
         NEW u \in SqlUsers, NEW y \in Databases
  PROVE  GrantKept(u, y)'
<1>1. u \notin {x} /\ u \in Names /\ y \in Names
  BY SqlConfigured DEF Names
<1>2. (Clean(u)' => Clean(u)) /\ (Clean(y)' => Clean(y))
  BY <1>1, WeakBefore
<1>3. Grantee(u, y)' <=> Grantee(u, y)
  <2>1. \A w \in sqlUser : w.db < nextId["database"] /\ w.db \in Int
    BY SqlConfigured DEF SqlInv, SqlTypeOK, Numbered, UserRows, RowIds
  <2>2. \A w \in sqlUser, r \in sqlDatabase' : r.id = w.db => r \in sqlDatabase
    BY <2>1 DEF Disturbs, SqlInv, SqlTypeOK
  <2> QED  BY <2>2 DEF Grantee
<1>4. UNCHANGED grants
  OBVIOUS
<1> QED  BY <1>1, <1>2, <1>3, <1>4, GrantStays

LEMMA NamesApart ==
  /\ None \notin Names /\ None \notin Procs /\ None \notin SqlCustomers
  /\ \A p \in Procs : p \notin SqlCustomers
  /\ \A x \in Databases : x \notin SqlUsers
  /\ MaxRows \in Nat
BY SqlConfigured DEF Names

(* Ids are numbers. *)
LEMMA Numbers ==
  ASSUME SqlInv
  PROVE  /\ \A i \in RowIds : i \in Int
         /\ nextId["database"] \in Int /\ nextId["user"] \in Int
         /\ nextId \in [{"database", "user"} -> 1..(MaxRows + 1)]
         /\ \A r \in sqlDatabase : r \in DatabaseRows /\ r.id \in Int /\ r.id < nextId["database"]
         /\ \A w \in sqlUser : /\ w \in UserRows /\ w.id \in Int /\ w.db \in Int
                               /\ w.id < nextId["user"] /\ w.db < nextId["database"]
<1>1. \A i \in RowIds : i \in Int
  BY NamesApart DEF RowIds
<1>2. nextId \in [{"database", "user"} -> 1..(MaxRows + 1)]
  BY DEF SqlInv, SqlTypeOK
<1>3. nextId["database"] \in Int /\ nextId["user"] \in Int
  BY <1>2, NamesApart
<1>4. \A r \in sqlDatabase : r \in DatabaseRows /\ r.id \in RowIds /\ r.id < nextId["database"]
  BY DEF SqlInv, SqlTypeOK, Numbered, DatabaseRows
<1>5. \A w \in sqlUser : /\ w \in UserRows /\ w.id \in RowIds /\ w.db \in RowIds
                         /\ w.id < nextId["user"] /\ w.db < nextId["database"]
  BY DEF SqlInv, SqlTypeOK, Numbered, UserRows
<1> QED  BY <1>1, <1>2, <1>3, <1>4, <1>5

LEMMA CallsLeftStay ==
  ASSUME SqlInv, callsLeft' = callsLeft
  PROVE  callsLeft' \in 0..MaxCalls
BY DEF SqlInv, SqlTypeOK

LEMMA NextIdStays ==
  ASSUME SqlInv, nextId' = nextId
  PROVE  nextId'["database"] >= nextId["database"] /\ nextId'["user"] >= nextId["user"]
<1>1. nextId["database"] \in Int /\ nextId["user"] \in Int
  BY Numbers
<1> QED  BY <1>1

(* A new row has the next id. *)
LEMMA NextIdGiven ==
  ASSUME SqlInv, NEW t \in {"database", "user"}, nextId[t] \in RowIds, nextId' = [nextId EXCEPT ![t] = @ + 1]
  PROVE  /\ nextId' \in [{"database", "user"} -> 1..(MaxRows + 1)]
         /\ nextId'[t] = nextId[t] + 1
         /\ \A o \in {"database", "user"} \ {t} : nextId'[o] = nextId[o]
         /\ nextId'["database"] >= nextId["database"] /\ nextId'["user"] >= nextId["user"]
<1>1. nextId[t] + 1 \in 1..(MaxRows + 1)
  BY NamesApart DEF RowIds
<1> QED  BY <1>1, Numbers

LEMMA EndChange ==
  ASSUME SqlInv, NEW p \in Procs, End(p)
  PROVE  /\ sqlCall' \in [Procs -> Calls] /\ callsLeft' \in 0..MaxCalls
         /\ \A q \in Procs \ {p} : sqlCall'[q] = sqlCall[q]
         /\ sqlCall'[p] = Idle
         /\ CallKept(p)'
<1>1. /\ sqlCall' \in [Procs -> Calls] /\ callsLeft' \in 0..MaxCalls /\ sqlCall'[p] = Idle
      /\ \A q \in Procs \ {p} : sqlCall'[q] = sqlCall[q]
  BY CallChange, IdleIsCall DEF End, SqlInv, SqlTypeOK
<1>2. Idle.at = "idle" /\ Idle.rows = {} /\ ~Idle.drops
  BY DEF Idle
<1>3. ShapedCall(Idle) /\ KnownCall(Idle)' /\ Relied(p, Idle)'
  BY <1>2 DEF ShapedCall, KnownCall, Relied, Found, Suits, Making, Deleting, Removing, Adding, Dropping
<1> QED  BY <1>1, <1>3 DEF CallKept

(* What the operation of p is when it takes its step. *)
LEMMA CallNow ==
  ASSUME SqlInv, NEW p \in Procs, NEW was, was = sqlCall[p]
  PROVE  /\ SqlTypeOK /\ was \in Calls /\ ShapedCall(was) /\ KnownCall(was)
         /\ p \notin overtaken => Found(p, was) /\ Suits(was)
         /\ \A n : HalfDone(p, n) <=> was.at \in Half /\ n \in {was.db, was.user}
BY DEF SqlInv, SqlTypeOK, CallKept, Relied, HalfDone

LEMMA CreateDatabaseStatementKeeps ==
  ASSUME SqlInv, NEW p \in Procs, CreateDatabaseStatement(p)
  PROVE  SqlInv'
<1>1. PICK was : was = sqlCall[p]
  OBVIOUS
<1>2. /\ SqlTypeOK /\ was \in Calls /\ ShapedCall(was) /\ KnownCall(was) /\ was.at = "create database"
      /\ UNCHANGED <<account, password, grants, sqlDatabase, sqlUser, nextId>>
  BY <1>1, CallNow DEF CreateDatabaseStatement, At, tables
<1>3. PICK x \in Databases : x = was.db /\ was.customer \in SqlCustomers /\ was.user = None /\ was.rows = {} /\ ~was.drops
  BY <1>2 DEF ShapedCall, Making, Deleting, Removing, Dropping
<1>4. CASE End(p) /\ Look(p) /\ UNCHANGED schema
  BY <1>1, <1>2, <1>4, EndKeeps DEF server, tables, Half, Undoing, Dropping
<1>5. CASE /\ schema[x] = None /\ schema' = [schema EXCEPT ![x] = p]
           /\ Goto(p, "insert database") /\ Claim(p, x)
  <2>1. PICK call \in Calls : sqlCall' = [sqlCall EXCEPT ![p] = call] /\ Moved(call, was, "insert database")
    BY <1>1, <1>2, <1>5, GotoChange DEF Points
  <2>2. /\ sqlCall' \in [Procs -> Calls] /\ sqlCall'[p] = call
        /\ \A q \in Procs \ {p} : sqlCall'[q] = sqlCall[q]
    BY <1>2, <2>1, CallChange
  <2>3. /\ overtaken' = (overtaken \ {p}) \cup {q \in Procs \ {p} : x \in Concerns(sqlCall[q])}
        /\ leftover' = leftover /\ callsLeft' = callsLeft
        /\ schema' \in [Databases -> Owners] /\ schema'[x] = p
        /\ \A y \in Databases \ {x} : schema'[y] = schema[y]
    BY <1>2, <1>5 DEF Claim, Goto, SqlTypeOK, Owners
  <2>4. SqlTypeOK' /\ Numbered'
    <3>1. SqlTypeOK'
      BY <1>2, <2>2, <2>3 DEF SqlTypeOK
    <3> QED  BY <1>2, <3>1 DEF SqlInv, Numbered
  <2>5. Disturbs(p, {x})
    <3>1. \A q \in Procs \ {p} :
             /\ q \in overtaken => q \in overtaken'
             /\ Concerns(sqlCall[q]) \cap {x} # {} => q \in overtaken'
      BY <2>3
    <3>2. nextId'["database"] >= nextId["database"] /\ nextId'["user"] >= nextId["user"]
      BY <1>2, NextIdStays
    <3>3. \A y \in Databases \ {x} : schema'[y] = schema[y] \/ schema[y] = p
      BY <2>3
    <3>4. /\ account' = account /\ password' = password /\ grants' = grants
          /\ sqlDatabase' = sqlDatabase /\ sqlUser' = sqlUser
      BY <1>2
    <3> QED  BY <2>2, <3>1, <3>2, <3>3, <3>4 DEF Disturbs
  <2>6. \A n : ~HalfDone(p, n)
    BY <1>1, <1>2 DEF HalfDone, Half, Undoing, Dropping
  <2>7. Marks(p, {x})
    <3>1. ASSUME NEW u \in SqlUsers, account[u] = p, Clean(u)  PROVE FALSE
      BY <1>1, <1>2, <3>1 DEF SqlInv, UserKept
    <3>2. ASSUME NEW y \in Databases, schema[y] = p, Clean(y)  PROVE FALSE
      BY <1>1, <1>2, <3>2 DEF SqlInv, DatabaseKept
    <3> QED  BY <2>3, <2>6, <3>1, <3>2 DEF Marks, Names
  <2>8. CallKept(p)'
    <3>1. ShapedCall(call)
      BY <1>2, <1>3, <2>1 DEF ShapedCall, Moved, Making, Deleting, Removing, Adding, Dropping
    <3>2. KnownCall(call)'
      BY <1>3, <2>1 DEF KnownCall, Moved, Deleting, Removing, Adding, Dropping
    <3>3. Relied(p, call)'
      BY <1>3, <2>1, <2>3 DEF Relied, Found, Suits, Moved, Deleting, Removing, Adding, Dropping
    <3> QED  BY <2>2, <3>1, <3>2, <3>3 DEF CallKept
  <2>9. (Weak(x)' => Weak(x)) /\ (Clean(x)' => Clean(x))
    <3>1. ASSUME Spoilt(x)  PROVE Spoilt(x)'
      <4>1. PICK q \in overtaken : HalfDone(q, x)
        BY <3>1 DEF Spoilt
      <4>2. q \in Procs \ {p}
        BY <1>2, <2>6, <4>1 DEF SqlTypeOK
      <4> QED  BY <2>2, <2>3, <4>1, <4>2 DEF Spoilt, HalfDone
    <3> QED  BY <2>3, <3>1 DEF Weak, Clean
  <2>10. DatabaseKept(x)'
    <3>1. DatabaseKept(x)
      BY DEF SqlInv
    <3>2. Weak(x)' /\ leftover'[x] # {} => \E r \in sqlDatabase' : r.name = x
      BY <1>2, <2>3, <2>9, <3>1 DEF DatabaseKept
    <3>3. ASSUME Clean(x)'  PROVE \A r \in sqlDatabase : r.name # x
      <4> SUFFICES ASSUME NEW r \in sqlDatabase, r.name = x  PROVE FALSE
        OBVIOUS
      <4>1. PICK q \in Procs \ overtaken : sqlCall[q].at = "delete database row" /\ sqlCall[q].db = x
        BY <1>5, <2>9, <3>1, <3>3 DEF DatabaseKept
      <4>2. q # p /\ HalfDone(q, x) /\ x \in Concerns(sqlCall[q])
        BY <1>1, <1>2, <4>1, SqlConfigured DEF HalfDone, Half, Concerns, Dropping
      <4>3. q \in overtaken' /\ HalfDone(q, x)'
        BY <2>2, <2>3, <4>2 DEF HalfDone
      <4> QED  BY <3>3, <4>3 DEF Clean, Spoilt
    <3>4. call.at = "insert database" /\ call.db = x /\ p \notin SqlCustomers /\ p # None
      BY <1>3, <2>1, SqlConfigured DEF Moved
    <3> QED  BY <1>2, <2>2, <2>3, <3>2, <3>3, <3>4 DEF DatabaseKept
  <2>11. ASSUME NEW u \in SqlUsers, NEW y \in Databases  PROVE GrantKept(u, y)'
    BY <1>2, <2>4, <2>5, <2>7, <2>9, DatabaseStepGrants
  <2>12. SqlUsers \cap {x} = {} /\ Databases \cap {x} = {x}
    BY SqlConfigured
  <2> QED  BY <2>4, <2>5, <2>7, <2>8, <2>10, <2>11, <2>12, StepKeeps
<1> QED  BY <1>1, <1>3, <1>4, <1>5 DEF CreateDatabaseStatement

LEMMA CreateDatabaseRowKeeps ==
  ASSUME SqlInv, NEW p \in Procs, CreateDatabaseRow(p)
  PROVE  SqlInv'
<1>1. PICK was : was = sqlCall[p]
  OBVIOUS
<1>2. /\ SqlTypeOK /\ was \in Calls /\ ShapedCall(was) /\ KnownCall(was) /\ was.at = "insert database"
      /\ p \notin overtaken => Found(p, was)
      /\ UNCHANGED <<account, password, grants, sqlUser>>
      /\ \A n : HalfDone(p, n) <=> was.at \in Half /\ n \in {was.db, was.user}
  BY <1>1, CallNow DEF CreateDatabaseRow, At
<1>3. PICK x \in Databases : x = was.db /\ was.customer \in SqlCustomers /\ was.user = None
  BY <1>2 DEF ShapedCall, Making
<1>4. PICK c \in SqlCustomers : c = was.customer
  BY <1>3
<1>5. PICK new : new = [id |-> nextId["database"], customer |-> c, name |-> x]
  OBVIOUS
<1>6. /\ new \in DatabaseRows /\ new.id = nextId["database"] /\ new.customer = c /\ new.name = x
      /\ nextId["database"] \in RowIds /\ sqlDatabase' = sqlDatabase \cup {new}
      /\ nextId' = [nextId EXCEPT !["database"] = @ + 1]
      /\ schema' = [schema EXCEPT ![x] = IF @ = p THEN c ELSE @]
      /\ End(p) /\ Touch(p, {x}, {})
  BY <1>1, <1>3, <1>4, <1>5 DEF CreateDatabaseRow, DatabaseRows
<1>7. /\ sqlCall' \in [Procs -> Calls] /\ callsLeft' \in 0..MaxCalls /\ CallKept(p)'
      /\ \A q \in Procs \ {p} : sqlCall'[q] = sqlCall[q]
  BY <1>6, EndChange
<1>8. Touched(p, {x}, {})
  <2>1. ASSUME NEW n \in Names, HalfDone(p, n)  PROVE n \in {x}
    <3>1. n \in {was.db, was.user}
      BY <1>2, <2>1
    <3> QED  BY <1>3, <3>1, NamesApart
  <2>2. sqlCall[p].at # "grant" /\ {} \subseteq {x}
    BY <1>1, <1>2
  <2> QED  BY <1>6, <1>7, <2>1, <2>2, TouchMarks
<1>9. /\ nextId' \in [{"database", "user"} -> 1..(MaxRows + 1)]
      /\ nextId'["database"] = nextId["database"] + 1 /\ nextId'["user"] = nextId["user"]
      /\ nextId'["database"] >= nextId["database"] /\ nextId'["user"] >= nextId["user"]
  BY <1>6, NextIdGiven
<1>10. /\ schema \in [Databases -> Owners] /\ schema' \in [Databases -> Owners]
       /\ schema'[x] = (IF schema[x] = p THEN c ELSE schema[x])
       /\ \A y \in Databases \ {x} : schema'[y] = schema[y]
  BY <1>2, <1>6 DEF SqlTypeOK, Owners
<1>11. SqlTypeOK'
  BY <1>2, <1>6, <1>7, <1>8, <1>9, <1>10 DEF SqlTypeOK, Names, Touched
<1>12. Numbered'
  <2>1. IsFiniteSet(sqlDatabase') /\ IsFiniteSet(sqlUser')
    BY <1>2, <1>6, FS_AddElement DEF SqlInv, Numbered
  <2>2. \A r, o \in sqlDatabase' : r.id = o.id => r = o
    BY <1>6, <1>9, Numbers DEF SqlInv, Numbered
  <2>3. \A r \in sqlDatabase' : r.id < nextId'["database"]
    BY <1>6, <1>9, Numbers
  <2>4. \A w \in sqlUser' : w.id < nextId'["user"] /\ w.db < nextId'["database"]
    <3> SUFFICES ASSUME NEW w \in sqlUser  PROVE w.id < nextId'["user"] /\ w.db < nextId'["database"]
      BY <1>2
    <3>1. w.id < nextId["user"] /\ w.db < nextId["database"] /\ w.db \in Int /\ nextId["database"] \in Int
      BY Numbers
    <3> QED  BY <1>9, <3>1
  <2>5. \A v, w \in sqlUser' : v.id = w.id => v = w
    BY <1>2 DEF SqlInv, Numbered
  <2> QED  BY <2>1, <2>2, <2>3, <2>4, <2>5 DEF Numbered
<1>13. Disturbs(p, {x})
  BY <1>2, <1>6, <1>7, <1>8, <1>9, <1>10, Numbers DEF Disturbs, Touched
<1>14. DatabaseKept(x)'
  <2>1. DatabaseKept(x) /\ x \in Names \cap {x}
    BY DEF SqlInv, Names
  <2>2. Weak(x)' /\ leftover'[x] # {} => \E r \in sqlDatabase' : r.name = x
    BY <1>6
  <2>3. ASSUME Clean(x)'
        PROVE  /\ schema'[x] = c /\ \A r \in sqlDatabase' : r.name = x => r = new
    <3>1. Clean(x) /\ p \notin overtaken
      BY <1>8, <2>1, <2>3 DEF Touched
    <3>2. schema[x] = p
      BY <1>2, <1>3, <3>1 DEF Found
    <3> QED  BY <1>6, <1>10, <2>1, <3>1, <3>2 DEF DatabaseKept
  <2>4. c # None /\ c \notin Procs /\ new \in sqlDatabase'
    BY <1>6, SqlConfigured
  <2> QED  BY <1>6, <2>2, <2>3, <2>4 DEF DatabaseKept
<1>15. ASSUME NEW u \in SqlUsers, NEW y \in Databases  PROVE GrantKept(u, y)'
  <2>1. x \in Names \cap {x}
    BY DEF Names
  <2> QED  BY <1>2, <1>6, <1>8, <1>11, <1>13, <2>1, DatabaseStepGrants DEF Touched
<1>16. SqlUsers \cap {x} = {} /\ Databases \cap {x} = {x}
  BY SqlConfigured
<1> QED  BY <1>7, <1>8, <1>11, <1>12, <1>13, <1>14, <1>15, <1>16, StepKeeps DEF Touched

(* DROP DATABASE, at whichever end of an operation. *)
LEMMA DropDatabaseStep ==
  ASSUME SqlInv, NEW p \in Procs, NEW x \in Databases,
         sqlCall[p].at \in {"undo database", "drop database"}, x = sqlCall[p].db,
         schema' = [schema EXCEPT ![x] = None], Touch(p, {x}, {}),
         UNCHANGED <<account, password, grants, tables>>,
         sqlCall' \in [Procs -> Calls], callsLeft' \in 0..MaxCalls,
         \A q \in Procs \ {p} : sqlCall'[q] = sqlCall[q],
         CallKept(p)', DatabaseKept(x)'
  PROVE  SqlInv'
<1>1. PICK was : was = sqlCall[p]
  OBVIOUS
<1>2. /\ SqlTypeOK /\ was.at \in {"undo database", "drop database"} /\ was.db = x
      /\ UNCHANGED <<account, password, grants, sqlDatabase, sqlUser, nextId>>
      /\ \A n : HalfDone(p, n) <=> was.at \in Half /\ n \in {was.db, was.user}
      /\ ShapedCall(was)
  BY <1>1, CallNow DEF tables
<1>3. was.user = None
  BY <1>2 DEF ShapedCall, Making
<1>4. Touched(p, {x}, {})
  <2>1. ASSUME NEW n \in Names, HalfDone(p, n)  PROVE n \in {x}
    <3>1. n \in {was.db, was.user}
      BY <1>2, <2>1
    <3> QED  BY <1>2, <1>3, <3>1, NamesApart
  <2>2. sqlCall[p].at # "grant" /\ {} \subseteq {x}
    BY <1>1, <1>2
  <2>3. \A n \in Names : HalfDone(p, n) => n \in {x}
    BY <2>1
  <2> QED  BY <2>2, <2>3, TouchMarks
<1>5. /\ schema' \in [Databases -> Owners]
      /\ \A y \in Databases \ {x} : schema'[y] = schema[y]
  BY <1>2 DEF SqlTypeOK, Owners
<1>6. SqlTypeOK'
  BY <1>2, <1>4, <1>5 DEF SqlTypeOK, Names, Touched
<1>7. Numbered'
  BY <1>2 DEF SqlInv, Numbered
<1>8. nextId'["database"] >= nextId["database"] /\ nextId'["user"] >= nextId["user"]
  BY <1>2, NextIdStays
<1>9. Disturbs(p, {x})
  BY <1>2, <1>4, <1>5, <1>8 DEF Disturbs, Touched
<1>10. x \in Names \cap {x}
  BY DEF Names
<1>11. ASSUME NEW u \in SqlUsers, NEW y \in Databases  PROVE GrantKept(u, y)'
  BY <1>2, <1>4, <1>6, <1>9, <1>10, DatabaseStepGrants DEF Touched
<1>12. SqlUsers \cap {x} = {} /\ Databases \cap {x} = {x}
  BY NamesApart
<1> QED  BY <1>4, <1>6, <1>7, <1>9, <1>11, <1>12, StepKeeps DEF Touched

LEMMA CreateDatabaseUndoKeeps ==
  ASSUME SqlInv, NEW p \in Procs, CreateDatabaseUndo(p)
  PROVE  SqlInv'
<1>1. PICK was : was = sqlCall[p]
  OBVIOUS
<1>2. /\ SqlTypeOK /\ was.at = "undo database" /\ ShapedCall(was)
      /\ p \notin overtaken => Found(p, was)
      /\ schema' = [schema EXCEPT ![was.db] = None] /\ End(p) /\ Touch(p, {was.db}, {})
      /\ UNCHANGED <<account, password, grants, tables>>
      /\ UNCHANGED <<sqlDatabase, sqlUser, nextId>>
      /\ \A n : HalfDone(p, n) <=> was.at \in Half /\ n \in {was.db, was.user}
  BY <1>1, CallNow DEF CreateDatabaseUndo, At, tables
<1>3. PICK x \in Databases : x = was.db /\ was.user = None
  BY <1>2 DEF ShapedCall, Making
<1>4. /\ sqlCall' \in [Procs -> Calls] /\ callsLeft' \in 0..MaxCalls
      /\ \A q \in Procs \ {p} : sqlCall'[q] = sqlCall[q]
      /\ CallKept(p)'
  BY <1>2, EndChange
<1>5. DatabaseKept(x)'
  <2>1. DatabaseKept(x) /\ x \in Names \cap {x} /\ schema'[x] = None
    BY <1>2, <1>3 DEF SqlInv, SqlTypeOK, Names
  <2>2. Touched(p, {x}, {})
    <3>1. ASSUME NEW n \in Names, HalfDone(p, n)  PROVE n \in {x}
      <4>1. n \in {was.db, was.user}
        BY <1>2, <3>1
      <4> QED  BY <1>3, <4>1, NamesApart
    <3>2. sqlCall[p].at # "grant" /\ {} \subseteq {x}
      BY <1>1, <1>2
    <3> QED  BY <1>2, <1>3, <1>4, <3>1, <3>2, TouchMarks
  <2>3. Weak(x)' /\ leftover'[x] # {} => \E r \in sqlDatabase' : r.name = x
    BY <1>2, <2>1, <2>2 DEF DatabaseKept, Touched
  <2>4. Clean(x)' => \A r \in sqlDatabase' : r.name # x
    <3> SUFFICES ASSUME Clean(x)'  PROVE \A r \in sqlDatabase' : r.name # x
      OBVIOUS
    <3>1. p \notin overtaken /\ Clean(x)
      BY <2>1, <2>2 DEF Touched
    <3>2. schema[x] = p
      BY <1>2, <1>3, <3>1 DEF Found
    <3> QED  BY <1>2, <2>1, <3>1, <3>2 DEF DatabaseKept
  <2> QED  BY <2>1, <2>3, <2>4, NamesApart DEF DatabaseKept
<1> QED  BY <1>1, <1>2, <1>3, <1>4, <1>5, DropDatabaseStep

LEMMA DeleteDatabaseDropKeeps ==
  ASSUME SqlInv, NEW p \in Procs, DeleteDatabaseDrop(p)
  PROVE  SqlInv'
<1>1. PICK was : was = sqlCall[p]
  OBVIOUS
<1>2. /\ SqlTypeOK /\ was.at = "drop database" /\ ShapedCall(was) /\ KnownCall(was)
      /\ p \notin overtaken => Found(p, was)
      /\ schema' = [schema EXCEPT ![was.db] = None] /\ Goto(p, "delete database row") /\ Touch(p, {was.db}, {})
      /\ UNCHANGED <<account, password, grants, tables>>
      /\ UNCHANGED <<account, grants, sqlDatabase, sqlUser, nextId, callsLeft>>
      /\ \A n : HalfDone(p, n) <=> was.at \in Half /\ n \in {was.db, was.user}
  BY <1>1, CallNow DEF DeleteDatabaseDrop, At, tables, Goto
<1>3. PICK x \in Databases : /\ x = was.db /\ was.user = None /\ was.customer \in SqlCustomers
                             /\ was.id \in RowIds /\ was.rows = {} /\ was.drops
  BY <1>2 DEF ShapedCall, Deleting
<1>4. PICK call \in Calls : sqlCall' = [sqlCall EXCEPT ![p] = call] /\ Moved(call, was, "delete database row")
  BY <1>1, <1>2, GotoChange DEF Points
<1>5. /\ sqlCall' \in [Procs -> Calls] /\ sqlCall'[p] = call
      /\ \A q \in Procs \ {p} : sqlCall'[q] = sqlCall[q]
  BY <1>2, <1>4, CallChange
<1>6. schema'[x] = None /\ x \in Names \cap {x}
  BY <1>2, <1>3 DEF SqlTypeOK, Names
<1>7. Touched(p, {x}, {}) /\ (p \in overtaken => p \in overtaken')
  <2>1. \A n \in Names : ~HalfDone(p, n)
    BY <1>2 DEF Half, Undoing, Dropping
  <2>2. sqlCall[p].at # "grant" /\ {} \subseteq {x}
    BY <1>1, <1>2
  <2>3. p \in overtaken => p \in overtaken'
    BY <1>2, <1>4, <1>5 DEF Touch, Moved
  <2> QED  BY <1>2, <1>3, <1>5, <2>1, <2>2, <2>3, TouchMarks
<1>8. CallKept(p)'
  <2>1. ShapedCall(call)
    BY <1>3, <1>4 DEF ShapedCall, Moved, Making, Deleting, Removing, Adding, Dropping
  <2>2. KnownCall(call)'
    BY <1>2, <1>3, <1>4 DEF KnownCall, Moved, Deleting
  <2>3. ASSUME p \notin overtaken  PROVE Relied(p, call)'
    <3>1. (\E r \in sqlDatabase : r.id = was.id) /\ \A w \in sqlUser : w.db # was.id
      BY <1>2, <1>3, <2>3 DEF Found, Deleting
    <3> QED  BY <1>2, <1>3, <1>4, <1>6, <3>1 DEF Relied, Found, Suits, Moved, Deleting, Removing, Adding, Dropping
  <2> QED  BY <1>5, <1>7, <2>1, <2>2, <2>3 DEF CallKept
<1>9. DatabaseKept(x)'
  <2>1. DatabaseKept(x)
    BY DEF SqlInv
  <2>2. Weak(x)' /\ leftover'[x] # {} => \E r \in sqlDatabase' : r.name = x
    BY <1>2, <1>6, <1>7, <2>1 DEF DatabaseKept, Touched
  <2>3. Clean(x)' => \A r, o \in sqlDatabase' : r.name = x /\ o.name = x => r = o
    BY <1>2, <1>6, <1>7, <2>1 DEF DatabaseKept, Touched
  <2>4. sqlCall'[p].at = "delete database row" /\ sqlCall'[p].db = x
    BY <1>3, <1>4, <1>5 DEF Moved
  <2>5. Clean(x)' => p \notin overtaken'
    BY <1>6, <1>7 DEF Touched
  <2> QED  BY <1>6, <2>2, <2>3, <2>4, <2>5, NamesApart DEF DatabaseKept
<1> QED  BY <1>1, <1>2, <1>3, <1>5, <1>8, <1>9, DropDatabaseStep, CallsLeftStay

(* What the count of a name's rows tells. *)
LEMMA OneOfName ==
  ASSUME SqlInv, NEW x, NEW r \in sqlDatabase, r.name = x
  PROVE  Cardinality({o \in sqlDatabase : o.name = x}) < 2 <=> \A o \in sqlDatabase : o.name = x => o = r
<1>1. PICK rows : rows = {o \in sqlDatabase : o.name = x}
  OBVIOUS
<1>2. IsFiniteSet(rows) /\ r \in rows
  BY <1>1, FiniteRows
<1>3. Cardinality(rows) < 2 <=> rows = {r}
  BY <1>2, AtMostOne
<1>4. rows = {r} <=> \A o \in sqlDatabase : o.name = x => o = r
  BY <1>1
<1> QED  BY <1>1, <1>3, <1>4

LEMMA DeleteDatabaseRowKeeps ==
  ASSUME SqlInv, NEW p \in Procs, DeleteDatabaseRow(p)
  PROVE  SqlInv'
<1>1. PICK was : was = sqlCall[p]
  OBVIOUS
<1>2. /\ SqlTypeOK /\ was.at = "delete database row" /\ ShapedCall(was) /\ KnownCall(was)
      /\ p \notin overtaken => Found(p, was)
      /\ sqlDatabase' = {r \in sqlDatabase : r.id # was.id} /\ End(p)
      /\ UNCHANGED <<schema, account, password, grants, sqlUser, nextId>>
      /\ \A n : HalfDone(p, n) <=> was.at \in Half /\ n \in {was.db, was.user}
  BY <1>1, CallNow DEF DeleteDatabaseRow, At, server
<1>3. PICK x \in Databases : /\ x = was.db /\ was.user = None /\ was.id \in RowIds /\ was.rows = {} /\ was.drops
  BY <1>2 DEF ShapedCall, Deleting
<1>4. PICK healed : /\ healed = IF Cardinality({r \in sqlDatabase : r.name = x}) < 2 THEN {x} ELSE {}
                    /\ Touch(p, {x}, healed) /\ healed \subseteq {x}
  BY <1>1, <1>3 DEF DeleteDatabaseRow
<1>5. /\ sqlCall' \in [Procs -> Calls] /\ callsLeft' \in 0..MaxCalls
      /\ \A q \in Procs \ {p} : sqlCall'[q] = sqlCall[q]
      /\ CallKept(p)'
  BY <1>2, EndChange
<1>6. Touched(p, {x}, healed)
  <2>1. ASSUME NEW n \in Names, HalfDone(p, n)  PROVE n \in {x}
    <3>1. n \in {was.db, was.user}
      BY <1>2, <2>1
    <3> QED  BY <1>3, <3>1, NamesApart
  <2>2. sqlCall[p].at # "grant"
    BY <1>1, <1>2
  <2> QED  BY <1>4, <1>5, <2>1, <2>2, TouchMarks
<1>7. SqlTypeOK'
  BY <1>2, <1>5, <1>6 DEF SqlTypeOK, Names, Touched
<1>8. Numbered'
  BY <1>2, FS_Subset DEF SqlInv, Numbered
<1>9. Disturbs(p, {x})
  <2>1. nextId'["database"] >= nextId["database"] /\ nextId'["user"] >= nextId["user"]
    BY <1>2, NextIdStays
  <2>2. \A r \in sqlDatabase : r.name # x => r.id # was.id
    BY <1>2, <1>3 DEF KnownCall, Deleting
  <2> QED  BY <1>2, <1>5, <1>6, <2>1, <2>2 DEF Disturbs, Touched
<1>10. x \in Names \cap {x}
  BY DEF Names
(* The row that goes is there, and the rows of its users are not. *)
<1>11. p \notin overtaken =>
          /\ \E r \in sqlDatabase : r.id = was.id /\ r.name = x
          /\ \A w \in sqlUser : w.db # was.id
          /\ schema[x] = None
  BY <1>2, <1>3 DEF Found, KnownCall, Deleting
(* With one row of the name at most none is left. *)
<1>12. Clean(x)' => p \notin overtaken /\ \A r \in sqlDatabase' : r.name # x
  <2> SUFFICES ASSUME Clean(x)'  PROVE p \notin overtaken /\ \A r \in sqlDatabase' : r.name # x
    OBVIOUS
  <2>1. p \notin overtaken
    BY <1>6, <1>10 DEF Touched
  <2>2. PICK r \in sqlDatabase : r.id = was.id /\ r.name = x
    BY <1>11, <2>1
  <2>3. \A o \in sqlDatabase : o.name = x => o = r
    <3>1. CASE x \in healed
      BY <1>4, <2>2, <3>1, OneOfName
    <3>2. CASE Clean(x)
      <4>1. DatabaseKept(x)
        BY DEF SqlInv
      <4> QED  BY <2>2, <3>2, <4>1 DEF DatabaseKept
    <3> QED  BY <1>6, <1>10, <3>1, <3>2 DEF Touched
  <2> QED  BY <1>2, <2>1, <2>2, <2>3
<1>13. DatabaseKept(x)'
  <2>1. Weak(x)' /\ leftover'[x] # {} => \E r \in sqlDatabase' : r.name = x
    <3> SUFFICES ASSUME Weak(x)', leftover'[x] # {}  PROVE \E r \in sqlDatabase' : r.name = x
      OBVIOUS
    <3>1. p \notin overtaken /\ x \notin healed
      BY <1>6, <1>10 DEF Touched
    <3>2. PICK r \in sqlDatabase : r.id = was.id /\ r.name = x
      BY <1>11, <3>1
    <3>3. ~(Cardinality({o \in sqlDatabase : o.name = x}) < 2)
      BY <1>4, <3>1
    <3>4. PICK o \in sqlDatabase : o.name = x /\ o # r
      BY <3>2, <3>3, OneOfName
    <3>5. o.id # was.id
      BY <3>2, <3>4 DEF SqlInv, Numbered
    <3> QED  BY <1>2, <3>4, <3>5
  <2>2. Clean(x)' => schema'[x] = None
    BY <1>2, <1>11, <1>12
  <2> QED  BY <1>12, <2>1, <2>2, NamesApart DEF DatabaseKept
<1>14. ASSUME NEW u \in SqlUsers, NEW y \in Databases  PROVE GrantKept(u, y)'
  <2>1. u \notin {x} /\ u \in Names /\ y \in Names
    BY NamesApart DEF Names
  <2>2. Clean(u)' => Clean(u)
    BY <1>6, <1>9, <2>1, WeakBefore DEF Touched
  <2>3. Grantee(u, y)' => Grantee(u, y)
    BY <1>2 DEF Grantee
  <2>4. Clean(y)' /\ Grantee(u, y)' => Clean(y)
    <3>1. CASE y = x
      BY <1>12, <3>1 DEF Grantee
    <3>2. CASE y # x
      BY <1>6, <1>9, <2>1, <3>2, WeakBefore DEF Touched
    <3> QED  BY <3>1, <3>2
  <2>5. Weak(y)' /\ Grantee(u, y) => Grantee(u, y)'
    <3> SUFFICES ASSUME Weak(y)', Grantee(u, y)  PROVE Grantee(u, y)'
      OBVIOUS
    <3>1. PICK r \in sqlDatabase, w \in sqlUser : r.name = y /\ w.db = r.id /\ w.user = u
      BY DEF Grantee
    <3>2. r.id # was.id
      <4>1. CASE y = x
        BY <1>6, <1>10, <1>11, <3>1, <4>1 DEF Touched
      <4>2. CASE y # x
        BY <1>2, <1>3, <3>1, <4>2 DEF KnownCall, Deleting
      <4> QED  BY <4>1, <4>2
    <3> QED  BY <1>2, <3>1, <3>2 DEF Grantee
  <2>6. UNCHANGED grants
    BY <1>2
  <2> QED  BY <1>6, <1>9, <2>1, <2>2, <2>3, <2>4, <2>5, <2>6, GrantStays DEF Touched
<1>15. SqlUsers \cap {x} = {} /\ Databases \cap {x} = {x}
  BY NamesApart
<1> QED  BY <1>5, <1>6, <1>7, <1>8, <1>9, <1>13, <1>14, <1>15, StepKeeps DEF Touched
---------------------------------------------------------------------------
(* What a step leaves of a name that it touches and does not change.       *)

LEMMA DatabaseUnmoved ==
  ASSUME SqlInv, NEW p \in Procs, NEW T, NEW healed, Touched(p, T, healed), NEW x \in Databases, x \in T, x \notin healed,
         schema'[x] = schema[x], sqlDatabase' = sqlDatabase,
         sqlCall[p].at \notin {"insert database", "undo database", "delete database row"}
  PROVE  DatabaseKept(x)'
<1>1. x \in Names \cap T /\ DatabaseKept(x)
  BY DEF Names, SqlInv
<1>2. Weak(x)' /\ leftover'[x] # {} => \E r \in sqlDatabase' : r.name = x
  BY <1>1 DEF Touched, DatabaseKept
<1>3. ASSUME Clean(x)'
      PROVE  /\ Clean(x)
             /\ schema[x] \in {None} \cup SqlCustomers
             /\ schema[x] = None => \A r \in sqlDatabase : r.name # x
  <2>1. Clean(x) /\ \A q \in Procs \ {p} : ~HalfDone(q, x)
    BY <1>1, <1>3 DEF Touched
  <2>2. ASSUME NEW q \in Procs, sqlCall[q].db = x,
               sqlCall[q].at \in {"insert database", "undo database", "delete database row"}
        PROVE  FALSE
    BY <2>1, <2>2 DEF HalfDone, Half, Undoing, Dropping
  <2> QED  BY <1>1, <2>1, <2>2 DEF DatabaseKept
<1> QED  BY <1>1, <1>2, <1>3, NamesApart DEF DatabaseKept

LEMMA UserUnmoved ==
  ASSUME SqlInv, NEW p \in Procs, NEW T, Touched(p, T, {}), NEW u \in SqlUsers, u \in T,
         account'[u] = account[u], password'[u] = password[u], sqlUser' = sqlUser, sqlDatabase' = sqlDatabase,
         \A q \in Procs \ {p} : sqlCall'[q] = sqlCall[q],
         sqlCall[p].at \notin Dropping,
         account[u] = p /\ Clean(u) =>
            /\ sqlCall'[p].at \in {"grant", "insert user", "undo user"} /\ sqlCall'[p].whole
            /\ sqlCall'[p].user = u /\ sqlCall'[p].customer = sqlCall[p].customer
  PROVE  UserKept(u)'
<1>1. u \in Names \cap T /\ UserKept(u)
  BY DEF Names, SqlInv
<1>2. Weak(u)' /\ leftover'[u] # {} => \E w \in sqlUser' : w.user = u
  BY <1>1 DEF Touched, UserKept
<1>3. ASSUME Clean(u)'
      PROVE  /\ Clean(u)
             /\ account[u] = None => \A w \in sqlUser : w.user # u
             /\ account[u] \in Procs =>
                  /\ sqlCall'[account[u]].at \in {"grant", "insert user", "undo user"}
                  /\ sqlCall'[account[u]].whole /\ sqlCall'[account[u]].user = u
                  /\ sqlCall'[account[u]].customer = sqlCall[account[u]].customer
  <2>1. Clean(u) /\ \A q \in Procs \ {p} : ~HalfDone(q, u)
    BY <1>1, <1>3 DEF Touched
  <2>2. ASSUME NEW q \in Procs, sqlCall[q].user = u, sqlCall[q].at \in Dropping  PROVE FALSE
    BY <2>1, <2>2 DEF HalfDone, Half, Dropping
  <2>3. account[u] = None => \A w \in sqlUser : w.user # u
    BY <1>1, <2>1, <2>2 DEF UserKept
  <2>4. ASSUME account[u] \in Procs
        PROVE  /\ sqlCall'[account[u]].at \in {"grant", "insert user", "undo user"}
               /\ sqlCall'[account[u]].whole /\ sqlCall'[account[u]].user = u
               /\ sqlCall'[account[u]].customer = sqlCall[account[u]].customer
    <3>1. CASE account[u] = p
      BY <2>1, <3>1
    <3>2. CASE account[u] # p
      BY <1>1, <2>1, <2>4, <3>2 DEF UserKept
    <3> QED  BY <3>1, <3>2
  <2> QED  BY <2>1, <2>3, <2>4
<1> QED  BY <1>1, <1>2, <1>3, NamesApart DEF UserKept

(* Where neither the grants nor the rows change. *)
LEMMA GrantsUnmoved ==
  ASSUME SqlInv, NEW p \in Procs, NEW T, Disturbs(p, T), Touched(p, T, {}),
         UNCHANGED <<grants, sqlUser, sqlDatabase>>,
         sqlCall[p].at \notin {"insert user", "undo user", "undo grants", "delete user row"},
         NEW u \in SqlUsers, NEW y \in Databases
  PROVE  GrantKept(u, y)'
<1>1. Grantee(u, y)' <=> Grantee(u, y)
  BY DEF Grantee
<1>2. u \in Names /\ y \in Names
  BY DEF Names
<1>3. Marks(p, T)
  BY DEF Touched
<1>4. \A n \in Names : Clean(n)' => Clean(n)
  BY <1>3, WeakBefore DEF Touched
<1>5. (Clean(u)' => Clean(u)) /\ (Clean(y)' => Clean(y))
  BY <1>2, <1>4
<1>6. UNCHANGED grants
  OBVIOUS
<1> QED  BY <1>1, <1>3, <1>5, <1>6, GrantStays

(* An account without marks that is nobody's has no rows. *)
LEMMA NoRowsLeft ==
  ASSUME SqlInv, NEW p \in Procs, NEW T, Touched(p, T, {}), NEW u \in SqlUsers, u \in T,
         Clean(u)', account[u] = None, sqlCall[p].at \notin Dropping
  PROVE  \A w \in sqlUser : w.user # u
<1>1. u \in Names \cap T /\ UserKept(u)
  BY DEF Names, SqlInv
<1>2. Clean(u) /\ \A q \in Procs \ {p} : ~HalfDone(q, u)
  BY <1>1 DEF Touched
<1>3. ASSUME NEW q \in Procs, sqlCall[q].user = u, sqlCall[q].at \in Dropping  PROVE FALSE
  BY <1>2, <1>3 DEF HalfDone, Half, Dropping
<1> QED  BY <1>1, <1>2, <1>3 DEF UserKept

---------------------------------------------------------------------------
(* Making a user.                                                          *)

LEMMA CreateUserStatementKeeps ==
  ASSUME SqlInv, NEW p \in Procs, CreateUserStatement(p)
  PROVE  SqlInv'
<1>1. PICK was : was = sqlCall[p]
  OBVIOUS
<1>2. /\ SqlTypeOK /\ was \in Calls /\ ShapedCall(was) /\ KnownCall(was) /\ was.at = "create user"
      /\ p \notin overtaken => Found(p, was)
      /\ UNCHANGED <<schema, grants, tables>>
      /\ UNCHANGED <<schema, grants, sqlDatabase, sqlUser, nextId>>
  BY <1>1, CallNow DEF CreateUserStatement, At, tables
<1>3. PICK u \in SqlUsers : /\ u = was.user /\ was.customer \in SqlCustomers /\ was.id \in RowIds
                            /\ was.db \in Databases /\ was.rows = {} /\ ~was.drops /\ was.whole
  BY <1>2 DEF ShapedCall, Adding, Deleting, Removing, Dropping
<1>4. CASE End(p) /\ Look(p) /\ UNCHANGED <<account, password>>
  BY <1>1, <1>2, <1>4, EndKeeps DEF server, Half, Undoing, Dropping
<1>5. CASE /\ account[u] = None /\ account' = [account EXCEPT ![u] = p]
           /\ password' = [password EXCEPT ![u] = was.customer]
           /\ Goto(p, "grant") /\ Touch(p, {u}, {})
  <2>1. PICK call \in Calls : sqlCall' = [sqlCall EXCEPT ![p] = call] /\ Moved(call, was, "grant")
    BY <1>1, <1>2, <1>5, GotoChange DEF Points
  <2>2. /\ sqlCall' \in [Procs -> Calls] /\ sqlCall'[p] = call
        /\ \A q \in Procs \ {p} : sqlCall'[q] = sqlCall[q]
    BY <1>2, <2>1, CallChange
  <2>3. Touched(p, {u}, {}) /\ (p \in overtaken => p \in overtaken')
    <3>1. \A n \in Names : ~HalfDone(p, n)
      BY <1>1, <1>2 DEF HalfDone, Half, Undoing, Dropping
    <3>2. sqlCall[p].at # "grant" /\ {} \subseteq {u}
      BY <1>1, <1>2
    <3>3. p \in overtaken => p \in overtaken'
      BY <1>2, <1>5, <2>1, <2>2 DEF Touch, Moved
    <3> QED  BY <1>5, <2>2, <3>1, <3>2, <3>3, TouchMarks
  <2>4. /\ account' \in [SqlUsers -> Owners] /\ account'[u] = p
        /\ password' \in [SqlUsers -> SqlCustomers \cup {None}] /\ password'[u] = was.customer
        /\ \A v \in SqlUsers \ {u} : account'[v] = account[v] /\ password'[v] = password[v]
        /\ callsLeft' = callsLeft
    BY <1>2, <1>3, <1>5 DEF SqlTypeOK, Owners, Goto
  <2>5. SqlTypeOK'
    BY <1>2, <2>2, <2>3, <2>4, CallsLeftStay DEF SqlTypeOK, Names, Touched
  <2>6. Numbered'
    BY <1>2 DEF SqlInv, Numbered
  <2>7. Disturbs(p, {u})
    <3>1. nextId'["database"] >= nextId["database"] /\ nextId'["user"] >= nextId["user"]
      BY <1>2, NextIdStays
    <3> QED  BY <1>2, <2>2, <2>3, <2>4, <3>1 DEF Disturbs, Touched
  <2>8. CallKept(p)'
    <3>1. ShapedCall(call)
      BY <1>2, <1>3, <2>1 DEF ShapedCall, Moved, Making, Deleting, Removing, Adding, Dropping
    <3>2. KnownCall(call)'
      BY <1>2, <1>3, <2>1 DEF KnownCall, Moved, Adding
    <3>3. ASSUME p \notin overtaken  PROVE Relied(p, call)'
      BY <1>2, <1>3, <2>1, <2>4, <3>3 DEF Relied, Found, Suits, Moved, Deleting, Removing, Adding, Dropping
    <3> QED  BY <2>2, <2>3, <3>1, <3>2, <3>3 DEF CallKept
  <2>9. UserKept(u)'
    <3>1. UserKept(u) /\ u \in Names \cap {u}
      BY DEF SqlInv, Names
    <3>2. Weak(u)' /\ leftover'[u] # {} => \E w \in sqlUser' : w.user = u
      BY <1>2, <2>3, <3>1 DEF Touched, UserKept
    <3>3. ASSUME Clean(u)'  PROVE \A w \in sqlUser' : w.user # u
      <4>1. u \in {u} /\ sqlCall[p].at \notin Dropping /\ account[u] = None
        BY <1>1, <1>2, <1>5 DEF Dropping
      <4>2. \A w \in sqlUser : w.user # u
        BY <2>3, <3>3, <4>1, NoRowsLeft
      <4> QED  BY <1>2, <4>2
    <3>4. sqlCall'[p].at = "grant" /\ sqlCall'[p].whole /\ sqlCall'[p].user = u /\ sqlCall'[p].customer = was.customer
      BY <1>3, <2>1, <2>2 DEF Moved
    <3> QED  BY <2>4, <3>2, <3>3, <3>4, NamesApart DEF UserKept
  <2>10. ASSUME NEW v \in SqlUsers, NEW y \in Databases  PROVE GrantKept(v, y)'
    BY <1>1, <1>2, <2>3, <2>7, GrantsUnmoved
  <2>11. SqlUsers \cap {u} = {u} /\ Databases \cap {u} = {}
    BY NamesApart
  <2> QED  BY <2>3, <2>5, <2>6, <2>7, <2>8, <2>9, <2>10, <2>11, StepKeeps DEF Touched
<1> QED  BY <1>1, <1>3, <1>4, <1>5 DEF CreateUserStatement
LEMMA GrantStatementKeeps ==
  ASSUME SqlInv, NEW p \in Procs, GrantStatement(p)
  PROVE  SqlInv'
<1>1. PICK was : was = sqlCall[p]
  OBVIOUS
<1>2. /\ SqlTypeOK /\ was \in Calls /\ ShapedCall(was) /\ KnownCall(was) /\ was.at = "grant"
      /\ p \notin overtaken => Found(p, was) /\ Suits(was)
      /\ UNCHANGED <<schema, account, password, tables>>
      /\ UNCHANGED <<schema, account, password, sqlDatabase, sqlUser, nextId>>
  BY <1>1, CallNow DEF GrantStatement, At, tables
<1>3. PICK u \in SqlUsers, x \in Databases :
         /\ u = was.user /\ x = was.db /\ was.customer \in SqlCustomers /\ was.id \in RowIds
         /\ was.rows = {} /\ ~was.drops
  BY <1>2 DEF ShapedCall, Adding, Deleting, Removing, Dropping
<1>4. CASE account[u] = None /\ End(p) /\ Look(p) /\ UNCHANGED grants
  BY <1>1, <1>2, <1>3, <1>4, EndKeeps, NamesApart DEF server, Half, Undoing, Dropping
<1>5. CASE /\ account[u] # None /\ grants' = grants \cup {<<u, x>>}
           /\ Goto(p, "insert user") /\ Touch(p, {u, x}, {})
  <2>1. PICK call \in Calls : sqlCall' = [sqlCall EXCEPT ![p] = call] /\ Moved(call, was, "insert user")
    BY <1>1, <1>2, <1>5, GotoChange DEF Points
  <2>2. /\ sqlCall' \in [Procs -> Calls] /\ sqlCall'[p] = call
        /\ \A q \in Procs \ {p} : sqlCall'[q] = sqlCall[q]
    BY <1>2, <2>1, CallChange
  <2>3. Touched(p, {u, x}, {}) /\ (p \in overtaken => p \in overtaken')
    <3>1. \A n \in Names : ~HalfDone(p, n)
      BY <1>1, <1>2 DEF HalfDone, Half, Undoing, Dropping
    <3>2. sqlCall[p].user \in {u, x} /\ {} \subseteq {u, x}
      BY <1>1, <1>3
    <3>3. p \in overtaken => p \in overtaken'
      BY <1>2, <1>5, <2>1, <2>2 DEF Touch, Moved
    <3> QED  BY <1>5, <2>2, <3>1, <3>2, <3>3, TouchMarks
  <2>4. grants' \subseteq SqlUsers \X Databases /\ callsLeft' = callsLeft
    <3>1. grants \subseteq SqlUsers \X Databases /\ <<u, x>> \in SqlUsers \X Databases
      BY <1>2 DEF SqlTypeOK
    <3> QED  BY <1>5, <3>1 DEF Goto
  <2>5. SqlTypeOK'
    BY <1>2, <2>2, <2>3, <2>4, CallsLeftStay DEF SqlTypeOK, Names, Touched
  <2>6. Numbered'
    BY <1>2 DEF SqlInv, Numbered
  <2>7. \A v \in SqlUsers, y \in Databases : <<v, y>> # <<u, x>> => (<<v, y>> \in grants' <=> <<v, y>> \in grants)
    BY <1>5
  <2>8. Disturbs(p, {u, x})
    <3>1. nextId'["database"] >= nextId["database"] /\ nextId'["user"] >= nextId["user"]
      BY <1>2, NextIdStays
    <3> QED  BY <1>2, <2>2, <2>3, <2>7, <3>1 DEF Disturbs, Touched
  <2>9. u \in Names \cap {u, x} /\ x \in Names \cap {u, x}
    BY DEF Names
  <2>10. CallKept(p)'
    <3>1. ShapedCall(call)
      BY <1>2, <1>3, <2>1 DEF ShapedCall, Moved, Making, Deleting, Removing, Adding, Dropping
    <3>2. KnownCall(call)'
      BY <1>2, <1>3, <2>1 DEF KnownCall, Moved, Adding
    <3>3. ASSUME p \notin overtaken  PROVE Found(p, call)'
      BY <1>2, <1>3, <1>5, <2>1, <3>3 DEF Found, Moved, Deleting, Removing, Adding, Dropping
    <3>4. ASSUME p \notin overtaken  PROVE Suits(call)'
      <4>1. Clean(u)' => Clean(u)
        BY <2>3, <2>9 DEF Touched
      <4>2. ~was.whole /\ Clean(u) => account[u] = was.customer
        BY <1>2, <1>3, <1>5, <3>4 DEF Suits
      <4> QED  BY <1>2, <1>3, <2>1, <4>1, <4>2 DEF Suits, Moved
    <3> QED  BY <2>2, <2>3, <3>1, <3>2, <3>3, <3>4 DEF CallKept, Relied
  <2>11. DatabaseKept(x)'
    <3>1. PICK none : none = {}
      OBVIOUS
    <3>2. /\ x \in {u, x} /\ x \notin none /\ schema'[x] = schema[x] /\ sqlDatabase' = sqlDatabase
          /\ sqlCall[p].at \notin {"insert database", "undo database", "delete database row"}
      BY <1>1, <1>2, <3>1
    <3>3. Touched(p, {u, x}, none)
      BY <2>3, <3>1
    <3> QED  BY <3>2, <3>3, DatabaseUnmoved
  <2>12. UserKept(u)'
    <3>1. /\ u \in {u, x} /\ u \notin {} /\ account'[u] = account[u] /\ password'[u] = password[u]
          /\ sqlDatabase' = sqlDatabase /\ sqlUser' = sqlUser /\ sqlCall[p].at \notin Dropping
      BY <1>1, <1>2 DEF Dropping
    <3>2. account[u] = p /\ Clean(u) =>
             /\ sqlCall'[p].at \in {"grant", "insert user", "undo user"} /\ sqlCall'[p].whole
             /\ sqlCall'[p].user = u /\ sqlCall'[p].customer = sqlCall[p].customer
      <4>0. UserKept(u)
        BY DEF SqlInv
      <4>1. account[u] = p /\ Clean(u) => was.whole
        BY <1>1, <4>0 DEF UserKept
      <4> QED  BY <1>1, <1>3, <2>1, <2>2, <4>1 DEF Moved
    <3> QED  BY <2>2, <2>3, <3>1, <3>2, UserUnmoved
  <2>13. ASSUME NEW v \in SqlUsers, NEW y \in Databases  PROVE GrantKept(v, y)'
    <3>1. CASE v = u /\ y = x
      <4>1. <<u, x>> \in grants'
        BY <1>5
      <4>2. Weak(u)' => GrantedBy(p, u, x)'
        BY <1>3, <2>1, <2>2, <2>3, <2>9 DEF Touched, GrantedBy, Moved
      <4> QED  BY <3>1, <4>1, <4>2 DEF GrantKept
    <3>2. CASE <<v, y>> # <<u, x>>
      <4>1. v \in Names /\ y \in Names /\ Marks(p, {u, x})
        BY <2>3 DEF Names, Touched
      <4>2. \A n \in Names : Clean(n)' => Clean(n)
        BY <2>3, <2>8, <4>1, WeakBefore DEF Touched
      <4>3. Grantee(v, y)' <=> Grantee(v, y)
        BY <1>2 DEF Grantee
      <4>4. <<v, y>> \in grants' <=> <<v, y>> \in grants
        BY <2>7, <3>2
      <4>5. sqlCall[p].at \notin {"insert user", "undo user", "undo grants", "delete user row"}
        BY <1>1, <1>2
      <4> QED  BY <2>8, <4>1, <4>2, <4>3, <4>4, <4>5, GrantStays
    <3> QED  BY <3>1, <3>2
  <2>14. SqlUsers \cap {u, x} = {u} /\ Databases \cap {u, x} = {x}
    BY NamesApart
  <2> QED  BY <2>3, <2>5, <2>6, <2>8, <2>10, <2>11, <2>12, <2>13, <2>14, StepKeeps DEF Touched
<1> QED  BY <1>1, <1>3, <1>4, <1>5 DEF GrantStatement

LEMMA CreateUserRowKeeps ==
  ASSUME SqlInv, NEW p \in Procs, CreateUserRow(p)
  PROVE  SqlInv'
<1>1. PICK was : was = sqlCall[p]
  OBVIOUS
<1>2. /\ SqlTypeOK /\ was \in Calls /\ ShapedCall(was) /\ KnownCall(was) /\ was.at = "insert user"
      /\ p \notin overtaken => Found(p, was) /\ Suits(was)
      /\ UNCHANGED <<schema, password, grants, sqlDatabase>>
      /\ \A n : HalfDone(p, n) <=> was.at \in Half /\ n \in {was.db, was.user}
  BY <1>1, CallNow DEF CreateUserRow, At
<1>3. PICK u \in SqlUsers, x \in Databases, i \in RowIds, c \in SqlCustomers :
         u = was.user /\ x = was.db /\ i = was.id /\ c = was.customer
  BY <1>2 DEF ShapedCall, Adding
<1>4. PICK new : new = [id |-> nextId["user"], db |-> i, user |-> u]
  OBVIOUS
<1>5. /\ new \in UserRows /\ new.id = nextId["user"] /\ new.db = i /\ new.user = u
      /\ nextId["user"] \in RowIds /\ sqlUser' = sqlUser \cup {new}
      /\ nextId' = [nextId EXCEPT !["user"] = @ + 1]
      /\ account' = [account EXCEPT ![u] = IF @ = p THEN c ELSE @]
      /\ End(p) /\ Touch(p, {u, x}, {})
  BY <1>1, <1>3, <1>4 DEF CreateUserRow, UserRows
<1>6. /\ sqlCall' \in [Procs -> Calls] /\ callsLeft' \in 0..MaxCalls /\ CallKept(p)'
      /\ \A q \in Procs \ {p} : sqlCall'[q] = sqlCall[q]
  BY <1>5, EndChange
<1>7. Touched(p, {u, x}, {})
  <2>1. \A n \in Names : HalfDone(p, n) => n \in {u, x}
    BY <1>2, <1>3
  <2>2. sqlCall[p].at # "grant" /\ {} \subseteq {u, x}
    BY <1>1, <1>2
  <2> QED  BY <1>5, <1>6, <2>1, <2>2, TouchMarks
<1>8. /\ nextId' \in [{"database", "user"} -> 1..(MaxRows + 1)]
      /\ nextId'["user"] = nextId["user"] + 1 /\ nextId'["database"] = nextId["database"]
      /\ nextId'["database"] >= nextId["database"] /\ nextId'["user"] >= nextId["user"]
  BY <1>5, NextIdGiven
<1>9. /\ account \in [SqlUsers -> Owners] /\ account' \in [SqlUsers -> Owners]
      /\ account'[u] = (IF account[u] = p THEN c ELSE account[u])
      /\ \A v \in SqlUsers \ {u} : account'[v] = account[v]
  BY <1>2, <1>5 DEF SqlTypeOK, Owners
<1>10. SqlTypeOK'
  BY <1>2, <1>5, <1>6, <1>7, <1>8, <1>9 DEF SqlTypeOK, Names, Touched
<1>11. i < nextId["database"] /\ \A r \in sqlDatabase : r.id = i => r.name = x /\ r.customer = c
  BY <1>2, <1>3 DEF KnownCall, Adding
<1>12. Numbered'
  <2>1. IsFiniteSet(sqlDatabase') /\ IsFiniteSet(sqlUser')
    BY <1>2, <1>5, FS_AddElement DEF SqlInv, Numbered
  <2>2. \A v, w \in sqlUser' : v.id = w.id => v = w
    BY <1>5, <1>8, Numbers DEF SqlInv, Numbered
  <2>3. \A r \in sqlDatabase' : r.id < nextId'["database"]
    BY <1>2, <1>8, Numbers
  <2>4. \A w \in sqlUser' : w.id < nextId'["user"] /\ w.db < nextId'["database"]
    <3>1. new.id < nextId'["user"] /\ new.db < nextId'["database"]
      BY <1>5, <1>8, <1>11, Numbers
    <3>2. ASSUME NEW w \in sqlUser  PROVE w.id < nextId'["user"] /\ w.db < nextId'["database"]
      <4>1. w.id < nextId["user"] /\ w.id \in Int /\ w.db < nextId["database"] /\ nextId["user"] \in Int
        BY Numbers
      <4> QED  BY <1>8, <4>1
    <3> QED  BY <1>5, <3>1, <3>2
  <2>5. \A r, o \in sqlDatabase' : r.id = o.id => r = o
    BY <1>2 DEF SqlInv, Numbered
  <2> QED  BY <2>1, <2>2, <2>3, <2>4, <2>5 DEF Numbered
<1>13. Disturbs(p, {u, x})
  <2>1. \A w \in sqlUser' \ sqlUser : w.id = nextId["user"] /\ \A r \in sqlDatabase : r.id = w.db => r.name \in {u, x}
    BY <1>5, <1>11
  <2>2. \A w \in UserRows : w.user \notin {u, x} => (w \in sqlUser' <=> w \in sqlUser)
    BY <1>5
  <2> QED  BY <1>2, <1>6, <1>7, <1>8, <1>9, <2>1, <2>2 DEF Disturbs, Touched
<1>14. u \in Names \cap {u, x} /\ x \in Names \cap {u, x} /\ new \in sqlUser'
  BY <1>5 DEF Names
<1>15. DatabaseKept(x)'
  <2>1. PICK none : none = {}
    OBVIOUS
  <2>2. /\ x \in {u, x} /\ x \notin none /\ schema'[x] = schema[x] /\ sqlDatabase' = sqlDatabase
        /\ sqlCall[p].at \notin {"insert database", "undo database", "delete database row"}
    BY <1>1, <1>2, <2>1
  <2>3. Touched(p, {u, x}, none)
    BY <1>7, <2>1
  <2> QED  BY <2>2, <2>3, DatabaseUnmoved
(* Where the user has no marks the account is the customer's now, and the  *)
(* row is the first or joins the customer's others.                        *)
<1>16. ASSUME Clean(u)'
       PROVE  /\ account'[u] = c /\ password[u] = c
              /\ \A w \in sqlUser : w.user = u => w.db # i
              /\ \A w \in sqlUser, r \in sqlDatabase : w.user = u /\ r.id = w.db => r.customer = c
              /\ \A v, w \in sqlUser : v.user = u /\ w.user = u /\ v.db = w.db => v = w
  <2>1. Clean(u) /\ p \notin overtaken /\ UserKept(u)
    BY <1>7, <1>14, <1>16 DEF Touched, SqlInv
  <2>2. CASE was.whole
    <3>1. account[u] = p
      BY <1>2, <1>3, <2>1, <2>2 DEF Found
    <3>2. password[u] = c /\ \A w \in sqlUser : w.user # u
      BY <1>1, <1>3, <2>1, <3>1 DEF UserKept
    <3> QED  BY <1>9, <3>1, <3>2
  <2>3. CASE ~was.whole
    <3>1. account[u] = c /\ \A w \in sqlUser : ~(w.user = u /\ w.db = i)
      BY <1>2, <1>3, <2>1, <2>3 DEF Found, Suits
    <3>2. c # p
      BY NamesApart
    <3> QED  BY <1>9, <2>1, <3>1, <3>2 DEF UserKept
  <2> QED  BY <2>2, <2>3
<1>17. UserKept(u)'
  <2>1. Weak(u)' /\ leftover'[u] # {} => \E w \in sqlUser' : w.user = u
    BY <1>5, <1>14
  <2>2. Clean(u)' => \A w \in sqlUser', r \in sqlDatabase' : w.user = u /\ r.id = w.db => r.customer = c
    BY <1>2, <1>5, <1>11, <1>16
  <2>3. Clean(u)' => \A v, w \in sqlUser' : v.user = u /\ w.user = u /\ v.db = w.db => v = w
    BY <1>5, <1>16
  <2>4. Clean(u)' => account'[u] = c /\ password'[u] = c
    BY <1>2, <1>16
  <2>5. c # None /\ c \notin Procs
    BY NamesApart
  <2> QED  BY <1>5, <1>14, <2>1, <2>2, <2>3, <2>4, <2>5 DEF UserKept
<1>18. ASSUME NEW v \in SqlUsers, NEW y \in Databases  PROVE GrantKept(v, y)'
  <2>1. v \in Names /\ y \in Names /\ Marks(p, {u, x}) /\ GrantKept(v, y)
    BY <1>7 DEF Names, Touched, SqlInv
  <2>2. \A n \in Names : (Clean(n)' => Clean(n)) /\ (Weak(n)' => Weak(n))
    BY <1>7, <1>13, <2>1, WeakBefore DEF Touched
  <2>3. Grantee(v, y) => Grantee(v, y)'
    BY <1>2, <1>5 DEF Grantee
  <2>4. CASE v = u
    (* Nobody else is half done with the user, and p is with this grant. *)
    <3>1. Weak(u)' => p \notin overtaken /\ \A q \in Procs \ {p} : ~HalfDone(q, u)
      BY <1>7, <1>14 DEF Touched
    <3>2. ASSUME Weak(u)'
          PROVE  /\ <<u, x>> \in grants /\ Grantee(u, x)'
                 /\ \A q \in Procs : GrantedBy(q, u, y) => y = x
                 /\ \A q \in Procs : ~RevokedBy(q, u, y)
      <4>1. PICK r \in sqlDatabase : r.id = i
        BY <1>2, <1>3, <3>1, <3>2 DEF Found, Adding
      <4>2. Grantee(u, x)'
        BY <1>2, <1>5, <1>11, <1>14, <4>1 DEF Grantee
      <4>3. <<u, x>> \in grants
        BY <1>2, <1>3, <3>1, <3>2 DEF Found
      <4>4. ASSUME NEW q \in Procs, GrantedBy(q, u, y)  PROVE y = x
        <5>1. HalfDone(q, u)
          BY <4>4 DEF GrantedBy, HalfDone, Half, Undoing, Dropping
        <5> QED  BY <1>1, <1>3, <3>1, <3>2, <4>4, <5>1 DEF GrantedBy
      <4>5. ASSUME NEW q \in Procs, RevokedBy(q, u, y)  PROVE FALSE
        <5>1. HalfDone(q, u)
          BY <4>5 DEF RevokedBy, HalfDone, Half, Dropping
        <5> QED  BY <1>1, <1>2, <3>1, <3>2, <4>5, <5>1 DEF RevokedBy
      <4> QED  BY <4>2, <4>3, <4>4, <4>5
    <3>3. ASSUME Weak(u)', Weak(y)', <<u, y>> \in grants'  PROVE Grantee(u, y)'
      BY <1>2, <2>1, <2>2, <2>3, <2>4, <3>2, <3>3 DEF GrantKept
    <3>4. ASSUME Clean(u)', Clean(y)', Grantee(u, y)'  PROVE <<u, y>> \in grants'
      <4>1. Weak(u)' /\ Clean(u) /\ Clean(y)
        BY <1>7, <1>14, <2>1, <2>2, <2>4, <3>4 DEF Touched
      <4>2. PICK r \in sqlDatabase, w \in sqlUser' : r.name = y /\ w.db = r.id /\ w.user = u
        BY <1>2, <3>4 DEF Grantee
      <4>3. CASE w \in sqlUser
        <5>1. Grantee(u, y)
          BY <4>2, <4>3 DEF Grantee
        <5> QED  BY <1>2, <2>1, <2>4, <3>2, <4>1, <5>1 DEF GrantKept
      <4>4. CASE w = new
        <5>1. y = x
          BY <1>5, <1>11, <4>2, <4>4
        <5> QED  BY <1>2, <3>2, <4>1, <5>1
      <4> QED  BY <1>5, <4>2, <4>3, <4>4
    <3> QED  BY <2>4, <3>3, <3>4 DEF GrantKept
  <2>5. CASE v # u
    <3>1. v \notin {u, x}
      BY <2>5, NamesApart
    <3>2. Grantee(v, y)' => Grantee(v, y)
      BY <1>2, <1>5, <2>5 DEF Grantee
    <3>3. UNCHANGED grants
      BY <1>2
    <3> QED  BY <1>13, <2>1, <2>2, <2>3, <3>1, <3>2, <3>3, GrantStays
  <2> QED  BY <2>4, <2>5
<1>19. SqlUsers \cap {u, x} = {u} /\ Databases \cap {u, x} = {x}
  BY NamesApart
<1> QED  BY <1>6, <1>7, <1>10, <1>12, <1>13, <1>15, <1>17, <1>18, <1>19, StepKeeps DEF Touched
(* What createUser takes back last: the grant, or those of the account it  *)
(* had made.                                                               *)
LEMMA UndoEnds ==
  ASSUME SqlInv, NEW p \in Procs,
         \/ sqlCall[p].at = "undo user" /\ ~sqlCall[p].whole
         \/ sqlCall[p].at = "undo grants",
         IF sqlCall[p].at = "undo user" THEN Revoke(sqlCall[p].user, sqlCall[p].db)
                                        ELSE DropGrants(sqlCall[p].user),
         End(p), Touch(p, {sqlCall[p].user, sqlCall[p].db}, {}), UNCHANGED tables
  PROVE  SqlInv'
<1>1. PICK was : was = sqlCall[p]
  OBVIOUS
<1>2. /\ SqlTypeOK /\ was \in Calls /\ ShapedCall(was) /\ KnownCall(was)
      /\ \/ was.at = "undo user" /\ ~was.whole
         \/ was.at = "undo grants" /\ was.whole
      /\ p \notin overtaken => Found(p, was) /\ Suits(was)
      /\ UNCHANGED <<sqlDatabase, sqlUser, nextId>>
      /\ \A n : HalfDone(p, n) <=> was.at \in Half /\ n \in {was.db, was.user}
  BY <1>1, CallNow DEF tables, ShapedCall
<1>3. PICK u \in SqlUsers, x \in Databases, i \in RowIds : u = was.user /\ x = was.db /\ i = was.id
  BY <1>2 DEF ShapedCall, Adding
<1>4. /\ End(p) /\ Touch(p, {u, x}, {}) /\ UNCHANGED <<schema, account, password>>
      /\ grants' = IF was.whole THEN {g \in grants : g[1] # u} ELSE grants \ {<<u, x>>}
  BY <1>1, <1>2, <1>3 DEF DropGrants, Revoke
<1>5. /\ sqlCall' \in [Procs -> Calls] /\ callsLeft' \in 0..MaxCalls /\ CallKept(p)'
      /\ \A q \in Procs \ {p} : sqlCall'[q] = sqlCall[q]
  BY <1>4, EndChange
<1>6. Touched(p, {u, x}, {})
  <2>1. \A n \in Names : HalfDone(p, n) => n \in {u, x}
    BY <1>2, <1>3
  <2>2. sqlCall[p].at # "grant" /\ {} \subseteq {u, x}
    BY <1>1, <1>2
  <2> QED  BY <1>4, <1>5, <2>1, <2>2, TouchMarks
<1>7. grants' \subseteq grants /\ grants \subseteq SqlUsers \X Databases
  BY <1>2, <1>4 DEF SqlTypeOK
<1>8. \A v \in SqlUsers, y \in Databases :
         <<v, y>> \in grants' <=> <<v, y>> \in grants /\ (v # u \/ (~was.whole /\ y # x))
  BY <1>4
<1>9. SqlTypeOK'
  BY <1>2, <1>4, <1>5, <1>6, <1>7 DEF SqlTypeOK, Names, Touched
<1>10. Numbered'
  BY <1>2 DEF SqlInv, Numbered
<1>11. Disturbs(p, {u, x})
  <2>1. nextId'["database"] >= nextId["database"] /\ nextId'["user"] >= nextId["user"]
    BY <1>2, NextIdStays
  <2>2. \A v \in SqlUsers \ {u, x} :
           /\ account'[v] = account[v] /\ password'[v] = password[v]
           /\ \A y \in Databases : <<v, y>> \in grants' <=> <<v, y>> \in grants
    BY <1>4, <1>8
  <2> QED  BY <1>2, <1>4, <1>5, <1>6, <2>1, <2>2 DEF Disturbs, Touched
<1>12. u \in Names \cap {u, x} /\ x \in Names \cap {u, x}
  BY DEF Names
<1>13. DatabaseKept(x)'
  <2>1. PICK none : none = {}
    OBVIOUS
  <2>2. /\ x \in {u, x} /\ x \notin none /\ schema'[x] = schema[x] /\ sqlDatabase' = sqlDatabase
        /\ sqlCall[p].at \notin {"insert database", "undo database", "delete database row"}
    BY <1>1, <1>2, <1>4, <2>1
  <2>3. Touched(p, {u, x}, none)
    BY <1>6, <2>1
  <2> QED  BY <2>2, <2>3, DatabaseUnmoved
<1>14. Clean(u)' /\ was.whole => \A w \in sqlUser : w.user # u
  <2> SUFFICES ASSUME Clean(u)', was.whole  PROVE \A w \in sqlUser : w.user # u
    OBVIOUS
  <2>1. p \notin overtaken /\ was.at = "undo grants"
    BY <1>2, <1>6, <1>12 DEF Touched
  <2>2. account[u] = None /\ sqlCall[p].at \notin Dropping /\ u \in {u, x}
    BY <1>1, <1>2, <1>3, <2>1 DEF Found, Dropping
  <2> QED  BY <1>6, <2>2, NoRowsLeft
<1>15. UserKept(u)'
  <2>1. UserKept(u)
    BY DEF SqlInv
  <2>2. /\ u \in {u, x} /\ u \notin {} /\ account'[u] = account[u] /\ password'[u] = password[u]
        /\ sqlDatabase' = sqlDatabase /\ sqlUser' = sqlUser /\ sqlCall[p].at \notin Dropping
    BY <1>1, <1>2, <1>4 DEF Dropping
  <2>3. account[u] = p /\ Clean(u) => FALSE
    BY <1>1, <1>2, <2>1 DEF UserKept
  <2> QED  BY <1>5, <1>6, <2>2, <2>3, UserUnmoved
<1>16. ASSUME NEW v \in SqlUsers, NEW y \in Databases  PROVE GrantKept(v, y)'
  <2>1. v \in Names /\ y \in Names /\ Marks(p, {u, x}) /\ GrantKept(v, y)
    BY <1>6 DEF Names, Touched, SqlInv
  <2>2. \A n \in Names : (Clean(n)' => Clean(n)) /\ (Weak(n)' => Weak(n))
    BY <1>6, <1>11, <2>1, WeakBefore DEF Touched
  <2>3. Grantee(v, y)' <=> Grantee(v, y)
    BY <1>2 DEF Grantee
  <2>4. CASE v = u
    <3>1. Weak(u)' => p \notin overtaken /\ \A q \in Procs \ {p} : ~HalfDone(q, u)
      BY <1>6, <1>12 DEF Touched
    <3>2. ASSUME Weak(u)'
          PROVE  /\ \A q \in Procs : GrantedBy(q, u, y) => y = x
                 /\ \A q \in Procs : ~RevokedBy(q, u, y)
      <4>1. ASSUME NEW q \in Procs, GrantedBy(q, u, y)  PROVE y = x
        <5>1. HalfDone(q, u)
          BY <4>1 DEF GrantedBy, HalfDone, Half, Undoing, Dropping
        <5> QED  BY <1>1, <1>3, <3>1, <3>2, <4>1, <5>1 DEF GrantedBy
      <4>2. ASSUME NEW q \in Procs, RevokedBy(q, u, y)  PROVE FALSE
        <5>1. HalfDone(q, u)
          BY <4>2 DEF RevokedBy, HalfDone, Half, Dropping
        <5> QED  BY <1>1, <1>2, <3>1, <3>2, <4>2, <5>1 DEF RevokedBy
      <4> QED  BY <4>1, <4>2
    <3>3. ASSUME Weak(u)', Weak(y)', <<u, y>> \in grants'  PROVE Grantee(u, y)'
      <4>1. <<u, y>> \in grants /\ y # x
        BY <1>8, <3>3
      <4> QED  BY <2>1, <2>2, <2>3, <2>4, <3>2, <3>3, <4>1 DEF GrantKept
    <3>4. ASSUME Clean(u)', Clean(y)', Grantee(u, y)'  PROVE <<u, y>> \in grants'
      <4>1. Weak(u)' /\ Clean(u) /\ Clean(y) /\ p \notin overtaken
        BY <1>6, <1>12, <2>1, <2>2, <2>4, <3>4 DEF Touched
      <4>2. PICK r \in sqlDatabase, w \in sqlUser : r.name = y /\ w.db = r.id /\ w.user = u
        BY <1>2, <3>4 DEF Grantee
      <4>3. ~was.whole
        BY <1>14, <3>4, <4>2
      <4>4. <<u, y>> \in grants
        <5>1. Grantee(u, y)
          BY <4>2 DEF Grantee
        <5> QED  BY <2>1, <2>4, <3>2, <4>1, <5>1 DEF GrantKept
      <4>5. ASSUME y = x  PROVE FALSE
        <5>1. PICK o \in sqlDatabase : o.id = i /\ o.name = x
          BY <1>2, <1>3, <4>1 DEF Found, KnownCall, Adding
        <5>2. DatabaseKept(x)
          BY DEF SqlInv
        <5>3. r = o
          BY <4>1, <4>2, <4>5, <5>1, <5>2 DEF DatabaseKept
        <5>4. \A e \in sqlUser : ~(e.user = u /\ e.db = i)
          BY <1>2, <1>3, <4>1, <4>3 DEF Found
        <5> QED  BY <4>2, <5>1, <5>3, <5>4
      <4> QED  BY <1>8, <4>3, <4>4, <4>5
    <3> QED  BY <2>4, <3>3, <3>4 DEF GrantKept
  <2>5. CASE v # u
    <3>1. v \notin {u, x}
      BY <2>5, NamesApart
    <3>2. <<v, y>> \in grants' <=> <<v, y>> \in grants
      BY <1>8, <2>5
    <3> QED  BY <1>11, <2>1, <2>2, <2>3, <3>1, <3>2, GrantStays
  <2> QED  BY <2>4, <2>5
<1>17. SqlUsers \cap {u, x} = {u} /\ Databases \cap {u, x} = {x}
  BY NamesApart
<1> QED  BY <1>5, <1>6, <1>9, <1>10, <1>11, <1>13, <1>15, <1>16, <1>17, StepKeeps DEF Touched

(* And first, the account it had made. *)
LEMMA UndoDrops ==
  ASSUME SqlInv, NEW p \in Procs, sqlCall[p].at = "undo user", sqlCall[p].whole,
         DropUser(sqlCall[p].user), Goto(p, "undo grants"), Touch(p, {sqlCall[p].user, sqlCall[p].db}, {}),
         UNCHANGED tables
  PROVE  SqlInv'
<1>1. PICK was : was = sqlCall[p]
  OBVIOUS
<1>2. /\ SqlTypeOK /\ was \in Calls /\ ShapedCall(was) /\ KnownCall(was) /\ was.at = "undo user" /\ was.whole
      /\ p \notin overtaken => Found(p, was)
      /\ UNCHANGED <<schema, grants, sqlDatabase, sqlUser, nextId>>
      /\ \A n : HalfDone(p, n) <=> was.at \in Half /\ n \in {was.db, was.user}
  BY <1>1, CallNow DEF tables, DropUser
<1>3. PICK u \in SqlUsers, x \in Databases : /\ u = was.user /\ x = was.db /\ was.customer \in SqlCustomers
                                            /\ was.id \in RowIds /\ was.rows = {} /\ ~was.drops
  BY <1>2 DEF ShapedCall, Adding, Deleting, Removing, Dropping
<1>4. /\ Touch(p, {u, x}, {})
      /\ account' = [account EXCEPT ![u] = None]
      /\ password' = [password EXCEPT ![u] = None]
  BY <1>1, <1>3 DEF DropUser
<1>5. PICK call \in Calls : sqlCall' = [sqlCall EXCEPT ![p] = call] /\ Moved(call, was, "undo grants")
  BY <1>1, <1>2, GotoChange DEF Points
<1>6. /\ sqlCall' \in [Procs -> Calls] /\ sqlCall'[p] = call
      /\ \A q \in Procs \ {p} : sqlCall'[q] = sqlCall[q]
  BY <1>2, <1>5, CallChange
<1>7. Touched(p, {u, x}, {}) /\ (p \in overtaken => p \in overtaken')
  <2>1. \A n \in Names : HalfDone(p, n) => n \in {u, x}
    BY <1>2, <1>3
  <2>2. sqlCall[p].at # "grant" /\ {} \subseteq {u, x}
    BY <1>1, <1>2
  <2>3. p \in overtaken => p \in overtaken'
    BY <1>2, <1>4, <1>5, <1>6 DEF Touch, Moved
  <2> QED  BY <1>4, <1>6, <2>1, <2>2, <2>3, TouchMarks
<1>8. /\ account' \in [SqlUsers -> Owners] /\ account'[u] = None
      /\ password' \in [SqlUsers -> SqlCustomers \cup {None}]
      /\ \A v \in SqlUsers \ {u} : account'[v] = account[v] /\ password'[v] = password[v]
      /\ callsLeft' = callsLeft
  BY <1>2, <1>4 DEF SqlTypeOK, Owners, Goto
<1>9. SqlTypeOK'
  BY <1>2, <1>6, <1>7, <1>8, CallsLeftStay DEF SqlTypeOK, Names, Touched
<1>10. Numbered'
  BY <1>2 DEF SqlInv, Numbered
<1>11. Disturbs(p, {u, x})
  <2>1. nextId'["database"] >= nextId["database"] /\ nextId'["user"] >= nextId["user"]
    BY <1>2, NextIdStays
  <2> QED  BY <1>2, <1>6, <1>7, <1>8, <2>1 DEF Disturbs, Touched
<1>12. u \in Names \cap {u, x} /\ x \in Names \cap {u, x}
  BY DEF Names
<1>13. CallKept(p)'
  <2>1. ShapedCall(call)
    BY <1>2, <1>3, <1>5 DEF ShapedCall, Moved, Making, Deleting, Removing, Adding, Dropping
  <2>2. KnownCall(call)'
    BY <1>2, <1>3, <1>5 DEF KnownCall, Moved, Adding
  <2>3. ASSUME p \notin overtaken  PROVE Relied(p, call)'
    <3>1. \E r \in sqlDatabase : r.id = was.id
      BY <1>2, <2>3 DEF Found, Adding
    <3>2. /\ call.at = "undo grants" /\ call.whole /\ call.user = u /\ call.id = was.id /\ call.db = was.db
          /\ call.rows = {} /\ ~call.drops
      BY <1>2, <1>3, <1>5 DEF Moved
    <3>3. Found(p, call)'
      BY <1>2, <1>8, <3>1, <3>2 DEF Found, Removing, Dropping
    <3> QED  BY <3>2, <3>3 DEF Relied, Suits
  <2> QED  BY <1>6, <1>7, <2>1, <2>2, <2>3 DEF CallKept
<1>14. DatabaseKept(x)'
  <2>1. PICK none : none = {}
    OBVIOUS
  <2>2. /\ x \in {u, x} /\ x \notin none /\ schema'[x] = schema[x] /\ sqlDatabase' = sqlDatabase
        /\ sqlCall[p].at \notin {"insert database", "undo database", "delete database row"}
    BY <1>1, <1>2, <2>1
  <2>3. Touched(p, {u, x}, none)
    BY <1>7, <2>1
  <2> QED  BY <2>2, <2>3, DatabaseUnmoved
<1>15. Clean(u)' => \A w \in sqlUser : w.user # u
  <2> SUFFICES ASSUME Clean(u)'  PROVE \A w \in sqlUser : w.user # u
    OBVIOUS
  <2>1. Clean(u) /\ p \notin overtaken /\ UserKept(u)
    BY <1>7, <1>12 DEF Touched, SqlInv
  <2>2. account[u] = p
    BY <1>2, <1>3, <2>1 DEF Found
  <2> QED  BY <2>1, <2>2 DEF UserKept
<1>16. UserKept(u)'
  <2>1. UserKept(u)
    BY DEF SqlInv
  <2>2. Weak(u)' /\ leftover'[u] # {} => \E w \in sqlUser' : w.user = u
    BY <1>2, <1>7, <1>12, <2>1 DEF Touched, UserKept
  <2> QED  BY <1>2, <1>8, <1>15, <2>2, NamesApart DEF UserKept
<1>17. ASSUME NEW v \in SqlUsers, NEW y \in Databases  PROVE GrantKept(v, y)'
  <2>1. v \in Names /\ y \in Names /\ Marks(p, {u, x}) /\ GrantKept(v, y)
    BY <1>7 DEF Names, Touched, SqlInv
  <2>2. \A n \in Names : (Clean(n)' => Clean(n)) /\ (Weak(n)' => Weak(n))
    BY <1>7, <1>11, <2>1, WeakBefore DEF Touched
  <2>3. Grantee(v, y)' <=> Grantee(v, y)
    BY <1>2 DEF Grantee
  <2>4. <<v, y>> \in grants' <=> <<v, y>> \in grants
    BY <1>2
  <2>5. CASE v = u
    <3>1. ASSUME Weak(u)', Weak(y)', <<u, y>> \in grants', ~Grantee(u, y)
          PROVE  \E q \in Procs : GrantedBy(q, u, y)'
      <4>1. PICK q \in Procs : GrantedBy(q, u, y)
        BY <2>1, <2>2, <2>4, <2>5, <3>1 DEF GrantKept
      <4>2. HalfDone(q, u)
        BY <4>1 DEF GrantedBy, HalfDone, Half, Undoing, Dropping
      <4>3. q = p /\ p \notin overtaken
        BY <1>7, <1>12, <3>1, <4>2 DEF Touched
      <4>4. p \notin overtaken' /\ call.at = "undo grants" /\ call.user = u /\ call.db = x /\ y = x
        BY <1>1, <1>3, <1>5, <1>7, <4>1, <4>3 DEF Touched, Moved, GrantedBy
      <4> QED  BY <1>6, <4>4 DEF GrantedBy
    <3>2. Clean(u)' => ~Grantee(u, y)
      BY <1>15 DEF Grantee
    <3> QED  BY <2>3, <2>5, <3>1, <3>2 DEF GrantKept
  <2>6. CASE v # u
    <3>1. v \notin {u, x}
      BY <2>6, NamesApart
    <3> QED  BY <1>11, <2>1, <2>2, <2>3, <2>4, <3>1, GrantStays
  <2> QED  BY <2>5, <2>6
<1>18. SqlUsers \cap {u, x} = {u} /\ Databases \cap {u, x} = {x}
  BY NamesApart
<1> QED  BY <1>7, <1>9, <1>10, <1>11, <1>13, <1>14, <1>16, <1>17, <1>18, StepKeeps DEF Touched

LEMMA CreateUserUndoKeeps ==
  ASSUME SqlInv, NEW p \in Procs, CreateUserUndo(p)
  PROVE  SqlInv'
<1>1. sqlCall[p].at = "undo user" /\ Touch(p, {sqlCall[p].user, sqlCall[p].db}, {}) /\ UNCHANGED tables
  BY DEF CreateUserUndo, At
<1>2. CASE sqlCall[p].whole
  <2>1. DropUser(sqlCall[p].user) /\ Goto(p, "undo grants")
    BY <1>2 DEF CreateUserUndo
  <2> QED  BY <1>1, <1>2, <2>1, UndoDrops
<1>3. CASE ~sqlCall[p].whole
  <2>1. Revoke(sqlCall[p].user, sqlCall[p].db) /\ End(p)
    BY <1>3 DEF CreateUserUndo
  <2> QED  BY <1>1, <1>3, <2>1, UndoEnds
<1> QED  BY <1>2, <1>3

LEMMA CreateUserUndoGrantsKeeps ==
  ASSUME SqlInv, NEW p \in Procs, CreateUserUndoGrants(p)
  PROVE  SqlInv'
<1>1. /\ sqlCall[p].at = "undo grants" /\ DropGrants(sqlCall[p].user) /\ End(p)
      /\ Touch(p, {sqlCall[p].user, sqlCall[p].db}, {}) /\ UNCHANGED tables
  BY DEF CreateUserUndoGrants, At
<1> QED  BY <1>1, UndoEnds

---------------------------------------------------------------------------
(* Removing a user.                                                        *)

LEMMA RemoveUserDropKeeps ==
  ASSUME SqlInv, NEW p \in Procs, RemoveUserDrop(p)
  PROVE  SqlInv'
<1>1. PICK was : was = sqlCall[p]
  OBVIOUS
<1>2. /\ SqlTypeOK /\ was \in Calls /\ ShapedCall(was) /\ KnownCall(was) /\ was.at = "drop user"
      /\ p \notin overtaken => Found(p, was)
      /\ UNCHANGED <<schema, grants, sqlDatabase, sqlUser, nextId>>
      /\ Goto(p, "drop grants")
  BY <1>1, CallNow DEF RemoveUserDrop, DropUser, At, tables
<1>3. PICK u \in SqlUsers : /\ u = was.user /\ was.customer \in SqlCustomers /\ was.id \in RowIds
                            /\ was.db \in Databases /\ was.row \in RowIds /\ was.whole
  BY <1>2 DEF ShapedCall, Removing, Deleting, Dropping
<1>4. /\ Touch(p, {u}, {})
      /\ account' = [account EXCEPT ![u] = None]
      /\ password' = [password EXCEPT ![u] = None]
  BY <1>1, <1>3 DEF RemoveUserDrop, DropUser
<1>5. PICK call \in Calls : sqlCall' = [sqlCall EXCEPT ![p] = call] /\ Moved(call, was, "drop grants")
  BY <1>1, <1>2, GotoChange DEF Points
<1>6. /\ sqlCall' \in [Procs -> Calls] /\ sqlCall'[p] = call
      /\ \A q \in Procs \ {p} : sqlCall'[q] = sqlCall[q]
  BY <1>2, <1>5, CallChange
<1>7. Touched(p, {u}, {}) /\ (p \in overtaken => p \in overtaken')
  <2>1. \A n \in Names : ~HalfDone(p, n)
    BY <1>1, <1>2 DEF HalfDone, Half, Undoing, Dropping
  <2>2. sqlCall[p].at # "grant" /\ {} \subseteq {u}
    BY <1>1, <1>2
  <2>3. p \in overtaken => p \in overtaken'
    BY <1>2, <1>4, <1>5, <1>6 DEF Touch, Moved
  <2> QED  BY <1>4, <1>6, <2>1, <2>2, <2>3, TouchMarks
<1>8. /\ account' \in [SqlUsers -> Owners] /\ account'[u] = None
      /\ password' \in [SqlUsers -> SqlCustomers \cup {None}]
      /\ \A v \in SqlUsers \ {u} : account'[v] = account[v] /\ password'[v] = password[v]
      /\ callsLeft' = callsLeft
  BY <1>2, <1>4 DEF SqlTypeOK, Owners, Goto
<1>10. SqlTypeOK'
  BY <1>2, <1>6, <1>7, <1>8, CallsLeftStay DEF SqlTypeOK, Names, Touched
<1>11. Numbered'
  BY <1>2 DEF SqlInv, Numbered
<1>12. Disturbs(p, {u})
  <2>1. nextId'["database"] >= nextId["database"] /\ nextId'["user"] >= nextId["user"]
    BY <1>2, NextIdStays
  <2> QED  BY <1>2, <1>6, <1>7, <1>8, <2>1 DEF Disturbs, Touched
<1>13. u \in Names \cap {u}
  BY DEF Names
<1>14. CallKept(p)'
  <2>1. ShapedCall(call)
    BY <1>2, <1>3, <1>5 DEF ShapedCall, Moved, Making, Deleting, Removing, Adding, Dropping
  <2>2. KnownCall(call)'
    BY <1>2, <1>3, <1>5 DEF KnownCall, Moved, Deleting, Removing, Dropping
  <2>3. ASSUME p \notin overtaken  PROVE Relied(p, call)'
    <3>1. /\ \E r \in sqlDatabase : r.id = was.id
          /\ was.rows \subseteq sqlUser
          /\ was.drops => \A w \in sqlUser : w.db = was.id => w \in was.rows
          /\ \A v \in sqlUser : v.user = u => v.id = was.row
      BY <1>2, <1>3, <2>3 DEF Found, Deleting, Removing, Dropping
    <3>2. account'[u] = None
      BY <1>8
    <3>3. /\ call.at = "drop grants" /\ call.whole /\ call.user = u /\ call.id = was.id /\ call.db = was.db
          /\ call.rows = was.rows /\ call.row = was.row /\ (call.drops <=> was.drops)
      BY <1>3, <1>5 DEF Moved
    <3>4. Found(p, call)'
      BY <1>2, <3>1, <3>2, <3>3 DEF Found, Adding
    <3> QED  BY <3>3, <3>4 DEF Relied, Suits
  <2> QED  BY <1>6, <1>7, <2>1, <2>2, <2>3 DEF CallKept
(* The one that has dropped the account vouches for the row that is left.  *)
<1>15. Clean(u)' => /\ p \notin overtaken' /\ sqlCall'[p].at \in Dropping
                    /\ sqlCall'[p].whole /\ sqlCall'[p].user = u
  BY <1>3, <1>5, <1>6, <1>7, <1>13 DEF Touched, Moved, Dropping
<1>16. UserKept(u)'
  <2>1. UserKept(u)
    BY DEF SqlInv
  <2>2. Weak(u)' /\ leftover'[u] # {} => \E w \in sqlUser' : w.user = u
    BY <1>2, <1>7, <1>13, <2>1 DEF Touched, UserKept
  <2>3. Clean(u)' => \A v, w \in sqlUser' : v.user = u /\ w.user = u /\ v.db = w.db => v = w
    BY <1>2, <1>7, <1>13, <2>1 DEF Touched, UserKept
  <2> QED  BY <1>8, <1>15, <2>2, <2>3, NamesApart DEF UserKept
<1>17. ASSUME NEW v \in SqlUsers, NEW y \in Databases  PROVE GrantKept(v, y)'
  <2>1. sqlCall[p].at \notin {"insert user", "undo user", "undo grants", "delete user row"}
    BY <1>1, <1>2
  <2> QED  BY <1>2, <1>7, <1>12, <2>1, GrantsUnmoved
<1>18. SqlUsers \cap {u} = {u} /\ Databases \cap {u} = {}
  BY NamesApart
<1> QED  BY <1>7, <1>10, <1>11, <1>12, <1>14, <1>16, <1>17, <1>18, StepKeeps DEF Touched

LEMMA RemoveUserDropGrantsKeeps ==
  ASSUME SqlInv, NEW p \in Procs, RemoveUserDropGrants(p)
  PROVE  SqlInv'
<1>1. PICK was : was = sqlCall[p]
  OBVIOUS
<1>2. /\ SqlTypeOK /\ was \in Calls /\ ShapedCall(was) /\ KnownCall(was) /\ was.at = "drop grants"
      /\ p \notin overtaken => Found(p, was)
      /\ UNCHANGED <<schema, account, password, sqlDatabase, sqlUser, nextId>>
      /\ Goto(p, "delete user row")
      /\ \A n : HalfDone(p, n) <=> was.at \in Half /\ n \in {was.db, was.user}
  BY <1>1, CallNow DEF RemoveUserDropGrants, DropGrants, At, tables
<1>3. PICK u \in SqlUsers, x \in Databases :
         /\ u = was.user /\ x = was.db /\ was.customer \in SqlCustomers /\ was.id \in RowIds
         /\ was.row \in RowIds /\ was.whole
  BY <1>2 DEF ShapedCall, Removing, Deleting, Dropping
<1>4. Touch(p, {u, x}, {}) /\ grants' = {g \in grants : g[1] # u}
  BY <1>1, <1>3 DEF RemoveUserDropGrants, DropGrants
<1>5. PICK call \in Calls : sqlCall' = [sqlCall EXCEPT ![p] = call] /\ Moved(call, was, "delete user row")
  BY <1>1, <1>2, GotoChange DEF Points
<1>6. /\ sqlCall' \in [Procs -> Calls] /\ sqlCall'[p] = call
      /\ \A q \in Procs \ {p} : sqlCall'[q] = sqlCall[q]
  BY <1>2, <1>5, CallChange
<1>7. Touched(p, {u, x}, {}) /\ (p \in overtaken => p \in overtaken')
  <2>1. \A n \in Names : HalfDone(p, n) => n \in {u, x}
    BY <1>2, <1>3
  <2>2. sqlCall[p].at # "grant" /\ {} \subseteq {u, x}
    BY <1>1, <1>2
  <2>3. p \in overtaken => p \in overtaken'
    BY <1>2, <1>4, <1>5, <1>6 DEF Touch, Moved
  <2> QED  BY <1>4, <1>6, <2>1, <2>2, <2>3, TouchMarks
<1>8. grants' \subseteq grants /\ grants \subseteq SqlUsers \X Databases /\ callsLeft' = callsLeft
  BY <1>2, <1>4 DEF SqlTypeOK, Goto
<1>9. \A v \in SqlUsers, y \in Databases : <<v, y>> \in grants' <=> <<v, y>> \in grants /\ v # u
  BY <1>4
<1>10. SqlTypeOK'
  BY <1>2, <1>6, <1>7, <1>8, CallsLeftStay DEF SqlTypeOK, Names, Touched
<1>11. Numbered'
  BY <1>2 DEF SqlInv, Numbered
<1>12. Disturbs(p, {u, x})
  <2>1. nextId'["database"] >= nextId["database"] /\ nextId'["user"] >= nextId["user"]
    BY <1>2, NextIdStays
  <2> QED  BY <1>2, <1>6, <1>7, <1>9, <2>1 DEF Disturbs, Touched
<1>13. u \in Names \cap {u, x} /\ x \in Names \cap {u, x}
  BY DEF Names
<1>14. CallKept(p)'
  <2>1. ShapedCall(call)
    BY <1>2, <1>3, <1>5 DEF ShapedCall, Moved, Making, Deleting, Removing, Adding, Dropping
  <2>2. KnownCall(call)'
    BY <1>2, <1>3, <1>5 DEF KnownCall, Moved, Deleting, Removing, Dropping
  <2>3. ASSUME p \notin overtaken  PROVE Relied(p, call)'
    <3>1. /\ \E r \in sqlDatabase : r.id = was.id
          /\ was.rows \subseteq sqlUser
          /\ was.drops => \A w \in sqlUser : w.db = was.id => w \in was.rows
          /\ \A v \in sqlUser : v.user = u => v.id = was.row
          /\ account[u] = None
      BY <1>2, <1>3, <2>3 DEF Found, Deleting, Removing, Dropping
    <3>2. account'[u] = None /\ <<u, was.db>> \notin grants' /\ \A y \in Databases : <<u, y>> \notin grants'
      BY <1>2, <1>3, <1>9, <3>1
    <3>3. /\ call.at = "delete user row" /\ call.whole /\ call.user = u /\ call.id = was.id /\ call.db = was.db
          /\ call.rows = was.rows /\ call.row = was.row /\ (call.drops <=> was.drops)
      BY <1>3, <1>5 DEF Moved
    <3>4. Found(p, call)'
      BY <1>2, <3>1, <3>2, <3>3 DEF Found, Adding
    <3> QED  BY <3>3, <3>4 DEF Relied, Suits
  <2> QED  BY <1>6, <1>7, <2>1, <2>2, <2>3 DEF CallKept
<1>15. Clean(u)' => /\ p \notin overtaken /\ p \notin overtaken' /\ sqlCall'[p].at = "delete user row"
                    /\ sqlCall'[p].whole /\ sqlCall'[p].user = u
  BY <1>3, <1>5, <1>6, <1>7, <1>13 DEF Touched, Moved
<1>16. UserKept(u)'
  <2>1. UserKept(u)
    BY DEF SqlInv
  <2>2. Weak(u)' /\ leftover'[u] # {} => \E w \in sqlUser' : w.user = u
    BY <1>2, <1>7, <1>13, <2>1 DEF Touched, UserKept
  <2>3. Clean(u)' => \A v, w \in sqlUser' : v.user = u /\ w.user = u /\ v.db = w.db => v = w
    BY <1>2, <1>7, <1>13, <2>1 DEF Touched, UserKept
  <2>4. Clean(u)' => account'[u] = None
    BY <1>2, <1>3, <1>15 DEF Found
  <2>5. Clean(u)' => \E q \in Procs \ overtaken' : /\ sqlCall'[q].at \in Dropping /\ sqlCall'[q].whole
                                                  /\ sqlCall'[q].user = u
    BY <1>15 DEF Dropping
  <2> QED  BY <2>2, <2>3, <2>4, <2>5, NamesApart DEF UserKept
<1>17. DatabaseKept(x)'
  <2>1. PICK none : none = {}
    OBVIOUS
  <2>2. /\ x \in {u, x} /\ x \notin none /\ schema'[x] = schema[x] /\ sqlDatabase' = sqlDatabase
        /\ sqlCall[p].at \notin {"insert database", "undo database", "delete database row"}
    BY <1>1, <1>2, <2>1
  <2>3. Touched(p, {u, x}, none)
    BY <1>7, <2>1
  <2> QED  BY <2>2, <2>3, DatabaseUnmoved
<1>18. ASSUME NEW v \in SqlUsers, NEW y \in Databases  PROVE GrantKept(v, y)'
  <2>1. v \in Names /\ y \in Names /\ Marks(p, {u, x})
    BY <1>7 DEF Names, Touched
  <2>2. \A n \in Names : Clean(n)' => Clean(n)
    BY <1>7, <1>12, <2>1, WeakBefore DEF Touched
  <2>3. Grantee(v, y)' <=> Grantee(v, y)
    BY <1>2 DEF Grantee
  <2>4. sqlCall[p].at \notin {"insert user", "undo user", "undo grants", "delete user row"}
    BY <1>1, <1>2
  <2>5. <<v, y>> \in grants' => <<v, y>> \in grants
    BY <1>9
  <2>6. Clean(v)' /\ <<v, y>> \in grants => <<v, y>> \in grants' \/ RevokedBy(p, v, y)'
    BY <1>9, <1>15 DEF RevokedBy
  <2> QED  BY <1>12, <2>1, <2>2, <2>3, <2>4, <2>5, <2>6, GrantStays
<1>19. SqlUsers \cap {u, x} = {u} /\ Databases \cap {u, x} = {x}
  BY NamesApart
<1> QED  BY <1>7, <1>10, <1>11, <1>12, <1>14, <1>16, <1>17, <1>18, <1>19, StepKeeps DEF Touched

LEMMA RemoveUserRevokeKeeps ==
  ASSUME SqlInv, NEW p \in Procs, RemoveUserRevoke(p)
  PROVE  SqlInv'
<1>1. PICK was : was = sqlCall[p]
  OBVIOUS
<1>2. /\ SqlTypeOK /\ was \in Calls /\ ShapedCall(was) /\ KnownCall(was) /\ was.at = "revoke"
      /\ p \notin overtaken => Found(p, was)
      /\ UNCHANGED <<schema, account, password, sqlDatabase, sqlUser, nextId>>
      /\ Goto(p, "delete user row")
  BY <1>1, CallNow DEF RemoveUserRevoke, Revoke, At, tables
<1>3. PICK u \in SqlUsers, x \in Databases : /\ u = was.user /\ x = was.db /\ was.customer \in SqlCustomers
                                             /\ was.id \in RowIds /\ was.row \in RowIds /\ ~was.whole
  BY <1>2 DEF ShapedCall, Removing, Deleting, Dropping
<1>4. Touch(p, {u, x}, {}) /\ grants' = grants \ {<<u, x>>}
  BY <1>1, <1>3 DEF RemoveUserRevoke, Revoke
<1>5. PICK call \in Calls : sqlCall' = [sqlCall EXCEPT ![p] = call] /\ Moved(call, was, "delete user row")
  BY <1>1, <1>2, GotoChange DEF Points
<1>6. /\ sqlCall' \in [Procs -> Calls] /\ sqlCall'[p] = call
      /\ \A q \in Procs \ {p} : sqlCall'[q] = sqlCall[q]
  BY <1>2, <1>5, CallChange
<1>7. Touched(p, {u, x}, {}) /\ (p \in overtaken => p \in overtaken')
  <2>1. \A n \in Names : ~HalfDone(p, n)
    BY <1>1, <1>2 DEF HalfDone, Half, Undoing, Dropping
  <2>2. sqlCall[p].at # "grant" /\ {} \subseteq {u, x}
    BY <1>1, <1>2
  <2>3. p \in overtaken => p \in overtaken'
    BY <1>2, <1>4, <1>5, <1>6 DEF Touch, Moved
  <2> QED  BY <1>4, <1>6, <2>1, <2>2, <2>3, TouchMarks
<1>8. /\ grants' \subseteq grants /\ grants \subseteq SqlUsers \X Databases
      /\ \A v \in SqlUsers, y \in Databases : <<v, y>> \in grants' <=> <<v, y>> \in grants /\ <<v, y>> # <<u, x>>
      /\ callsLeft' = callsLeft
  BY <1>2, <1>4 DEF SqlTypeOK, Goto
<1>9. SqlTypeOK'
  BY <1>2, <1>6, <1>7, <1>8, CallsLeftStay DEF SqlTypeOK, Names, Touched
<1>10. Numbered'
  BY <1>2 DEF SqlInv, Numbered
<1>11. Disturbs(p, {u, x})
  <2>1. nextId'["database"] >= nextId["database"] /\ nextId'["user"] >= nextId["user"]
    BY <1>2, NextIdStays
  <2> QED  BY <1>2, <1>6, <1>7, <1>8, <2>1 DEF Disturbs, Touched
<1>12. u \in Names \cap {u, x} /\ x \in Names \cap {u, x}
  BY DEF Names
<1>13. CallKept(p)'
  <2>1. ShapedCall(call)
    BY <1>2, <1>3, <1>5 DEF ShapedCall, Moved, Making, Deleting, Removing, Adding, Dropping
  <2>2. KnownCall(call)'
    BY <1>2, <1>3, <1>5 DEF KnownCall, Moved, Deleting, Removing, Dropping
  <2>3. ASSUME p \notin overtaken  PROVE Relied(p, call)'
    <3>1. /\ \E r \in sqlDatabase : r.id = was.id
          /\ was.rows \subseteq sqlUser
          /\ was.drops => \A w \in sqlUser : w.db = was.id => w \in was.rows
          /\ \E v \in sqlUser : v.user = u /\ v.id # was.row
      BY <1>2, <1>3, <2>3 DEF Found, Deleting, Removing, Dropping
    <3>2. <<u, x>> \notin grants'
      BY <1>8
    <3>3. /\ call.at = "delete user row" /\ ~call.whole /\ call.user = u /\ call.id = was.id /\ call.db = x
          /\ call.rows = was.rows /\ call.row = was.row /\ (call.drops <=> was.drops)
      BY <1>3, <1>5 DEF Moved
    <3>4. Found(p, call)'
      BY <1>2, <3>1, <3>2, <3>3 DEF Found, Adding
    <3> QED  BY <3>3, <3>4 DEF Relied, Suits
  <2> QED  BY <1>6, <1>7, <2>1, <2>2, <2>3 DEF CallKept
<1>14. DatabaseKept(x)'
  <2>1. PICK none : none = {}
    OBVIOUS
  <2>2. /\ x \in {u, x} /\ x \notin none /\ schema'[x] = schema[x] /\ sqlDatabase' = sqlDatabase
        /\ sqlCall[p].at \notin {"insert database", "undo database", "delete database row"}
    BY <1>1, <1>2, <2>1
  <2>3. Touched(p, {u, x}, none)
    BY <1>7, <2>1
  <2> QED  BY <2>2, <2>3, DatabaseUnmoved
<1>15. UserKept(u)'
  <2>1. /\ u \in {u, x} /\ account'[u] = account[u] /\ password'[u] = password[u]
        /\ sqlDatabase' = sqlDatabase /\ sqlUser' = sqlUser /\ sqlCall[p].at \notin Dropping
    BY <1>1, <1>2 DEF Dropping
  <2>2. UserKept(u)
    BY DEF SqlInv
  <2>3. account[u] = p /\ Clean(u) => FALSE
    BY <1>1, <1>2, <2>2 DEF UserKept
  <2> QED  BY <1>6, <1>7, <2>1, <2>3, UserUnmoved
<1>16. ASSUME NEW v \in SqlUsers, NEW y \in Databases  PROVE GrantKept(v, y)'
  <2>1. v \in Names /\ y \in Names /\ Marks(p, {u, x})
    BY <1>7 DEF Names, Touched
  <2>2. \A n \in Names : Clean(n)' => Clean(n)
    BY <1>7, <1>11, <2>1, WeakBefore DEF Touched
  <2>3. Grantee(v, y)' <=> Grantee(v, y)
    BY <1>2 DEF Grantee
  <2>4. sqlCall[p].at \notin {"insert user", "undo user", "undo grants", "delete user row"}
    BY <1>1, <1>2
  <2>5. <<v, y>> \in grants' => <<v, y>> \in grants
    BY <1>8
  <2>6. Clean(u)' => RevokedBy(p, u, x)'
    BY <1>3, <1>5, <1>6, <1>7, <1>12 DEF Touched, Moved, RevokedBy
  <2>7. Clean(v)' /\ <<v, y>> \in grants => <<v, y>> \in grants' \/ RevokedBy(p, v, y)'
    <3>1. CASE v = u /\ y = x
      BY <2>6, <3>1
    <3>2. CASE <<v, y>> # <<u, x>>
      BY <1>8, <3>2
    <3> QED  BY <3>1, <3>2
  <2> QED  BY <1>11, <2>1, <2>2, <2>3, <2>4, <2>5, <2>7, GrantStays
<1>17. SqlUsers \cap {u, x} = {u} /\ Databases \cap {u, x} = {x}
  BY NamesApart
<1> QED  BY <1>7, <1>9, <1>10, <1>11, <1>13, <1>14, <1>15, <1>16, <1>17, StepKeeps DEF Touched

LEMMA SetPasswordStatementKeeps ==
  ASSUME SqlInv, NEW p \in Procs, SetPasswordStatement(p)
  PROVE  SqlInv'
<1>1. PICK was : was = sqlCall[p]
  OBVIOUS
<1>2. /\ SqlTypeOK /\ was \in Calls /\ ShapedCall(was) /\ was.at = "set password"
      /\ p \notin overtaken => Suits(was)
      /\ UNCHANGED <<schema, account, grants, sqlDatabase, sqlUser, nextId>>
      /\ End(p)
  BY <1>1, CallNow DEF SetPasswordStatement, At, tables
<1>3. PICK u \in SqlUsers, c \in SqlCustomers : u = was.user /\ c = was.customer /\ ~was.whole
  BY <1>2 DEF ShapedCall
<1>4. /\ Touch(p, {u}, {})
      /\ password' = IF account[u] = None THEN password ELSE [password EXCEPT ![u] = c]
  BY <1>1, <1>3 DEF SetPasswordStatement
<1>5. /\ sqlCall' \in [Procs -> Calls] /\ callsLeft' \in 0..MaxCalls /\ CallKept(p)'
      /\ \A q \in Procs \ {p} : sqlCall'[q] = sqlCall[q]
  BY <1>2, EndChange
<1>6. Touched(p, {u}, {})
  <2>1. \A n \in Names : ~HalfDone(p, n)
    BY <1>1, <1>2 DEF HalfDone, Half, Undoing, Dropping
  <2>2. sqlCall[p].at # "grant" /\ {} \subseteq {u}
    BY <1>1, <1>2
  <2> QED  BY <1>4, <1>5, <2>1, <2>2, TouchMarks
<1>7. /\ password' \in [SqlUsers -> SqlCustomers \cup {None}]
      /\ \A v \in SqlUsers \ {u} : password'[v] = password[v]
      /\ account[u] # None => password'[u] = c
  BY <1>2, <1>4 DEF SqlTypeOK
<1>8. SqlTypeOK'
  BY <1>2, <1>5, <1>6, <1>7 DEF SqlTypeOK, Names, Touched
<1>9. Numbered'
  BY <1>2 DEF SqlInv, Numbered
<1>10. Disturbs(p, {u})
  <2>1. nextId'["database"] >= nextId["database"] /\ nextId'["user"] >= nextId["user"]
    BY <1>2, NextIdStays
  <2> QED  BY <1>2, <1>5, <1>6, <1>7, <2>1 DEF Disturbs, Touched
<1>11. u \in Names \cap {u}
  BY DEF Names
<1>12. UserKept(u)'
  <2>1. UserKept(u)
    BY DEF SqlInv
  <2>2. Weak(u)' /\ leftover'[u] # {} => \E w \in sqlUser' : w.user = u
    BY <1>2, <1>6, <1>11, <2>1 DEF Touched, UserKept
  <2>3. ASSUME Clean(u)'
        PROVE  /\ Clean(u) /\ account[u] \in {None, c}
               /\ account[u] = None => \A w \in sqlUser : w.user # u
    <3>1. Clean(u) /\ p \notin overtaken
      BY <1>6, <1>11, <2>3 DEF Touched
    <3>2. account[u] \in {None, c}
      BY <1>2, <1>3, <3>1 DEF Suits
    <3>3. u \in {u} /\ sqlCall[p].at \notin Dropping
      BY <1>1, <1>2 DEF Dropping
    <3>4. account[u] = None => \A w \in sqlUser : w.user # u
      BY <1>6, <2>3, <3>3, NoRowsLeft
    <3> QED  BY <3>1, <3>2, <3>4
  <2> QED  BY <1>2, <1>7, <2>1, <2>2, <2>3, NamesApart DEF UserKept
<1>13. ASSUME NEW v \in SqlUsers, NEW y \in Databases  PROVE GrantKept(v, y)'
  <2>1. sqlCall[p].at \notin {"insert user", "undo user", "undo grants", "delete user row"}
    BY <1>1, <1>2
  <2> QED  BY <1>2, <1>6, <1>10, <2>1, GrantsUnmoved
<1>14. SqlUsers \cap {u} = {u} /\ Databases \cap {u} = {}
  BY NamesApart
<1> QED  BY <1>5, <1>6, <1>8, <1>9, <1>10, <1>12, <1>13, <1>14, StepKeeps DEF Touched

LEMMA InterruptedKeeps ==
  ASSUME SqlInv, NEW p \in Procs, Interrupted(p)
  PROVE  SqlInv'
<1>1. PICK was : was = sqlCall[p]
  OBVIOUS
<1>2. /\ SqlTypeOK /\ was \in Calls /\ ShapedCall(was) /\ KnownCall(was) /\ was.at # "idle"
      /\ p \notin overtaken => Found(p, was)
      /\ UNCHANGED <<password, grants, sqlDatabase, sqlUser, nextId>>
      /\ \A n : HalfDone(p, n) <=> was.at \in Half /\ n \in {was.db, was.user}
      /\ End(p) /\ overtaken' = overtaken \ {p}
      /\ schema' = [x \in Databases |-> IF schema[x] = p THEN Nobody ELSE schema[x]]
      /\ account' = [u \in SqlUsers |-> IF account[u] = p THEN Nobody ELSE account[u]]
  BY <1>1, CallNow DEF Interrupted, tables
<1>3. leftover' = [n \in DOMAIN leftover |->
                     leftover[n] \cup {l \in Leavings :
                                          \/ l = "create" /\ n \in HalfMade(was)
                                          \/ l = "delete" /\ n \in HalfGone(was)
                                          \/ l = "overlap" /\ p \in overtaken /\ n \in Concerns(was)}]
  BY <1>1 DEF Interrupted
<1>4. /\ leftover \in [Names -> SUBSET Leavings] /\ leftover' \in [Names -> SUBSET Leavings]
      /\ overtaken \subseteq Procs /\ overtaken' \subseteq Procs
      /\ schema' \in [Databases -> Owners] /\ account' \in [SqlUsers -> Owners]
  BY <1>2, <1>3 DEF SqlTypeOK, Names, Owners
<1>5. \A n \in Names :
         /\ leftover[n] \subseteq leftover'[n]
         /\ \A l \in leftover'[n] \ leftover[n] :
               \/ l = "create"
               \/ l = "delete" /\ n \in HalfGone(was)
               \/ l = "overlap" /\ p \in overtaken
         /\ n \in HalfMade(was) => "create" \in leftover'[n]
         /\ n \in HalfGone(was) => "delete" \in leftover'[n]
         /\ p \in overtaken /\ n \in Concerns(was) => "overlap" \in leftover'[n]
  BY <1>3, <1>4 DEF Leavings
<1>6. /\ sqlCall' \in [Procs -> Calls] /\ callsLeft' \in 0..MaxCalls /\ CallKept(p)'
      /\ \A q \in Procs \ {p} : sqlCall'[q] = sqlCall[q]
  BY <1>2, EndChange
<1>7. SqlTypeOK'
  BY <1>2, <1>4, <1>6 DEF SqlTypeOK, Names
<1>8. Numbered'
  BY <1>2 DEF SqlInv, Numbered
<1>9. Disturbs(p, {})
  <2>1. nextId'["database"] >= nextId["database"] /\ nextId'["user"] >= nextId["user"]
    BY <1>2, NextIdStays
  <2> QED  BY <1>2, <1>6, <2>1 DEF Disturbs
(* What it was half done with is marked; and where only a deletion is, it  *)
(* has left the row.                                                       *)
<1>10. Marks(p, {})
  <2>1. was.at \in Making \cup {"delete database row"} => was.user = None
    BY <1>2 DEF ShapedCall
  <2>2. ASSUME NEW n \in Names, was.at \in Half, n \in {was.db, was.user}
        PROVE  /\ n \in HalfMade(was) \cup HalfGone(was) /\ n \in Concerns(was)
               /\ was.at \in Undoing => n \in HalfMade(was)
    <3>1. n # None
      BY <2>2, NamesApart
    <3>2. n \in Concerns(was)
      BY <2>2, <3>1 DEF Concerns
    <3>3. n \in HalfMade(was) \cup HalfGone(was) /\ (was.at \in Undoing => n \in HalfMade(was))
      BY <2>1, <2>2, <3>1 DEF Half, Undoing, Making, HalfMade, HalfGone, Dropping
    <3> QED  BY <3>2, <3>3
  <2>3. HalfGone(was) # {} => was.at \in Dropping \cup {"delete database row"} /\ was.at \in Half \cap Deleting
    BY DEF HalfGone, Half, Deleting, Removing, Dropping
  <2>4. HalfGone(was) \subseteq {was.db, was.user}
    BY DEF HalfGone
  <2>5. ASSUME NEW n \in Names, leftover'[n] # leftover[n], leftover'[n] \subseteq {"delete"}
        PROVE  p \notin overtaken /\ n \in HalfGone(was)
    <3>1. n \in HalfGone(was)
      BY <1>5, <2>5
    <3>2. n \in Concerns(was)
      BY <2>2, <2>3, <2>4, <3>1
    <3> QED  BY <1>5, <2>5, <3>1, <3>2
  <2>6. ASSUME NEW x \in Databases, leftover'[x] # leftover[x], leftover'[x] \subseteq {"delete"}
        PROVE  p \notin overtaken /\ \E r \in sqlDatabase : r.name = x
    <3>1. p \notin overtaken /\ x \in HalfGone(was)
      BY <2>5, <2>6 DEF Names
    <3>2. was.at \in Deleting /\ (was.user = None \/ was.user \in SqlUsers)
      BY <1>2, <2>1, <2>3, <3>1 DEF ShapedCall, Removing, Dropping
    <3>3. x = was.db
      BY <2>4, <3>1, <3>2, NamesApart DEF Names
    <3>4. PICK r \in sqlDatabase : r.id = was.id
      BY <1>2, <3>1, <3>2 DEF Found
    <3> QED  BY <1>2, <3>1, <3>2, <3>3, <3>4 DEF KnownCall
  <2>7. ASSUME NEW u \in SqlUsers, leftover'[u] # leftover[u], leftover'[u] \subseteq {"delete"}
        PROVE  p \notin overtaken /\ \E w \in sqlUser : w.user = u
    <3>1. p \notin overtaken /\ u \in HalfGone(was)
      BY <2>5, <2>7 DEF Names
    <3>2. was.db \in Databases
      BY <1>2, <2>3, <3>1 DEF ShapedCall
    <3>3. u = was.user /\ was.at \in Dropping
      BY <2>1, <2>3, <2>4, <3>1, <3>2, NamesApart DEF Names
    <3>4. PICK w \in was.rows : w.user = u
      BY <1>2, <3>3 DEF ShapedCall, Removing, Dropping
    <3>5. w \in sqlUser
      BY <1>2, <3>1, <3>4 DEF Found
    <3> QED  BY <3>1, <3>4, <3>5
  <2>8. ASSUME NEW x \in Databases, schema[x] = p, Clean(x)  PROVE leftover'[x] # {}
    <3>1. DatabaseKept(x) /\ x \in Names
      BY DEF SqlInv, Names
    <3>2. was.at \in {"insert database", "undo database"} /\ was.db = x
      BY <1>1, <2>8, <3>1 DEF DatabaseKept
    <3>3. x \in HalfMade(was)
      BY <3>2 DEF HalfMade
    <3> QED  BY <1>5, <3>1, <3>3
  <2>9. ASSUME NEW u \in SqlUsers, account[u] = p, Clean(u)  PROVE leftover'[u] # {}
    <3>1. UserKept(u) /\ u \in Names
      BY DEF SqlInv, Names
    <3>2. was.at \in {"grant", "insert user", "undo user"} /\ was.whole /\ was.user = u
      BY <1>1, <2>9, <3>1 DEF UserKept
    <3>3. u \in HalfMade(was)
      BY <3>2 DEF HalfMade
    <3> QED  BY <1>5, <3>1, <3>3
  <2>10. \A n \in Names :
            /\ leftover[n] \subseteq leftover'[n]
            /\ p \in overtaken /\ HalfDone(p, n) => "overlap" \in leftover'[n]
            /\ HalfDone(p, n) => leftover'[n] # {}
            /\ HalfDone(p, n) /\ sqlCall[p].at \in Undoing => "create" \in leftover'[n]
    BY <1>1, <1>2, <1>5, <2>2
  <2> QED  BY <2>6, <2>7, <2>8, <2>9, <2>10 DEF Marks
<1>11. ASSUME NEW v \in SqlUsers, NEW y \in Databases  PROVE GrantKept(v, y)'
  <2>1. v \in Names /\ y \in Names
    BY DEF Names
  <2>2. (Clean(v)' => Clean(v)) /\ (Clean(y)' => Clean(y))
    BY <1>9, <1>10, <2>1, WeakBefore
  <2>3. Grantee(v, y)' <=> Grantee(v, y)
    BY <1>2 DEF Grantee
  <2>4. <<v, y>> \in grants' <=> <<v, y>> \in grants
    BY <1>2
  <2>5. v \notin {}
    OBVIOUS
  <2> QED  BY <1>9, <1>10, <2>2, <2>3, <2>4, <2>5, GrantStays
<1> QED  BY <1>6, <1>7, <1>8, <1>9, <1>10, <1>11, StepKeeps
LEMMA RemoveUserRowKeeps ==
  ASSUME SqlInv, NEW p \in Procs, RemoveUserRow(p)
  PROVE  SqlInv'
<1>1. PICK was : was = sqlCall[p]
  OBVIOUS
<1>2. /\ SqlTypeOK /\ was \in Calls /\ ShapedCall(was) /\ KnownCall(was) /\ was.at = "delete user row"
      /\ p \notin overtaken => Found(p, was)
      /\ UNCHANGED <<schema, account, password, grants, sqlDatabase, nextId, callsLeft>>
      /\ \A n : HalfDone(p, n) <=> was.at \in Half /\ n \in {was.db, was.user}
      /\ sqlUser' = {w \in sqlUser : w.id # was.row}
  BY <1>1, CallNow DEF RemoveUserRow, At, server
<1>3. PICK u \in SqlUsers, x \in Databases, i \in RowIds, c \in SqlCustomers :
         u = was.user /\ x = was.db /\ i = was.id /\ c = was.customer
  BY <1>2 DEF ShapedCall, Removing, Deleting, Dropping
<1>4. PICK gone \in was.rows : gone.id = was.row /\ gone.user = u
  BY <1>2, <1>3 DEF ShapedCall, Removing, Dropping
<1>5. /\ gone \in UserRows /\ gone.db = i /\ \A v \in sqlUser : v.id = was.row => v = gone
      /\ i < nextId["database"] /\ \A r \in sqlDatabase : r.id = i => r.name = x /\ r.customer = c
  BY <1>2, <1>3, <1>4 DEF KnownCall, Calls, Deleting, Removing, Dropping
<1>6. PICK healed : /\ healed = IF was.whole THEN {u} ELSE {}
                    /\ Touch(p, {u, x}, healed) /\ healed \subseteq {u, x}
  BY <1>1, <1>3 DEF RemoveUserRow
<1>7. PICK rest : rest = {w \in was.rows : w.id # was.row}
  OBVIOUS
<1>8. PICK call \in Calls :
         /\ sqlCall' = [sqlCall EXCEPT ![p] = call]
         /\ \/ call = Idle
            \/ /\ call.at = IF rest = {} THEN "drop database" ELSE "count"
               /\ call.customer = c /\ call.id = i /\ call.db = x /\ call.user = None /\ call.rows = rest
               /\ call.drops <=> was.drops
               /\ rest = {} => was.drops
  <2> DEFINE next == [was EXCEPT !.at = IF rest = {} THEN "drop database" ELSE "count",
                                 !.rows = rest, !.user = None, !.row = None, !.whole = FALSE]
  <2>1. sqlCall' = [sqlCall EXCEPT ![p] = IF rest = {} /\ ~was.drops THEN Idle ELSE next]
    BY <1>1, <1>7 DEF RemoveUserRow
  <2>2. CASE rest = {} /\ ~was.drops
    BY <2>1, <2>2, IdleIsCall
  <2>3. CASE ~(rest = {} /\ ~was.drops)
    <3>1. rest \subseteq UserRows
      BY <1>2, <1>7 DEF Calls
    <3>2. next \in Calls
      BY <1>2, <3>1 DEF Calls, Points
    <3>3. /\ next.at = (IF rest = {} THEN "drop database" ELSE "count")
          /\ next.customer = c /\ next.id = i /\ next.db = x /\ next.user = None /\ next.rows = rest
      BY <1>2, <1>3 DEF Calls
    <3>4. next.drops = was.drops
      BY <1>2 DEF Calls
    <3>5. sqlCall' = [sqlCall EXCEPT ![p] = next]
      BY <2>1, <2>3
    <3> HIDE DEF next
    <3> QED  BY <2>3, <3>2, <3>3, <3>4, <3>5
  <2> QED  BY <2>2, <2>3
<1>9. /\ sqlCall' \in [Procs -> Calls] /\ sqlCall'[p] = call
      /\ \A q \in Procs \ {p} : sqlCall'[q] = sqlCall[q]
  BY <1>2, <1>8, CallChange
<1>10. Touched(p, {u, x}, healed)
  <2>1. \A n \in Names : HalfDone(p, n) => n \in {u, x}
    BY <1>2, <1>3
  <2>2. sqlCall[p].at # "grant"
    BY <1>1, <1>2
  <2> QED  BY <1>6, <1>9, <2>1, <2>2, TouchMarks
<1>11. SqlTypeOK'
  BY <1>2, <1>9, <1>10, CallsLeftStay DEF SqlTypeOK, Names, Touched
<1>12. Numbered'
  BY <1>2, FS_Subset DEF SqlInv, Numbered
<1>13. Disturbs(p, {u, x})
  <2>1. nextId'["database"] >= nextId["database"] /\ nextId'["user"] >= nextId["user"]
    BY <1>2, NextIdStays
  <2>2. \A w \in UserRows : w.user \notin {u, x} => (w \in sqlUser' <=> w \in sqlUser)
    BY <1>2, <1>4, <1>5
  <2>3. sqlUser' \subseteq sqlUser
    BY <1>2
  <2> QED  BY <1>2, <1>9, <1>10, <2>1, <2>2, <2>3 DEF Disturbs, Touched
<1>14. u \in Names \cap {u, x} /\ x \in Names \cap {u, x} /\ u # x
  BY NamesApart DEF Names
(* What one that nobody has overtaken knows of the row that goes.          *)
<1>15. ASSUME p \notin overtaken
       PROVE  /\ \E r \in sqlDatabase : r.id = i
              /\ was.rows \subseteq sqlUser /\ gone \in sqlUser
              /\ was.drops => \A w \in sqlUser : w.db = i => w \in was.rows
              /\ <<u, x>> \notin grants
              /\ was.whole => /\ \A v \in sqlUser' : v.user # u
                              /\ account[u] = None /\ \A y \in Databases : <<u, y>> \notin grants
              /\ ~was.whole => \E v \in sqlUser' : v.user = u
  <2>1. Found(p, was) /\ was.at \in Deleting /\ was.at \in Removing
    BY <1>2, <1>15 DEF Deleting, Removing, Dropping
  <2>2. /\ \E r \in sqlDatabase : r.id = i
        /\ was.rows \subseteq sqlUser /\ gone \in sqlUser
        /\ was.drops => \A w \in sqlUser : w.db = i => w \in was.rows
    BY <1>3, <1>4, <2>1 DEF Found
  <2>3. /\ <<u, x>> \notin grants
        /\ was.whole => account[u] = None /\ \A y \in Databases : <<u, y>> \notin grants
    BY <1>2, <1>3, <2>1 DEF Found
  <2>4. /\ was.whole => \A v \in sqlUser : v.user = u => v.id = was.row
        /\ ~was.whole => \E v \in sqlUser : v.user = u /\ v.id # was.row
    BY <1>3, <2>1 DEF Found
  <2>5. was.whole => \A v \in sqlUser' : v.user # u
    BY <1>2, <2>4
  <2>6. ~was.whole => \E v \in sqlUser' : v.user = u
    BY <1>2, <2>4
  <2> QED  BY <2>2, <2>3, <2>5, <2>6
<1>16. CallKept(p)'
  <2>1. CASE call = Idle
    <3>1. call.at = "idle" /\ call.rows = {} /\ ~call.drops
      BY <2>1 DEF Idle
    <3>2. ShapedCall(call) /\ KnownCall(call)' /\ Relied(p, call)'
      BY <2>1, <3>1 DEF ShapedCall, KnownCall, Relied, Found, Suits, Making, Deleting, Removing, Adding, Dropping
    <3> QED  BY <1>9, <3>2 DEF CallKept
  <2>2. CASE /\ call.at = IF rest = {} THEN "drop database" ELSE "count"
             /\ call.customer = c /\ call.id = i /\ call.db = x /\ call.user = None /\ call.rows = rest
             /\ call.drops <=> was.drops
             /\ rest = {} => was.drops
    <3>1. /\ \A v, w \in rest : v.id = w.id => v = w
          /\ \A w \in rest : w \in was.rows /\ w.id # was.row
          /\ \A w \in was.rows : w.id # was.row => w \in rest
      BY <1>2, <1>7 DEF ShapedCall
    <3>2. call.at \in {"drop database", "count"} /\ (call.at = "drop database" => rest = {})
      BY <2>2
    <3>3. ShapedCall(call)
      BY <2>2, <3>1, <3>2 DEF ShapedCall, Making, Deleting, Removing, Adding, Dropping
    <3>4. KnownCall(call)'
      <4>1. \A w \in was.rows : /\ w.db = i /\ w.id < nextId["user"]
                                /\ \A v \in sqlUser : v.id = w.id => v = w
        BY <1>2, <1>3 DEF KnownCall
      <4>2. sqlUser' \subseteq sqlUser
        BY <1>2
      <4> QED  BY <1>2, <1>5, <2>2, <3>1, <4>1, <4>2 DEF KnownCall
    <3>5. ASSUME p \notin overtaken  PROVE Found(p, call)'
      <4>1. \E r \in sqlDatabase' : r.id = i
        BY <1>2, <1>15, <3>5
      <4>2. rest \subseteq sqlUser'
        BY <1>2, <1>15, <3>1, <3>5
      <4>3. was.drops => \A w \in sqlUser' : w.db = i => w \in rest
        BY <1>2, <1>15, <3>1, <3>5
      <4> QED  BY <2>2, <3>2, <4>1, <4>2, <4>3 DEF Found, Removing, Adding, Dropping
    <3>6. Suits(call)'
      BY <3>2 DEF Suits
    <3>7. p \notin overtaken' => p \notin overtaken
      <4>1. call.at # "idle"
        BY <3>2
      <4> QED  BY <1>6, <1>9, <4>1 DEF Touch
    <3> QED  BY <1>9, <3>3, <3>4, <3>5, <3>6, <3>7 DEF CallKept, Relied
  <2> QED  BY <1>8, <2>1, <2>2
<1>17. DatabaseKept(x)'
  <2>1. /\ x \in {u, x} /\ x \notin healed /\ schema'[x] = schema[x] /\ sqlDatabase' = sqlDatabase
        /\ sqlCall[p].at \notin {"insert database", "undo database", "delete database row"}
    BY <1>1, <1>2, <1>6, <1>14
  <2> QED  BY <1>10, <2>1, DatabaseUnmoved
<1>18. Weak(u)' => /\ p \notin overtaken /\ \A q \in Procs \ {p} : ~HalfDone(q, u)
                   /\ ~was.whole /\ Clean(u)' => Clean(u)
                   /\ was.whole => leftover'[u] = {}
  BY <1>6, <1>10, <1>14 DEF Touched
<1>19. Clean(u)' => Weak(u)'
  BY <1>10, <1>14 DEF Touched
<1>20. UserKept(u)'
  <2>1. UserKept(u)
    BY DEF SqlInv
  <2>2. CASE was.whole
    BY <1>2, <1>15, <1>18, <1>19, <2>2, NamesApart DEF UserKept
  <2>3. CASE ~was.whole
    <3>1. Weak(u)' => \E w \in sqlUser' : w.user = u
      BY <1>15, <1>18, <2>3
    <3>2. ASSUME Clean(u)'
          PROVE  /\ account[u] \in SqlCustomers /\ password[u] = account[u]
                 /\ \A w \in sqlUser, r \in sqlDatabase : w.user = u /\ r.id = w.db => r.customer = account[u]
                 /\ \A v, w \in sqlUser : v.user = u /\ w.user = u /\ v.db = w.db => v = w
      <4>1. Clean(u) /\ gone \in sqlUser /\ \A q \in Procs \ {p} : ~HalfDone(q, u)
        BY <1>15, <1>18, <1>19, <2>3, <3>2
      <4>2. account[u] # None
        <5> SUFFICES ASSUME account[u] = None  PROVE FALSE
          OBVIOUS
        <5>1. PICK q \in Procs : sqlCall[q].at \in Dropping /\ sqlCall[q].whole /\ sqlCall[q].user = u
          BY <1>4, <2>1, <4>1 DEF UserKept
        <5>2. q # p /\ HalfDone(q, u)
          BY <1>1, <2>3, <5>1 DEF HalfDone, Half, Dropping
        <5> QED  BY <4>1, <5>2
      <4>3. account[u] \notin Procs
        BY <1>4, <2>1, <4>1 DEF UserKept
      <4> QED  BY <2>1, <4>1, <4>2, <4>3 DEF UserKept
    <3>3. sqlUser' \subseteq sqlUser
      BY <1>2
    <3> QED  BY <1>2, <1>19, <3>1, <3>2, <3>3, NamesApart DEF UserKept
  <2> QED  BY <2>2, <2>3
<1>21. ASSUME NEW v \in SqlUsers, NEW y \in Databases  PROVE GrantKept(v, y)'
  <2>1. v \in Names /\ y \in Names /\ Marks(p, {u, x}) /\ GrantKept(v, y)
    BY <1>10 DEF Names, Touched, SqlInv
  <2>2. \A n \in Names : (n \notin healed /\ Clean(n)' => Clean(n)) /\ (Weak(n)' => Weak(n))
    BY <1>10, <1>13, <2>1, WeakBefore DEF Touched
  <2>3. y \notin healed /\ (v # u => v \notin healed)
    BY <1>6, NamesApart
  <2>4. Grantee(v, y)' => Grantee(v, y)
    BY <1>2 DEF Grantee
  <2>5. CASE v = u
    <3>1. ASSUME Weak(u)', NEW q \in Procs, GrantedBy(q, u, y)  PROVE FALSE
      <4>1. HalfDone(q, u) /\ q # p
        BY <1>1, <1>2, <3>1 DEF GrantedBy, HalfDone, Half, Undoing, Dropping
      <4> QED  BY <1>18, <3>1, <4>1
    <3>2. ASSUME Weak(u)', ~was.whole, NEW q \in Procs, RevokedBy(q, u, y)  PROVE y = x
      <4>1. HalfDone(q, u)
        BY <3>2 DEF RevokedBy, HalfDone, Half, Dropping
      <4>2. q = p
        BY <1>18, <3>2, <4>1
      <4> QED  BY <1>1, <1>3, <3>2, <4>2 DEF RevokedBy
    <3>3. ASSUME Weak(u)', Weak(y)', <<u, y>> \in grants'  PROVE Grantee(u, y)'
      <4>1. p \notin overtaken /\ <<u, y>> \in grants /\ y # x
        BY <1>2, <1>15, <1>18, <3>3
      <4>2. Grantee(u, y)
        BY <2>1, <2>2, <2>5, <3>1, <3>3, <4>1 DEF GrantKept
      <4>3. PICK r \in sqlDatabase, w \in sqlUser : r.name = y /\ w.db = r.id /\ w.user = u
        BY <4>2 DEF Grantee
      <4>4. w.id # was.row
        BY <1>5, <4>1, <4>3
      <4> QED  BY <1>2, <4>3, <4>4 DEF Grantee
    <3>4. ASSUME Clean(u)', Clean(y)', Grantee(u, y)'  PROVE <<u, y>> \in grants'
      <4>1. Weak(u)' /\ p \notin overtaken
        BY <1>18, <1>19, <3>4
      <4>2. PICK r \in sqlDatabase, w \in sqlUser' : r.name = y /\ w.db = r.id /\ w.user = u
        BY <1>2, <3>4 DEF Grantee
      <4>3. ~was.whole
        BY <1>15, <4>1, <4>2
      <4>4. Clean(u) /\ Clean(y)
        BY <1>18, <2>1, <2>2, <2>3, <3>4, <4>1, <4>3
      <4>5. w \in sqlUser /\ w.id # was.row
        BY <1>2, <4>2
      <4>6. ASSUME y = x  PROVE FALSE
        <5>1. PICK o \in sqlDatabase : o.id = i /\ o.name = x
          BY <1>5, <1>15, <4>1
        <5>2. DatabaseKept(x) /\ UserKept(u)
          BY DEF SqlInv
        <5>3. r = o
          BY <4>2, <4>4, <4>6, <5>1, <5>2 DEF DatabaseKept
        <5>4. w.db = gone.db /\ gone \in sqlUser
          BY <1>5, <1>15, <4>1, <4>2, <5>1, <5>3
        <5>5. w = gone
          BY <1>4, <4>2, <4>4, <4>5, <5>2, <5>4 DEF UserKept
        <5> QED  BY <1>4, <4>5, <5>5
      <4>7. Grantee(u, y)
        BY <2>4, <2>5, <3>4
      <4> QED  BY <1>2, <2>1, <2>5, <3>2, <4>1, <4>3, <4>4, <4>6, <4>7 DEF GrantKept
    <3> QED  BY <2>5, <3>3, <3>4 DEF GrantKept
  <2>6. CASE v # u
    <3>1. v \notin {u, x}
      BY <2>6, NamesApart
    <3>2. Grantee(v, y) => Grantee(v, y)'
      <4>1. \A w \in sqlUser : w.user = v => w \in sqlUser'
        BY <1>2, <1>4, <1>5, <2>6
      <4> QED  BY <1>2, <4>1 DEF Grantee
    <3>3. (Clean(v)' => Clean(v)) /\ (Clean(y)' => Clean(y))
      BY <2>1, <2>2, <2>3, <2>6
    <3>4. <<v, y>> \in grants' <=> <<v, y>> \in grants
      BY <1>2
    <3> QED  BY <1>13, <2>1, <2>4, <3>1, <3>2, <3>3, <3>4, GrantStays
  <2> QED  BY <2>5, <2>6
<1>22. SqlUsers \cap {u, x} = {u} /\ Databases \cap {u, x} = {x}
  BY NamesApart
<1> QED  BY <1>10, <1>11, <1>12, <1>13, <1>16, <1>17, <1>20, <1>21, <1>22, StepKeeps DEF Touched
---------------------------------------------------------------------------
(* The invariant holds.                                                    *)

(* Rows that carry distinct ids are no more than there are ids. *)
LEMMA FewRows ==
  ASSUME NEW S, \A s \in S : s.id \in RowIds, \A s, t \in S : s.id = t.id => s = t
  PROVE  IsFiniteSet(S) /\ Cardinality(S) \in 0..MaxRows
<1> DEFINE f == [s \in S |-> s.id]
<1>1. f \in Injection(S, RowIds)
  BY DEF Injection, IsInjective
<1>2. IsFiniteSet(RowIds) /\ Cardinality(RowIds) = MaxRows
  BY NamesApart, FS_Interval DEF RowIds
<1>3. IsFiniteSet(S) /\ Cardinality(S) <= Cardinality(RowIds)
  BY <1>1, <1>2, FS_Injection
<1>4. Cardinality(S) \in Nat
  BY <1>3, FS_CardinalityType
<1> QED  BY <1>2, <1>3, <1>4, NamesApart

LEMMA Initially == SqlInit => SqlInv
<1> SUFFICES ASSUME SqlInit  PROVE SqlInv
  OBVIOUS
<1>1. /\ sqlDatabase \subseteq DatabaseRows /\ sqlUser \subseteq UserRows
      /\ sqlCall = [p \in Procs |-> Idle] /\ overtaken = {} /\ callsLeft = MaxCalls
      /\ leftover = [n \in Databases \cup SqlUsers |-> {}]
      /\ password = account
  BY DEF SqlInit
<1>2. /\ \A r, o \in sqlDatabase : r.id = o.id \/ r.name = o.name => r = o
      /\ \A v, w \in sqlUser : v.id = w.id \/ (v.db = w.db /\ v.user = w.user) => v = w
      /\ \A w \in sqlUser : \E r \in sqlDatabase : r.id = w.db
      /\ \A v, w \in sqlUser, r, o \in sqlDatabase :
            v.user = w.user /\ v.db = r.id /\ w.db = o.id => r.customer = o.customer
  BY DEF SqlInit, Settled
<1>3. /\ IsFiniteSet(sqlDatabase) /\ Cardinality(sqlDatabase) \in 0..MaxRows
      /\ IsFiniteSet(sqlUser) /\ Cardinality(sqlUser) \in 0..MaxRows
  <2>1. (\A r \in sqlDatabase : r.id \in RowIds) /\ \A w \in sqlUser : w.id \in RowIds
    BY <1>1 DEF DatabaseRows, UserRows
  <2> QED  BY <1>2, <2>1, FewRows
<1>4. /\ nextId \in [{"database", "user"} -> 1..(MaxRows + 1)]
      /\ \A r \in sqlDatabase : r.id \in 1..(nextId["database"] - 1)
      /\ \A w \in sqlUser : w.id \in 1..(nextId["user"] - 1)
  <2>1. nextId = [t \in {"database", "user"} |->
                    1 + Cardinality(IF t = "database" THEN sqlDatabase ELSE sqlUser)]
    BY DEF SqlInit
  <2>2. 1 + Cardinality(sqlDatabase) \in 1..(MaxRows + 1) /\ 1 + Cardinality(sqlUser) \in 1..(MaxRows + 1)
    BY <1>3, NamesApart
  <2>3. \A t \in {"database", "user"} :
           1 + Cardinality(IF t = "database" THEN sqlDatabase ELSE sqlUser) \in 1..(MaxRows + 1)
    BY <2>2
  <2>4. /\ {r.id : r \in sqlDatabase} = 1..(nextId["database"] - 1)
        /\ {w.id : w \in sqlUser} = 1..(nextId["user"] - 1)
    BY DEF SqlInit
  <2> QED  BY <2>1, <2>3, <2>4
<1>5. ASSUME NEW x \in Databases
      PROVE  \/ schema[x] = None /\ \A r \in sqlDatabase : r.name # x
             \/ schema[x] \in SqlCustomers /\ \E r \in sqlDatabase : r.name = x /\ r.customer = schema[x]
  <2>1. schema[x] = IF \E r \in sqlDatabase : r.name = x
                    THEN CHOOSE c \in SqlCustomers : \E r \in sqlDatabase : r.name = x /\ r.customer = c ELSE None
    BY DEF SqlInit
  <2>2. CASE \E r \in sqlDatabase : r.name = x
    <3>1. \E c \in SqlCustomers : \E r \in sqlDatabase : r.name = x /\ r.customer = c
      BY <1>1, <2>2 DEF DatabaseRows
    <3>2. schema[x] = CHOOSE c \in SqlCustomers : \E r \in sqlDatabase : r.name = x /\ r.customer = c
      BY <2>1, <2>2
    <3> QED  BY <3>1, <3>2
  <2>3. CASE ~\E r \in sqlDatabase : r.name = x
    BY <2>1, <2>3
  <2> QED  BY <2>2, <2>3
<1>6. ASSUME NEW u \in SqlUsers
      PROVE  \/ account[u] = None /\ \A w \in sqlUser : w.user # u
             \/ /\ account[u] \in SqlCustomers
                /\ \E w \in sqlUser, r \in sqlDatabase : w.user = u /\ r.id = w.db /\ r.customer = account[u]
  <2>1. account[u] = IF \E w \in sqlUser : w.user = u
                     THEN CHOOSE c \in SqlCustomers :
                             \E w \in sqlUser, r \in sqlDatabase : w.user = u /\ r.id = w.db /\ r.customer = c
                     ELSE None
    BY DEF SqlInit
  <2>2. CASE \E w \in sqlUser : w.user = u
    <3>1. \E c \in SqlCustomers :
             \E w \in sqlUser, r \in sqlDatabase : w.user = u /\ r.id = w.db /\ r.customer = c
      BY <1>1, <1>2, <2>2 DEF DatabaseRows
    <3>2. account[u] = CHOOSE c \in SqlCustomers :
             \E w \in sqlUser, r \in sqlDatabase : w.user = u /\ r.id = w.db /\ r.customer = c
      BY <2>1, <2>2
    <3> QED  BY <3>1, <3>2
  <2>3. CASE ~\E w \in sqlUser : w.user = u
    BY <2>1, <2>3
  <2> QED  BY <2>2, <2>3
<1>7. \A u \in SqlUsers, x \in Databases : <<u, x>> \in grants <=> Grantee(u, x)
  <2>1. grants = {g \in SqlUsers \X Databases :
                    \E w \in sqlUser, r \in sqlDatabase : w.user = g[1] /\ r.id = w.db /\ r.name = g[2]}
    BY DEF SqlInit
  <2> QED  BY <2>1 DEF Grantee
<1>8. SqlTypeOK
  <2>1. schema \in [Databases -> Owners]
    <3>1. \A x \in Databases : schema[x] \in Owners
      BY <1>5 DEF Owners
    <3>2. schema = [x \in Databases |-> schema[x]]
      BY DEF SqlInit
    <3> QED  BY <3>1, <3>2
  <2>2. account \in [SqlUsers -> Owners] /\ password \in [SqlUsers -> SqlCustomers \cup {None}]
    <3>1. \A u \in SqlUsers : account[u] \in Owners /\ account[u] \in SqlCustomers \cup {None}
      BY <1>6 DEF Owners
    <3>2. account = [u \in SqlUsers |-> account[u]]
      BY DEF SqlInit
    <3>3. account \in [SqlUsers -> Owners] /\ account \in [SqlUsers -> SqlCustomers \cup {None}]
      BY <3>1, <3>2
    <3> QED  BY <1>1, <3>3
  <2>3. grants \subseteq SqlUsers \X Databases
    BY DEF SqlInit
  <2>4. sqlCall \in [Procs -> Calls] /\ overtaken \subseteq Procs /\ callsLeft \in 0..MaxCalls
    BY <1>1, IdleIsCall, SqlConfigured
  <2>5. leftover \in [Databases \cup SqlUsers -> SUBSET Leavings]
    BY <1>1
  <2> QED  BY <1>1, <1>4, <2>1, <2>2, <2>3, <2>4, <2>5 DEF SqlTypeOK
<1>9. Numbered
  <2>1. nextId["database"] \in Int /\ nextId["user"] \in Int
    BY <1>4, NamesApart
  <2>2. \A r \in sqlDatabase : r.id < nextId["database"]
    BY <1>4, <2>1
  <2>3. \A w \in sqlUser : w.id < nextId["user"]
    BY <1>4, <2>1
  <2>4. \A w \in sqlUser : w.db < nextId["database"]
    BY <1>2, <2>2
  <2> QED  BY <1>2, <1>3, <2>2, <2>3, <2>4 DEF Numbered
<1>10. \A p \in Procs : sqlCall[p] = Idle /\ p \notin overtaken
  BY <1>1
<1>11. ASSUME NEW p \in Procs  PROVE CallKept(p)
  <2>1. Idle.at = "idle" /\ Idle.rows = {} /\ ~Idle.drops
    BY DEF Idle
  <2>2. ShapedCall(Idle) /\ KnownCall(Idle) /\ Relied(p, Idle)
    BY <2>1 DEF ShapedCall, KnownCall, Relied, Found, Suits, Making, Deleting, Removing, Adding, Dropping
  <2> QED  BY <1>10, <2>2 DEF CallKept
<1>12. ASSUME NEW x \in Databases  PROVE DatabaseKept(x)
  <2>1. leftover[x] = {} /\ \A r, o \in sqlDatabase : r.name = x /\ o.name = x => r = o
    BY <1>1, <1>2
  <2>2. \/ schema[x] = None /\ \A r \in sqlDatabase : r.name # x
        \/ /\ schema[x] \in SqlCustomers /\ schema[x] # None /\ schema[x] \notin Procs
           /\ \E r \in sqlDatabase : r.name = x /\ r.customer = schema[x]
    BY <1>5, NamesApart
  <2> QED  BY <2>1, <2>2, NamesApart DEF DatabaseKept
<1>13. ASSUME NEW u \in SqlUsers  PROVE UserKept(u)
  <2>1. CASE account[u] = None /\ \A w \in sqlUser : w.user # u
    BY <1>1, <2>1, NamesApart DEF UserKept
  <2>2. CASE /\ account[u] \in SqlCustomers
             /\ \E w \in sqlUser, r \in sqlDatabase : w.user = u /\ r.id = w.db /\ r.customer = account[u]
    <3>1. \A w \in sqlUser, r \in sqlDatabase : w.user = u /\ r.id = w.db => r.customer = account[u]
      BY <1>2, <2>2
    <3>2. \A v, w \in sqlUser : v.user = u /\ w.user = u /\ v.db = w.db => v = w
      BY <1>2
    <3> QED  BY <1>1, <2>2, <3>1, <3>2, NamesApart DEF UserKept
  <2> QED  BY <1>6, <2>1, <2>2
<1>14. \A u \in SqlUsers, x \in Databases : GrantKept(u, x)
  BY <1>7 DEF GrantKept
<1> QED  BY <1>8, <1>9, <1>11, <1>12, <1>13, <1>14 DEF SqlInv

LEMMA StepsKeep ==
  ASSUME SqlInv, NEW p \in Procs, SqlStep(p)
  PROVE  SqlInv'
BY CreateDatabaseCheckKeeps, CreateDatabaseStatementKeeps, CreateDatabaseRowKeeps, RowFailsKeeps,
   CreateDatabaseUndoKeeps, DeleteDatabaseCheckKeeps, DeleteUserCheckKeeps, RemoveUserCountKeeps,
   RemoveUserDropKeeps, RemoveUserDropGrantsKeeps, RemoveUserRevokeKeeps, RemoveUserRowKeeps, DeleteDatabaseDropKeeps,
   DeleteDatabaseRowKeeps, CreateUserCheckKeeps, GrantCheckKeeps, CreateUserStatementKeeps,
   GrantStatementKeeps, CreateUserRowKeeps, CreateUserUndoKeeps, CreateUserUndoGrantsKeeps, SetPasswordCheckKeeps,
   SetPasswordStatementKeeps, InterruptedKeeps
   DEF SqlStep

LEMMA StutterKeeps ==
  ASSUME SqlInv, UNCHANGED sqlVars
  PROVE  SqlInv'
<1>1. /\ schema' = schema /\ account' = account /\ password' = password /\ grants' = grants
      /\ sqlDatabase' = sqlDatabase /\ sqlUser' = sqlUser /\ nextId' = nextId /\ sqlCall' = sqlCall
      /\ overtaken' = overtaken /\ leftover' = leftover /\ callsLeft' = callsLeft
  BY DEF sqlVars
<1>2. SqlTypeOK' /\ Numbered'
  BY <1>1 DEF SqlInv, SqlTypeOK, Numbered
<1>3. \A n : (Weak(n)' <=> Weak(n)) /\ (Clean(n)' <=> Clean(n))
  BY <1>1 DEF Weak, Clean, Spoilt, HalfDone
<1>4. ASSUME NEW p \in Procs  PROVE CallKept(p)'
  <2>1. PICK call : call = sqlCall[p]
    OBVIOUS
  <2>2. ShapedCall(call) /\ KnownCall(call) /\ (p \notin overtaken => Found(p, call) /\ Suits(call))
    BY <2>1, CallNow
  <2>3. KnownCall(call)'
    BY <1>1, <2>2 DEF KnownCall
  <2>4. Found(p, call) => Found(p, call)'
    BY <1>1 DEF Found
  <2>5. Suits(call) => Suits(call)'
    BY <1>1, <1>3 DEF Suits
  <2> QED  BY <1>1, <2>1, <2>2, <2>3, <2>4, <2>5 DEF CallKept, Relied
<1>5. ASSUME NEW x \in Databases  PROVE DatabaseKept(x)'
  <2>1. DatabaseKept(x)
    BY DEF SqlInv
  <2> QED  BY <1>1, <1>3, <2>1 DEF DatabaseKept
<1>6. ASSUME NEW u \in SqlUsers  PROVE UserKept(u)'
  <2>1. UserKept(u)
    BY DEF SqlInv
  <2> QED  BY <1>1, <1>3, <2>1 DEF UserKept
<1>7. ASSUME NEW u \in SqlUsers, NEW x \in Databases  PROVE GrantKept(u, x)'
  <2>1. GrantKept(u, x)
    BY DEF SqlInv
  <2>2. Grantee(u, x)' <=> Grantee(u, x)
    BY <1>1 DEF Grantee
  <2>3. \A q : (GrantedBy(q, u, x)' <=> GrantedBy(q, u, x)) /\ (RevokedBy(q, u, x)' <=> RevokedBy(q, u, x))
    BY <1>1 DEF GrantedBy, RevokedBy
  <2> QED  BY <1>1, <1>3, <2>1, <2>2, <2>3 DEF GrantKept
<1> QED  BY <1>2, <1>4, <1>5, <1>6, <1>7 DEF SqlInv

LEMMA InvHolds == SqlSpec => []SqlInv
<1>1. SqlInv /\ [SqlNext]_sqlVars => SqlInv'
  BY StepsKeep, StutterKeeps DEF SqlNext
<1> QED  BY <1>1, Initially, PTL DEF SqlSpec

(* The tables of the SQL service, the server and what its operations have  *)
(* in hand keep their types: for any number of processes, names and rows.  *)
THEOREM SqlTypeCorrect == SqlSpec => []SqlTypeOK
<1>1. SqlInv => SqlTypeOK
  BY DEF SqlInv
<1> QED  BY <1>1, InvHolds, PTL

(* Nobody is half done with a name at rest. *)
LEMMA Resting ==
  ASSUME SqlInv, NEW n \in Names, AtRest(n)
  PROVE  /\ \A q \in Procs : sqlCall[q].db # n /\ sqlCall[q].user # n
         /\ leftover[n] \subseteq {"delete"} => Weak(n)
         /\ leftover[n] = {} => Clean(n)
<1>1. \A q \in Procs : sqlCall[q].db # n /\ sqlCall[q].user # n
  BY NamesApart DEF AtRest, Concerns
<1>2. overtaken \subseteq Procs
  BY DEF SqlInv, SqlTypeOK
<1> QED  BY <1>1, <1>2 DEF Weak, Clean, Spoilt, HalfDone

(* The panel's rows and the server agree on every name at rest that has no *)
(* marks of unfinished or overlapping operations.                          *)
THEOREM TablesMatchServer == SqlSpec => []RowsMatchServer
<1>1. ASSUME SqlInv, NEW x \in Databases, Untouched(x)
      PROVE  IF schema[x] = None THEN {r \in sqlDatabase : r.name = x} = {}
             ELSE /\ Cardinality({r \in sqlDatabase : r.name = x}) = 1
                  /\ \A r \in {o \in sqlDatabase : o.name = x} : r.customer = schema[x]
  <2>1. x \in Names /\ AtRest(x) /\ leftover[x] = {} /\ DatabaseKept(x)
    BY <1>1 DEF Names, Untouched, SqlInv
  <2>2. Clean(x) /\ \A q \in Procs : sqlCall[q].db # x
    BY <1>1, <2>1, Resting
  <2>3. CASE schema[x] = None
    BY <2>1, <2>2, <2>3 DEF DatabaseKept
  <2>4. CASE schema[x] # None
    <3>1. schema[x] \in SqlCustomers
      BY <2>1, <2>2, <2>4 DEF DatabaseKept
    <3>2. PICK r \in sqlDatabase : r.name = x /\ r.customer = schema[x]
      BY <2>1, <2>2, <3>1 DEF DatabaseKept
    <3>3. \A o \in sqlDatabase : o.name = x => o = r
      BY <2>1, <2>2, <3>2 DEF DatabaseKept
    <3>4. {o \in sqlDatabase : o.name = x} = {r}
      BY <3>2, <3>3
    <3>5. Cardinality({r}) = 1
      BY FS_Singleton
    <3> QED  BY <2>4, <3>2, <3>4, <3>5
  <2> QED  BY <2>3, <2>4
<1>2. ASSUME SqlInv, NEW u \in SqlUsers, Untouched(u)
      PROVE  /\ account[u] = None <=> RowsOfUser(u) = {}
             /\ \A w \in RowsOfUser(u), r \in sqlDatabase :
                   r.id = w.db => r.customer = account[u] /\ r.customer = password[u]
  <2>1. u \in Names /\ AtRest(u) /\ leftover[u] = {} /\ UserKept(u)
    BY <1>2 DEF Names, Untouched, SqlInv
  <2>2. Clean(u) /\ \A q \in Procs : sqlCall[q].user # u
    BY <1>2, <2>1, Resting
  <2>3. account[u] \in {None} \cup SqlCustomers
    BY <2>1, <2>2 DEF UserKept
  <2>4. account[u] = None => \A w \in sqlUser : w.user # u
    BY <2>1, <2>2 DEF UserKept
  <2>5. account[u] # None =>
          /\ \E w \in sqlUser : w.user = u
          /\ \A w \in sqlUser, r \in sqlDatabase : w.user = u /\ r.id = w.db => r.customer = account[u]
          /\ password[u] = account[u]
    BY <2>1, <2>2, <2>3 DEF UserKept
  <2> QED  BY <2>4, <2>5 DEF RowsOfUser
<1>3. ASSUME SqlInv, NEW u \in SqlUsers, NEW x \in Databases, Untouched(u), Untouched(x)
      PROVE  <<u, x>> \in grants <=> \E r \in sqlDatabase : r.name = x /\ Granted(r, u)
  <2>1. u \in Names /\ x \in Names /\ AtRest(u) /\ AtRest(x) /\ leftover[u] = {} /\ leftover[x] = {} /\ GrantKept(u, x)
    BY <1>3 DEF Names, Untouched, SqlInv
  <2>2. Clean(u) /\ Clean(x) /\ Weak(u) /\ Weak(x) /\ \A q \in Procs : sqlCall[q].user # u
    BY <1>3, <2>1, Resting
  <2>3. <<u, x>> \in grants <=> Grantee(u, x)
    BY <2>1, <2>2 DEF GrantKept, GrantedBy, RevokedBy
  <2> QED  BY <2>3 DEF Grantee, Granted
<1>4. SqlInv => RowsMatchServer
  BY <1>1, <1>2, <1>3 DEF RowsMatchServer
<1> QED  BY <1>4, InvHolds, PTL

(* What an interrupted deletion has left to do can be asked for again.     *)
THEOREM DeletionsRepeatable == SqlSpec => []DeletionRepeatable
<1>1. ASSUME SqlInv, NEW x \in Databases, AtRest(x), leftover[x] = {"delete"}
      PROVE  \E r \in sqlDatabase : r.name = x
  <2>1. DatabaseKept(x) /\ x \in Names
    BY <1>1 DEF SqlInv, Names
  <2> QED  BY <1>1, <2>1, Resting DEF DatabaseKept
<1>2. ASSUME SqlInv, NEW u \in SqlUsers, AtRest(u), leftover[u] = {"delete"}
      PROVE  RowsOfUser(u) # {}
  <2>1. UserKept(u) /\ u \in Names
    BY <1>2 DEF SqlInv, Names
  <2> QED  BY <1>2, <2>1, Resting DEF UserKept, RowsOfUser
<1>3. SqlInv => DeletionRepeatable
  BY <1>1, <1>2 DEF DeletionRepeatable
<1> QED  BY <1>3, InvHolds, PTL

---------------------------------------------------------------------------
(* Which step changes what is a customer's. *)
LEMMA ForeignSteps ==
  ASSUME SqlInv, NEW p \in Procs, SqlStep(p)
  PROVE  /\ \A q \in Procs \ {p} : sqlCall'[q] = sqlCall[q]
         /\ \A x \in Databases : schema[x] \in SqlCustomers /\ schema'[x] # schema[x] =>
               sqlCall[p].at \in {"undo database", "drop database"} /\ sqlCall[p].db = x
         /\ \A u \in SqlUsers :
               account[u] \in SqlCustomers /\ (account'[u] # account[u] \/ password'[u] # password[u]) =>
                  /\ sqlCall[p].user = u
                  /\ \/ sqlCall[p].at \in {"drop user", "set password"}
                     \/ sqlCall[p].at = "undo user" /\ sqlCall[p].whole
<1>1. /\ schema \in [Databases -> Owners] /\ account \in [SqlUsers -> Owners]
      /\ password \in [SqlUsers -> SqlCustomers \cup {None}]
      /\ None \notin SqlCustomers /\ p \notin SqlCustomers
  BY NamesApart DEF SqlInv, SqlTypeOK
<1>2. \A q \in Procs \ {p} : sqlCall'[q] = sqlCall[q]
  BY DEF SqlInv, SqlTypeOK, SqlStep, Begin, Goto, End,
         CreateDatabaseCheck, CreateDatabaseStatement, CreateDatabaseRow, CreateDatabaseRowFails, CreateDatabaseUndo,
         DeleteDatabaseCheck, DeleteUserCheck, RemoveUserCount, RemoveUserDrop, RemoveUserDropGrants, RemoveUserRevoke, RemoveUserRow,
         DeleteDatabaseDrop, DeleteDatabaseRow, CreateUserCheck, GrantCheck, CreateUserStatement, GrantStatement,
         CreateUserRow, CreateUserRowFails, CreateUserUndo, CreateUserUndoGrants, SetPasswordCheck, SetPasswordStatement, Interrupted
<1>3. ASSUME NEW x \in Databases, schema[x] \in SqlCustomers, schema'[x] # schema[x]
      PROVE  sqlCall[p].at \in {"undo database", "drop database"} /\ sqlCall[p].db = x
  BY <1>1, <1>3
     DEF SqlStep, server, tables, At, DropUser, DropGrants, Revoke,
         CreateDatabaseCheck, CreateDatabaseStatement, CreateDatabaseRow, CreateDatabaseRowFails, CreateDatabaseUndo,
         DeleteDatabaseCheck, DeleteUserCheck, RemoveUserCount, RemoveUserDrop, RemoveUserDropGrants, RemoveUserRevoke, RemoveUserRow,
         DeleteDatabaseDrop, DeleteDatabaseRow, CreateUserCheck, GrantCheck, CreateUserStatement, GrantStatement,
         CreateUserRow, CreateUserRowFails, CreateUserUndo, CreateUserUndoGrants, SetPasswordCheck, SetPasswordStatement, Interrupted
<1>4. ASSUME NEW u \in SqlUsers, account[u] \in SqlCustomers, account'[u] # account[u] \/ password'[u] # password[u]
      PROVE  /\ sqlCall[p].user = u
             /\ \/ sqlCall[p].at \in {"drop user", "set password"}
                \/ sqlCall[p].at = "undo user" /\ sqlCall[p].whole
  BY <1>1, <1>4
     DEF SqlStep, server, tables, At, DropUser, DropGrants, Revoke,
         CreateDatabaseCheck, CreateDatabaseStatement, CreateDatabaseRow, CreateDatabaseRowFails, CreateDatabaseUndo,
         DeleteDatabaseCheck, DeleteUserCheck, RemoveUserCount, RemoveUserDrop, RemoveUserDropGrants, RemoveUserRevoke, RemoveUserRow,
         DeleteDatabaseDrop, DeleteDatabaseRow, CreateUserCheck, GrantCheck, CreateUserStatement, GrantStatement,
         CreateUserRow, CreateUserRowFails, CreateUserUndo, CreateUserUndoGrants, SetPasswordCheck, SetPasswordStatement, Interrupted
<1> QED  BY <1>2, <1>3, <1>4

(* A name that nobody else deals with and nobody has marked. *)
LEMMA Alone ==
  ASSUME SqlInv, NEW p \in Procs \ overtaken, NEW n \in Names, leftover[n] = {}, ~Shared(p, n)
  PROVE  Clean(n)
<1>1. ASSUME NEW q \in overtaken, HalfDone(q, n)  PROVE FALSE
  <2>1. q \in Procs \ {p}
    BY DEF SqlInv, SqlTypeOK
  <2>2. n \in Concerns(sqlCall[q])
    BY <1>1, NamesApart DEF HalfDone, Concerns
  <2> QED  BY <2>1, <2>2 DEF Shared
<1> QED  BY <1>1 DEF Clean, Spoilt

(* An operation that nobody has overtaken, of a name without marks that    *)
(* nobody else deals with, changes nothing of another customer's.          *)
THEOREM ForeignByOverlap == SqlSpec => ForeignOnlyByOverlap
<1>1. ASSUME SqlInv, NEW p \in Procs \ overtaken, SqlStep(p), NEW x \in Databases,
             schema[x] \in SqlCustomers, schema'[x] # schema[x], leftover[x] = {}, ~Shared(p, x)
      PROVE  schema[x] = sqlCall[p].customer
  <2>1. PICK was : was = sqlCall[p]
    OBVIOUS
  <2>2. was.at \in {"undo database", "drop database"} /\ was.db = x
    BY <1>1, <2>1, ForeignSteps
  <2>3. Clean(x) /\ DatabaseKept(x) /\ Found(p, was) /\ KnownCall(was)
    BY <1>1, <2>1, Alone, CallNow DEF Names, SqlInv
  <2>4. was.at = "drop database"
    BY <1>1, <2>2, <2>3, NamesApart DEF Found
  <2>5. PICK r \in sqlDatabase : r.id = was.id /\ r.name = x /\ r.customer = was.customer
    BY <2>2, <2>3, <2>4 DEF Found, KnownCall, Deleting
  <2> QED  BY <1>1, <2>1, <2>3, <2>5 DEF DatabaseKept
<1>2. ASSUME SqlInv, NEW p \in Procs \ overtaken, SqlStep(p), NEW u \in SqlUsers, account[u] \in SqlCustomers,
             account'[u] # account[u] \/ password'[u] # password[u], leftover[u] = {}, ~Shared(p, u)
      PROVE  account[u] = sqlCall[p].customer
  <2>1. PICK was : was = sqlCall[p]
    OBVIOUS
  <2>2. was.user = u /\ (was.at \in {"drop user", "set password"} \/ (was.at = "undo user" /\ was.whole))
    BY <1>1, <1>2, <2>1, ForeignSteps
  <2>3. /\ Clean(u) /\ UserKept(u) /\ Found(p, was) /\ Suits(was) /\ KnownCall(was) /\ ShapedCall(was)
    BY <1>2, <2>1, Alone, CallNow DEF Names, SqlInv
  <2>4. CASE was.at = "undo user" /\ was.whole
    BY <1>2, <2>2, <2>3, <2>4, NamesApart DEF Found
  <2>5. CASE was.at = "set password"
    BY <1>2, <2>1, <2>2, <2>3, <2>5, NamesApart DEF Suits, ShapedCall
  <2>6. CASE was.at = "drop user"
    <3>1. PICK w \in was.rows : w.user = u
      BY <2>2, <2>3, <2>6 DEF ShapedCall, Removing, Dropping
    <3>2. w \in sqlUser /\ w.db = was.id
      BY <2>3, <3>1 DEF Found, KnownCall
    <3>3. PICK r \in sqlDatabase : r.id = was.id /\ r.customer = was.customer
      BY <2>3, <2>6 DEF Found, KnownCall, Deleting, Removing, Dropping
    <3> QED  BY <1>2, <2>1, <2>3, <3>1, <3>2, <3>3 DEF UserKept
  <2> QED  BY <2>2, <2>4, <2>5, <2>6
<1>3. SqlInv /\ [SqlNext]_sqlVars =>
        [\A p \in Procs : sqlCall'[p] # sqlCall[p] =>
          /\ \A x \in Databases :
                schema[x] \in SqlCustomers \ {sqlCall[p].customer} /\ schema'[x] # schema[x] =>
                    p \in overtaken \/ leftover[x] # {} \/ Shared(p, x)
          /\ \A u \in SqlUsers :
                /\ account[u] \in SqlCustomers \ {sqlCall[p].customer}
                /\ account'[u] # account[u] \/ password'[u] # password[u]
                => p \in overtaken \/ leftover[u] # {} \/ Shared(p, u)]_sqlVars
  <2> SUFFICES ASSUME SqlInv, SqlNext, NEW p \in Procs, sqlCall'[p] # sqlCall[p]
               PROVE  /\ \A x \in Databases :
                            schema[x] \in SqlCustomers \ {sqlCall[p].customer} /\ schema'[x] # schema[x] =>
                                p \in overtaken \/ leftover[x] # {} \/ Shared(p, x)
                      /\ \A u \in SqlUsers :
                            /\ account[u] \in SqlCustomers \ {sqlCall[p].customer}
                            /\ account'[u] # account[u] \/ password'[u] # password[u]
                            => p \in overtaken \/ leftover[u] # {} \/ Shared(p, u)
    OBVIOUS
  <2>1. SqlStep(p)
    BY ForeignSteps DEF SqlNext
  <2> QED  BY <1>1, <1>2, <2>1
<1> QED  BY <1>3, InvHolds, PTL DEF SqlSpec, ForeignOnlyByOverlap
=============================================================================
