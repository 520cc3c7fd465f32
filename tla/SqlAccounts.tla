---------------------------- MODULE SqlAccounts ----------------------------
(***************************************************************************)
(* SQL databases and SQL users: rows of the panel's tables, and the        *)
(* databases, accounts and grants of the server they stand for.            *)
(*                                                                         *)
(* Nothing here waits for the daemon, and DDL commits what it does, so an  *)
(* operation is a row of statements each of which others may come between, *)
(* and which may stop short: a step of this module is one statement, with  *)
(* the FLUSH PRIVILEGES after those on mysql.user and mysql.db, which the  *)
(* state here is.  A statement that fails outside the try blocks, like a   *)
(* process that dies, ends the operation where it stands.                  *)
(*                                                                         *)
(* Names carry no prefix here: two customers may choose the same.  Their   *)
(* spelling and reserved words are left out, a user is a name@host, no     *)
(* name on two hosts, and a password is known by the customer who chose    *)
(* it.                                                                     *)
(***************************************************************************)
EXTENDS Integers, FiniteSets, PanelProcesses

CONSTANTS
    SqlCustomers,  \* ids of customers with the SQL feature
    Databases,     \* names of databases
    SqlUsers,      \* users, name@host
    MaxRows,       \* how many rows each of the two tables is given in this instance
    DatabaseLimit, \* domain_sqld_limit, a positive number
    UserLimit,     \* domain_sqlu_limit, a positive number
    MaxCalls       \* how many requests are made in this instance

ASSUME SqlConfigured ==
    /\ {DatabaseLimit, UserLimit} \subseteq Nat \ {0}
    /\ {MaxRows, MaxCalls} \subseteq Nat
    /\ None \notin Procs \cup SqlCustomers \cup Databases \cup SqlUsers \cup Int
    /\ Databases \cap SqlUsers = {}
    /\ Procs \cap SqlCustomers = {}

VARIABLES
    schema,      \* the databases on the server: None, or whose they are
    account,     \* the accounts on the server: None, or whose they are
    password,    \* who chose each account's password
    grants,      \* mysql.db: pairs of a user and the name of a database
    sqlDatabase, \* the rows of sql_database
    sqlUser,     \* the rows of sql_user
    nextId,      \* the id AUTO_INCREMENT gives next
    sqlCall,     \* the operation of each process
    overtaken,   \* processes with whose names another has dealt meanwhile
    leftover,    \* what unfinished and overlapping operations did to a name
    callsLeft    \* requests that may still come

server  == <<schema, account, password, grants>>
tables  == <<sqlDatabase, sqlUser, nextId>>
sqlVars == <<schema, account, password, grants, sqlDatabase, sqlUser, nextId, sqlCall, overtaken, leftover,
             callsLeft>>

---------------------------------------------------------------------------

(* Whose something on the server is: its customer's once a row stands for  *)
(* it, until then the process's that made it, nobody's if that ended.      *)
Nobody == "nobody"
Owners == SqlCustomers \cup Procs \cup {None, Nobody}

RowIds == 1..MaxRows

DatabaseRows == [id : RowIds, customer : SqlCustomers, name : Databases]
UserRows     == [id : RowIds, db : RowIds, user : SqlUsers]

Points == {"idle", "create database", "insert database", "undo database",
           "count", "drop user", "drop grants", "revoke", "delete user row", "drop database", "delete database row",
           "create user", "grant", "insert user", "undo user", "undo grants", "set password"}

(* The customer, the database's row and name, the user and its row; whether *)
(* the account itself is made or dropped or only a grant; the rows of users *)
(* still to remove; whether the database goes too.                          *)
Calls == [at : Points, customer : SqlCustomers \cup {None}, id : RowIds \cup {None},
          db : Databases \cup {None}, user : SqlUsers \cup {None}, row : RowIds \cup {None},
          whole : BOOLEAN, rows : SUBSET UserRows, drops : BOOLEAN]

Idle == [at |-> "idle", customer |-> None, id |-> None, db |-> None, user |-> None, row |-> None,
         whole |-> FALSE, rows |-> {}, drops |-> FALSE]

Leavings == {"create", "delete", "overlap"}

SqlTypeOK ==
    /\ schema \in [Databases -> Owners]
    /\ account \in [SqlUsers -> Owners]
    /\ password \in [SqlUsers -> SqlCustomers \cup {None}]
    /\ grants \subseteq SqlUsers \X Databases
    /\ sqlDatabase \subseteq DatabaseRows
    /\ sqlUser \subseteq UserRows
    /\ nextId \in [{"database", "user"} -> 1..(MaxRows + 1)]
    /\ sqlCall \in [Procs -> Calls]
    /\ overtaken \subseteq Procs
    /\ leftover \in [Databases \cup SqlUsers -> SUBSET Leavings]
    /\ callsLeft \in 0..MaxCalls

(* Any tables and the server that belongs to them: a row to a database, the *)
(* rows of a user under one customer, a grant to each of them.              *)
Settled ==
    /\ \A r, o \in sqlDatabase : r.id = o.id \/ r.name = o.name => r = o
    /\ \A v, w \in sqlUser : v.id = w.id \/ (v.db = w.db /\ v.user = w.user) => v = w
    /\ \A w \in sqlUser : \E r \in sqlDatabase : r.id = w.db
    /\ \A v, w \in sqlUser, r, o \in sqlDatabase :
          v.user = w.user /\ v.db = r.id /\ w.db = o.id => r.customer = o.customer

SqlInit ==
    /\ sqlDatabase \in SUBSET DatabaseRows
    /\ sqlUser \in SUBSET UserRows
    /\ Settled
    /\ schema = [x \in Databases |->
                   IF \E r \in sqlDatabase : r.name = x
                   THEN CHOOSE c \in SqlCustomers : \E r \in sqlDatabase : r.name = x /\ r.customer = c ELSE None]
    /\ account = [u \in SqlUsers |->
                    IF \E w \in sqlUser : w.user = u
                    THEN CHOOSE c \in SqlCustomers :
                            \E w \in sqlUser, r \in sqlDatabase : w.user = u /\ r.id = w.db /\ r.customer = c
                    ELSE None]
    /\ password = account
    /\ grants = {g \in SqlUsers \X Databases :
                   \E w \in sqlUser, r \in sqlDatabase : w.user = g[1] /\ r.id = w.db /\ r.name = g[2]}
    /\ nextId = [t \in {"database", "user"} |-> 1 + Cardinality(IF t = "database" THEN sqlDatabase ELSE sqlUser)]
    /\ {r.id : r \in sqlDatabase} = 1..(nextId["database"] - 1)
    /\ {w.id : w \in sqlUser} = 1..(nextId["user"] - 1)
    /\ sqlCall = [p \in Procs |-> Idle]
    /\ overtaken = {}
    /\ leftover = [n \in Databases \cup SqlUsers |-> {}]
    /\ callsLeft = MaxCalls

---------------------------------------------------------------------------
(* Bookkeeping of who overlaps whom; no code corresponds to it.            *)

Concerns(call) == ({call.db, call.user} \cup {w.user : w \in call.rows}) \ {None}

(* A step of p on these names overtakes everyone else who deals with them; *)
(* it is an overlap if p has itself been overtaken, and else heals what an *)
(* unfinished operation left of the names it sets right.                   *)
Touch(p, names, healed) ==
    /\ overtaken' = {q \in Procs : /\ sqlCall'[q].at # "idle"
                                   /\ \/ q \in overtaken
                                      \/ q # p /\ Concerns(sqlCall[q]) \cap names # {}}
    /\ leftover' = [n \in DOMAIN leftover |->
                       IF n \in names /\ p \in overtaken THEN leftover[n] \cup {"overlap"}
                       ELSE IF n \in healed THEN leftover[n] \ {"delete"}
                       ELSE leftover[n]]

(* CREATE DATABASE succeeds only on a free name: who has come between the  *)
(* check and it no longer matters.                                         *)
Claim(p, x) ==
    /\ overtaken' = (overtaken \ {p}) \cup {q \in Procs \ {p} : x \in Concerns(sqlCall[q])}
    /\ UNCHANGED leftover

(* A step that reads, or ends the operation, touches nothing. *)
Look(p) ==
    /\ overtaken' = {q \in overtaken : sqlCall'[q].at # "idle"}
    /\ UNCHANGED leftover

Goto(p, point) == sqlCall' = [sqlCall EXCEPT ![p].at = point] /\ UNCHANGED callsLeft
End(p)         == sqlCall' = [sqlCall EXCEPT ![p] = Idle] /\ UNCHANGED callsLeft

Begin(p, call) ==
    /\ sqlCall[p].at = "idle"
    /\ callsLeft > 0
    /\ callsLeft' = callsLeft - 1
    /\ sqlCall' = [sqlCall EXCEPT ![p] = call]
    /\ Look(p)

At(p, point) == sqlCall[p].at = point
---------------------------------------------------------------------------
(* What the checks read. *)

RowsOf(c)        == {r \in sqlDatabase : r.customer = c}
RowsOfUser(u)    == {w \in sqlUser : w.user = u}
OwnerRow(w)      == {r \in sqlDatabase : r.id = w.db}
UsersOf(c)       == {w.user : w \in {v \in sqlUser : \E r \in OwnerRow(v) : r.customer = c}}
Granted(r, u)    == \E w \in sqlUser : w.db = r.id /\ w.user = u

---------------------------------------------------------------------------
(* createDatabase: the check, CREATE DATABASE, the row; without the row the *)
(* database is dropped again.                                              *)

CreateDatabaseCheck(p, c, x) ==
    /\ Cardinality(RowsOf(c)) < DatabaseLimit
    /\ schema[x] = None
    /\ Begin(p, [Idle EXCEPT !.at = "create database", !.customer = c, !.db = x])
    /\ UNCHANGED <<server, tables>>

CreateDatabaseStatement_IfNotExists(p) ==   \* mutant: a database that is there is taken for one's own
    /\ At(p, "create database")
    /\ LET x == sqlCall[p].db
       IN  /\ schema' = [schema EXCEPT ![x] = IF @ = None THEN p ELSE @]
           /\ Goto(p, "insert database")
           /\ Claim(p, x)
    /\ UNCHANGED <<account, password, grants, tables>>

CreateDatabaseStatement(p) ==
    /\ At(p, "create database")
    /\ LET x == sqlCall[p].db
       IN  \/ /\ schema[x] = None
              /\ schema' = [schema EXCEPT ![x] = p]
              /\ Goto(p, "insert database")
              /\ Claim(p, x)
           \/ /\ schema[x] # None        \* DatabaseExistsException: CONFLICT
              /\ End(p)
              /\ Look(p)
              /\ UNCHANGED schema
    /\ UNCHANGED <<account, password, grants, tables>>

CreateDatabaseRow(p) ==
    /\ At(p, "insert database")
    /\ LET x == sqlCall[p].db
           c == sqlCall[p].customer
       IN  /\ nextId["database"] \in RowIds
           /\ sqlDatabase' = sqlDatabase \cup {[id |-> nextId["database"], customer |-> c, name |-> x]}
           /\ nextId' = [nextId EXCEPT !["database"] = @ + 1]
           /\ schema' = [schema EXCEPT ![x] = IF @ = p THEN c ELSE @]
           /\ End(p)
           /\ Touch(p, {x}, {})
    /\ UNCHANGED <<account, password, grants, sqlUser>>

(* The transaction fails and leaves no row. *)
CreateDatabaseRowFails(p) ==
    /\ At(p, "insert database")
    /\ Goto(p, "undo database")
    /\ Look(p)
    /\ UNCHANGED <<server, tables>>

CreateDatabaseUndo(p) ==
    /\ At(p, "undo database")
    /\ schema' = [schema EXCEPT ![sqlCall[p].db] = None]
    /\ End(p)
    /\ Touch(p, {sqlCall[p].db}, {})
    /\ UNCHANGED <<account, password, grants, tables>>

---------------------------------------------------------------------------
(* removeUser for each of the rows, then, if the database goes too, the    *)
(* database and its row.                                                   *)

DeleteDatabaseCheck(p, r) ==
    /\ LET users == {w \in sqlUser : w.db = r.id}
       IN  Begin(p, [Idle EXCEPT !.at = IF users = {} THEN "drop database" ELSE "count", !.customer = r.customer,
                                 !.id = r.id, !.db = r.name, !.rows = users, !.drops = TRUE])
    /\ UNCHANGED <<server, tables>>

DeleteUserCheck(p, r, w) ==
    /\ r.id = w.db
    /\ Begin(p, [Idle EXCEPT !.at = "count", !.customer = r.customer, !.id = r.id, !.db = r.name, !.rows = {w}])
    /\ UNCHANGED <<server, tables>>

(* The account goes with its last grant anywhere. *)
RemoveUserCount(p) ==
    /\ At(p, "count")
    /\ \E w \in sqlCall[p].rows :
          LET last == Cardinality(RowsOfUser(w.user)) < 2
          IN  sqlCall' = [sqlCall EXCEPT ![p] = [@ EXCEPT !.at = IF last THEN "drop user" ELSE "revoke",
                                                          !.user = w.user, !.row = w.id, !.whole = last]]
    /\ Look(p)
    /\ UNCHANGED <<server, tables, callsLeft>>

(* dropUser: the row of mysql.user, then those of mysql.db. *)
DropUser(u) ==
    /\ account' = [account EXCEPT ![u] = None]
    /\ password' = [password EXCEPT ![u] = None]
    /\ UNCHANGED <<schema, grants>>

DropGrants(u) ==
    /\ grants' = {g \in grants : g[1] # u}
    /\ UNCHANGED <<schema, account, password>>

Revoke(u, x) ==
    /\ grants' = grants \ {<<u, x>>}
    /\ UNCHANGED <<schema, account, password>>

RemoveUserDrop(p) ==
    /\ At(p, "drop user")
    /\ DropUser(sqlCall[p].user)
    /\ Goto(p, "drop grants")
    /\ Touch(p, {sqlCall[p].user}, {})
    /\ UNCHANGED tables

RemoveUserDropGrants(p) ==
    /\ At(p, "drop grants")
    /\ DropGrants(sqlCall[p].user)
    /\ Goto(p, "delete user row")
    /\ Touch(p, {sqlCall[p].user, sqlCall[p].db}, {})
    /\ UNCHANGED tables

RemoveUserRevoke(p) ==
    /\ At(p, "revoke")
    /\ Revoke(sqlCall[p].user, sqlCall[p].db)
    /\ Goto(p, "delete user row")
    /\ Touch(p, {sqlCall[p].user, sqlCall[p].db}, {})
    /\ UNCHANGED tables

RemoveUserRow(p) ==
    /\ At(p, "delete user row")
    /\ LET call == sqlCall[p]
           rest == {w \in call.rows : w.id # call.row}
           next == [call EXCEPT !.at = IF rest = {} THEN "drop database" ELSE "count",
                                !.rows = rest, !.user = None, !.row = None, !.whole = FALSE]
       IN  /\ sqlUser' = {w \in sqlUser : w.id # call.row}
           /\ sqlCall' = [sqlCall EXCEPT ![p] = IF rest = {} /\ ~call.drops THEN Idle ELSE next]
           /\ Touch(p, {call.user, call.db}, IF call.whole THEN {call.user} ELSE {})
    /\ UNCHANGED <<server, sqlDatabase, nextId, callsLeft>>

DeleteDatabaseDrop_RowFirst(p) ==   \* mutant: the row goes before what it stands for
    /\ At(p, "drop database")
    /\ sqlDatabase' = {r \in sqlDatabase : r.id # sqlCall[p].id}
    /\ Goto(p, "delete database row")
    /\ Touch(p, {sqlCall[p].db}, {})
    /\ UNCHANGED <<server, sqlUser, nextId>>

DeleteDatabaseDrop(p) ==
    /\ At(p, "drop database")
    /\ schema' = [schema EXCEPT ![sqlCall[p].db] = None]
    /\ Goto(p, "delete database row")
    /\ Touch(p, {sqlCall[p].db}, {})
    /\ UNCHANGED <<account, password, grants, tables>>

DeleteDatabaseRow(p) ==
    /\ At(p, "delete database row")
    /\ LET rows == {r \in sqlDatabase : r.name = sqlCall[p].db}
       IN  /\ sqlDatabase' = {r \in sqlDatabase : r.id # sqlCall[p].id}
           /\ End(p)
           /\ Touch(p, {sqlCall[p].db}, IF Cardinality(rows) < 2 THEN {sqlCall[p].db} ELSE {})
    /\ UNCHANGED <<server, sqlUser, nextId>>

---------------------------------------------------------------------------
(* createUser: a new account or one the customer has, a grant, a row.      *)

CreateUserCheck(p, r, u) ==
    /\ u \in UsersOf(r.customer) \/ Cardinality(UsersOf(r.customer)) < UserLimit
    /\ account[u] = None
    /\ Begin(p, [Idle EXCEPT !.at = "create user", !.customer = r.customer, !.id = r.id, !.db = r.name,
                             !.user = u, !.whole = TRUE])
    /\ UNCHANGED <<server, tables>>

GrantCheck_AnyOwner(p, r, w) ==   \* mutant: the user may be another customer's
    /\ ~Granted(r, w.user)
    /\ Begin(p, [Idle EXCEPT !.at = "grant", !.customer = r.customer, !.id = r.id, !.db = r.name, !.user = w.user])
    /\ UNCHANGED <<server, tables>>

GrantCheck(p, r, w) ==
    /\ \E o \in OwnerRow(w) : o.customer = r.customer
    /\ ~Granted(r, w.user)
    /\ Begin(p, [Idle EXCEPT !.at = "grant", !.customer = r.customer, !.id = r.id, !.db = r.name, !.user = w.user])
    /\ UNCHANGED <<server, tables>>

CreateUserStatement(p) ==
    /\ At(p, "create user")
    /\ LET u == sqlCall[p].user
       IN  \/ /\ account[u] = None
              /\ account' = [account EXCEPT ![u] = p]
              /\ password' = [password EXCEPT ![u] = sqlCall[p].customer]
              /\ Goto(p, "grant")
              /\ Touch(p, {u}, {})
           \/ /\ account[u] # None
              /\ End(p)
              /\ Look(p)
              /\ UNCHANGED <<account, password>>
    /\ UNCHANGED <<schema, grants, tables>>

(* GRANT fails for an account that is gone, and nothing catches it. *)
GrantStatement(p) ==
    /\ At(p, "grant")
    /\ LET u == sqlCall[p].user
           x == sqlCall[p].db
       IN  \/ /\ account[u] # None
              /\ grants' = grants \cup {<<u, x>>}
              /\ Goto(p, "insert user")
              /\ Touch(p, {u, x}, {})
           \/ /\ account[u] = None
              /\ End(p)
              /\ Look(p)
              /\ UNCHANGED grants
    /\ UNCHANGED <<schema, account, password, tables>>

CreateUserRow(p) ==
    /\ At(p, "insert user")
    /\ LET call == sqlCall[p]
       IN  /\ nextId["user"] \in RowIds
           /\ sqlUser' = sqlUser \cup {[id |-> nextId["user"], db |-> call.id, user |-> call.user]}
           /\ nextId' = [nextId EXCEPT !["user"] = @ + 1]
           /\ account' = [account EXCEPT ![call.user] = IF @ = p THEN call.customer ELSE @]
           /\ End(p)
           /\ Touch(p, {call.user, call.db}, {})
    /\ UNCHANGED <<schema, password, grants, sqlDatabase>>

CreateUserRowFails(p) ==
    /\ At(p, "insert user")
    /\ Goto(p, "undo user")
    /\ Look(p)
    /\ UNCHANGED <<server, tables>>

CreateUserUndo(p) ==
    /\ At(p, "undo user")
    /\ LET call == sqlCall[p]
       IN  /\ IF call.whole THEN DropUser(call.user) /\ Goto(p, "undo grants")
                            ELSE Revoke(call.user, call.db) /\ End(p)
           /\ Touch(p, {call.user, call.db}, {})
    /\ UNCHANGED tables

CreateUserUndoGrants(p) ==
    /\ At(p, "undo grants")
    /\ DropGrants(sqlCall[p].user)
    /\ End(p)
    /\ Touch(p, {sqlCall[p].user, sqlCall[p].db}, {})
    /\ UNCHANGED tables

---------------------------------------------------------------------------

SetPasswordCheck(p, r, w) ==
    /\ r.id = w.db
    /\ Begin(p, [Idle EXCEPT !.at = "set password", !.customer = r.customer, !.user = w.user])
    /\ UNCHANGED <<server, tables>>

SetPasswordStatement(p) ==
    /\ At(p, "set password")
    /\ LET u == sqlCall[p].user
       IN  /\ password' = IF account[u] = None THEN password ELSE [password EXCEPT ![u] = sqlCall[p].customer]
           /\ End(p)
           /\ Touch(p, {u}, {})
    /\ UNCHANGED <<schema, account, grants, tables>>

---------------------------------------------------------------------------
(* A statement outside the try blocks fails, or the process dies: what is  *)
(* done is not undone.                                                     *)

HalfMade(call) ==
    CASE call.at \in {"insert database", "undo database"} -> {call.db}
      [] call.at \in {"insert user", "undo user", "undo grants"} -> {call.user, call.db}
      [] call.at = "grant" /\ call.whole                  -> {call.user}
      [] OTHER                                            -> {}

HalfGone(call) ==
    CASE call.at \in {"drop grants", "delete user row"} -> {call.user, call.db}
      [] call.at = "delete database row" -> {call.db}
      [] OTHER                           -> {}

Interrupted(p) ==
    /\ sqlCall[p].at # "idle"
    /\ End(p)
    /\ schema' = [x \in Databases |-> IF schema[x] = p THEN Nobody ELSE schema[x]]
    /\ account' = [u \in SqlUsers |-> IF account[u] = p THEN Nobody ELSE account[u]]
    /\ overtaken' = overtaken \ {p}
    /\ leftover' = [n \in DOMAIN leftover |->
                       leftover[n] \cup {l \in Leavings :
                                            \/ l = "create" /\ n \in HalfMade(sqlCall[p])
                                            \/ l = "delete" /\ n \in HalfGone(sqlCall[p])
                                            \/ l = "overlap" /\ p \in overtaken /\ n \in Concerns(sqlCall[p])}]
    /\ UNCHANGED <<password, grants, tables>>

SqlStep(p) ==
    \/ \E c \in SqlCustomers, x \in Databases : CreateDatabaseCheck(p, c, x)
    \/ CreateDatabaseStatement(p) \/ CreateDatabaseRow(p) \/ CreateDatabaseRowFails(p) \/ CreateDatabaseUndo(p)
    \/ \E r \in sqlDatabase : DeleteDatabaseCheck(p, r)
    \/ \E r \in sqlDatabase, w \in sqlUser : DeleteUserCheck(p, r, w)
    \/ RemoveUserCount(p) \/ RemoveUserDrop(p) \/ RemoveUserDropGrants(p) \/ RemoveUserRevoke(p) \/ RemoveUserRow(p)
    \/ DeleteDatabaseDrop(p) \/ DeleteDatabaseRow(p)
    \/ \E r \in sqlDatabase, u \in SqlUsers : CreateUserCheck(p, r, u)
    \/ \E r \in sqlDatabase, w \in sqlUser : GrantCheck(p, r, w)
    \/ CreateUserStatement(p) \/ GrantStatement(p) \/ CreateUserRow(p) \/ CreateUserRowFails(p)
    \/ CreateUserUndo(p) \/ CreateUserUndoGrants(p)
    \/ \E r \in sqlDatabase, w \in sqlUser : SetPasswordCheck(p, r, w)
    \/ SetPasswordStatement(p)
    \/ Interrupted(p)

SqlNext == \E p \in Procs : SqlStep(p)

SqlSpec == SqlInit /\ [][SqlNext]_sqlVars

---------------------------------------------------------------------------
(* Properties. *)

AtRest(n) == \A p \in Procs : n \notin Concerns(sqlCall[p])

Untouched(n) == AtRest(n) /\ leftover[n] = {}

Shared(p, n) == \E q \in Procs \ {p} : n \in Concerns(sqlCall[q])

(* The panel's rows and the server agree on every name nobody is working   *)
(* on and no unfinished or overlapping operation has left its mark on: a   *)
(* database has one row, its owner's, a user's account belongs to the      *)
(* customer of all its rows, who alone has set its password, and each row  *)
(* is a grant and each grant a row.  Rows that fail are part of this:      *)
(* "a row that fails undoes the DDL".                                      *)
RowsMatchServer ==
    /\ \A x \in Databases : Untouched(x) =>
          LET rows == {r \in sqlDatabase : r.name = x}
          IN  IF schema[x] = None THEN rows = {}
              ELSE Cardinality(rows) = 1 /\ \A r \in rows : r.customer = schema[x]
    /\ \A u \in SqlUsers : Untouched(u) =>
          /\ account[u] = None <=> RowsOfUser(u) = {}
          /\ \A w \in RowsOfUser(u), r \in sqlDatabase :
                r.id = w.db => r.customer = account[u] /\ r.customer = password[u]
    /\ \A u \in SqlUsers, x \in Databases : Untouched(u) /\ Untouched(x) =>
          (<<u, x>> \in grants <=> \E r \in sqlDatabase : r.name = x /\ Granted(r, u))

(* A deletion that was interrupted can be asked for again: what it has     *)
(* still to do has a row to ask for it by.                                 *)
DeletionRepeatable ==
    /\ \A x \in Databases : AtRest(x) /\ leftover[x] = {"delete"} => \E r \in sqlDatabase : r.name = x
    /\ \A u \in SqlUsers : AtRest(u) /\ leftover[u] = {"delete"} => RowsOfUser(u) # {}

(* An operation changes what is another customer's only when another one   *)
(* is dealing with the same name or has since the check, or an unfinished  *)
(* one has left rows of two customers under that name.                     *)
ForeignOnlyByOverlap ==
    [][\A p \in Procs : sqlCall'[p] # sqlCall[p] =>
          /\ \A x \in Databases :
                schema[x] \in SqlCustomers \ {sqlCall[p].customer} /\ schema'[x] # schema[x] =>
                    p \in overtaken \/ leftover[x] # {} \/ Shared(p, x)
          /\ \A u \in SqlUsers :
                /\ account[u] \in SqlCustomers \ {sqlCall[p].customer}
                /\ account'[u] # account[u] \/ password'[u] # password[u]
                => p \in overtaken \/ leftover[u] # {} \/ Shared(p, u)]_sqlVars
=============================================================================
