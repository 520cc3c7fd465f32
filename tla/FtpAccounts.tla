---------------------------- MODULE FtpAccounts ----------------------------
(***************************************************************************)
(* The FTP users of one customer: rows of ftp_users whose status the       *)
(* daemon works off, the customer's group with its list of members, and    *)
(* the disk quota of that group.                                           *)
(*                                                                         *)
(* The list is one string.  Who adds a member appends to it in the         *)
(* statement itself; who removes one reads it and writes it back, within   *)
(* a transaction, but the read takes no lock.  A transaction's writes do   *)
(* take locks, so they and the commit are one step here.                   *)
(*                                                                         *)
(* A login names its host, "user@host".  Passwords and home directories    *)
(* are data and left out, and so is quotatallies, which goes when the      *)
(* group goes.                                                             *)
(***************************************************************************)
EXTENDS Integers, FiniteSets, PanelProcesses

CONSTANTS
    Logins,     \* FTP users of the customer
    OnAlias,    \* those of them on the one domain alias
    FtpLimit,   \* domain_ftpacc_limit, a positive number
    DiskLimits  \* values of domain_disk_limit

ASSUME FtpConfigured ==
    /\ IsFiniteSet(Logins)
    /\ OnAlias \subseteq Logins
    /\ FtpLimit \in Nat \ {0}
    /\ None \notin Procs \cup Logins \cup DiskLimits

VARIABLES
    login,      \* ftp_users.status
    members,    \* ftp_group.members, no row if empty
    quota,      \* quotalimits of the group's name: the limit written there, or None
    ownName,    \* whether the customer's username is another than the domain's name
    diskLimit,  \* domain.domain_disk_limit
    alias,      \* the status of the domain alias
    ftpCall,    \* the operation of each process
    misread     \* processes that have read what another has since written

ftpVars == <<login, members, quota, ownName, diskLimit, alias, ftpCall, misread>>

---------------------------------------------------------------------------

(* A user counts until its deletion is asked for.  "switched" is what      *)
(* customerSetState makes of a row and the daemon of that: "toenable",     *)
(* "todisable" or "disabled"; "error" is the daemon's message.             *)
LiveLogins == {"toadd", "ok", "tochange", "switched", "error"}
Statuses == LiveLogins \cup {"absent", "todelete"}

HostStatuses == {"ok", "switched", "error", "todelete", "gone"}

FtpOperations == {"create", "update", "delete", "alias delete", "disk limit"}

(* What a process has read: a disk limit, and later the list of members.   *)
FtpCalls == [op : FtpOperations, login : Logins \cup {None}, limit : DiskLimits \cup {None},
             selected : BOOLEAN, members : SUBSET Logins]

Free == [op |-> "update", login |-> None, limit |-> None, selected |-> FALSE, members |-> {}]

FtpTypeOK ==
    /\ login \in [Logins -> Statuses]
    /\ members \subseteq Logins
    /\ quota \in DiskLimits \cup {None}
    /\ ownName \in BOOLEAN
    /\ diskLimit \in DiskLimits
    /\ alias \in HostStatuses
    /\ ftpCall \in [Procs -> FtpCalls \cup {None}]
    /\ misread \subseteq Procs

FtpInit ==
    /\ login = [u \in Logins |-> "absent"]
    /\ members = {}
    /\ quota = None
    /\ ownName \in BOOLEAN
    /\ diskLimit \in DiskLimits
    /\ alias = "ok"
    /\ ftpCall = [p \in Procs |-> None]
    /\ misread = {}

---------------------------------------------------------------------------

HostOk(u) == u \in OnAlias => alias = "ok"

Doing(p, op) == ftpCall[p] # None /\ ftpCall[p].op = op

FtpDecide(p, op, u, limit) ==
    /\ ftpCall[p] = None
    /\ ftpCall' = [ftpCall EXCEPT ![p] = [op |-> op, login |-> u, limit |-> limit, selected |-> FALSE, members |-> {}]]
    /\ misread' = misread \ {p}
    /\ UNCHANGED <<login, members, quota, ownName, diskLimit, alias>>

(* ofCustomer(), withMemberOn(): the list of members as committed. *)
FtpSelect(p, op) ==
    /\ Doing(p, op)
    /\ ~ftpCall[p].selected
    /\ ftpCall' = [ftpCall EXCEPT ![p].selected = TRUE, ![p].members = members]
    /\ misread' = misread \ {p}
    /\ UNCHANGED <<login, members, quota, ownName, diskLimit, alias>>

Selected(p, op) == Doing(p, op) /\ ftpCall[p].selected

(* The end of a transaction.  Everybody else who has begun has read what   *)
(* was there before.                                                       *)
FtpCommit(p) ==
    /\ ftpCall' = [ftpCall EXCEPT ![p] = None]
    /\ misread' = {q \in Procs \ {p} : ftpCall[q] # None}

(* removeMembers() on the group that was selected, if there was one; the   *)
(* UPDATE finds no row when the group has gone since.                      *)
RemoveMembers(list, gone) ==
    /\ members' = IF list = {} \/ members = {} THEN members ELSE list \ gone
    /\ quota' = IF list # {} /\ list \ gone = {} THEN None ELSE quota

---------------------------------------------------------------------------

FtpCreateCheck(p, u) ==
    /\ Cardinality({v \in Logins : login[v] \in LiveLogins}) < FtpLimit
    /\ HostOk(u)
    /\ FtpDecide(p, "create", u, diskLimit)

FtpCreateCommit(p) ==
    /\ Doing(p, "create")
    /\ LET u == ftpCall[p].login
       IN  \/ /\ login[u] = "absent"
              /\ login' = [login EXCEPT ![u] = "toadd"]
              /\ members' = members \cup {u}
              /\ quota' = IF quota = None THEN ftpCall[p].limit ELSE quota
              /\ FtpCommit(p)
           \/ /\ login[u] # "absent"      \* the key is taken: CONFLICT
              /\ ftpCall' = [ftpCall EXCEPT ![p] = None]
              /\ UNCHANGED <<login, members, quota, misread>>
    /\ UNCHANGED <<ownName, diskLimit, alias>>

FtpUpdateCheck_AnyState(p, u) ==   \* mutant: as ftp_edit.php, which does not ask for the status
    /\ login[u] # "absent"
    /\ FtpDecide(p, "update", u, None)

FtpUpdateCheck(p, u) ==
    /\ login[u] = "ok"
    /\ FtpDecide(p, "update", u, None)

(* The UPDATE asks neither for a status nor whether it found a row. *)
FtpUpdateCommit(p) ==
    /\ Doing(p, "update")
    /\ LET u == ftpCall[p].login
       IN  login' = [login EXCEPT ![u] = IF @ = "absent" THEN @ ELSE "tochange"]
    /\ FtpCommit(p)
    /\ UNCHANGED <<members, quota, ownName, diskLimit, alias>>

FtpDeleteCheck(p, u) ==
    /\ login[u] \in {"ok", "error"}
    /\ FtpDecide(p, "delete", u, None)

FtpDeleteCommit(p) ==
    /\ Selected(p, "delete")
    /\ LET u == ftpCall[p].login
       IN  /\ login' = [login EXCEPT ![u] = IF @ = "absent" THEN @ ELSE "todelete"]
           /\ IF u \in ftpCall[p].members THEN RemoveMembers(ftpCall[p].members, {u})
                                          ELSE UNCHANGED <<members, quota>>
    /\ FtpCommit(p)
    /\ UNCHANGED <<ownName, diskLimit, alias>>

(* The deletion of the alias takes the users on it along. *)
AliasDeleteCheck(p) ==
    /\ alias \in {"ok", "error"}
    /\ FtpDecide(p, "alias delete", None, None)

AliasDeleteCommit(p) ==
    /\ Selected(p, "alias delete")
    /\ alias' = IF alias = "gone" THEN alias ELSE "todelete"
    /\ login' = [u \in Logins |-> IF u \in OnAlias /\ login[u] # "absent" THEN "todelete" ELSE login[u]]
    /\ RemoveMembers(ftpCall[p].members, OnAlias)
    /\ FtpCommit(p)
    /\ UNCHANGED <<ownName, diskLimit>>

(* customerUpdate with another disk limit: the quota is REPLACEd, whether  *)
(* there is a group or not, under the domain's name; the group has the     *)
(* customer's.                                                             *)
DiskLimitCheck(p, limit) ==
    /\ limit # diskLimit
    /\ FtpDecide(p, "disk limit", None, limit)

DiskLimitCommit(p) ==
    /\ Doing(p, "disk limit")
    /\ diskLimit' = ftpCall[p].limit
    /\ quota' = IF ownName THEN quota ELSE ftpCall[p].limit
    /\ FtpCommit(p)
    /\ UNCHANGED <<login, members, ownName, alias>>

(* customerSetState writes over whatever these rows say, also where they   *)
(* are to be deleted, and leaves the list alone.  What it reads beforehand *)
(* is the domain's own status.                                             *)
FtpSetState(p) ==
    /\ ftpCall[p] = None
    /\ login' = [u \in Logins |-> IF login[u] = "absent" THEN "absent" ELSE "switched"]
    /\ alias' = IF alias = "gone" THEN alias ELSE "switched"
    /\ FtpCommit(p)
    /\ UNCHANGED <<members, quota, ownName, diskLimit>>

(* The transaction fails, or the process dies in it. *)
FtpRollback(p) ==
    /\ ftpCall[p] # None
    /\ ftpCall' = [ftpCall EXCEPT ![p] = None]
    /\ UNCHANGED <<login, members, quota, ownName, diskLimit, alias, misread>>

FtpStep(p) ==
    \/ \E u \in Logins : FtpCreateCheck(p, u) \/ FtpUpdateCheck(p, u) \/ FtpDeleteCheck(p, u)
    \/ FtpCreateCommit(p) \/ FtpUpdateCommit(p) \/ FtpDeleteCommit(p)
    \/ AliasDeleteCheck(p) \/ AliasDeleteCommit(p)
    \/ \E limit \in DiskLimits : DiskLimitCheck(p, limit)
    \/ DiskLimitCommit(p)
    \/ \E op \in {"delete", "alias delete"} : FtpSelect(p, op)
    \/ FtpSetState(p)
    \/ FtpRollback(p)

---------------------------------------------------------------------------
(* The daemon does what a row asks for, or fails and writes its message.   *)

FtpOutcomes(status, removed) ==
    CASE status \in {"toadd", "tochange", "switched"} -> {"ok", "error"}
      [] status = "todelete"                          -> {removed, "error"}
      [] OTHER                                        -> {}

FtpDaemon ==
    /\ \/ \E u \in Logins : \E end \in FtpOutcomes(login[u], "absent") :
             login' = [login EXCEPT ![u] = end] /\ UNCHANGED alias
       \/ alias' \in FtpOutcomes(alias, "gone") /\ UNCHANGED login
    /\ UNCHANGED <<members, quota, ownName, diskLimit, ftpCall, misread>>

FtpNext == FtpDaemon \/ \E p \in Procs : FtpStep(p)

FtpSpec == FtpInit /\ [][FtpNext]_ftpVars

---------------------------------------------------------------------------
(* Properties. *)

IsMember(u) == u \in members <=> login[u] \in LiveLogins

Hosted(u) == (login[u] \in LiveLogins /\ u \in OnAlias) => alias \notin {"todelete", "gone"}

(* The daemon has failed to delete the user, or customerSetState has       *)
(* written over the deletion: it counts again, and is in nobody's list.    *)
Resurfaces(u) == login[u] = "todelete" /\ login'[u] \in {"error", "switched"}

(* The list of members is the list of the live users, a live user's host   *)
(* is not going away, and the group's quota is the customer's disk limit:  *)
(* what is right is made wrong only by a transaction that had read the     *)
(* tables before another one changed them, and, for one user, where its    *)
(* deletion fails or is written over by customerSetState.  One after the   *)
(* other, creates, updates, deletions and changes of the limit keep the    *)
(* four tables together, whatever the daemon makes of the rows meanwhile.  *)
(* The quota of a customer with a username of its own is not found when    *)
(* the disk limit changes.                                                 *)
TablesPartByOverlap ==
    [][(\E p \in misread : ftpCall[p] # None /\ ftpCall'[p] = None) \/
       /\ \A u \in Logins : Resurfaces(u) \/ ((IsMember(u) => IsMember(u)') /\ (Hosted(u) => Hosted(u)'))
       /\ quota \in {None, diskLimit} => quota' \in {None, diskLimit'} \/ (ownName /\ diskLimit' # diskLimit)]_ftpVars
=============================================================================
