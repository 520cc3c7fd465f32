------------------------- MODULE AccountServicesProofs ---------------------
(***************************************************************************)
(* Theorems, checked by TLAPS, about three of the services of a customer:  *)
(* FTP users, DNS records and mail accounts.  Each of them keeps its       *)
(* promise as long as transactions do not overlap.                         *)
(***************************************************************************)
EXTENDS FtpAccounts, DnsRecords, MailAccounts, FiniteSums, SequenceTheorems, FiniteSetTheorems, TLAPS

(***************************************************************************)
(* For any number of users, processes and limits: the tables of the FTP    *)
(* service come apart only where transactions overlap.                     *)
(*                                                                         *)
(* A transaction that nobody has overtaken still finds what it has read:   *)
(* the host of the user it creates, the disk limit, the user it changes,   *)
(* and the list of members it has selected.                                *)
(***************************************************************************)

(* What a transaction relies on. *)
FtpRelied(p) ==
    /\ Doing(p, "create") => HostOk(ftpCall[p].login) /\ ftpCall[p].limit = diskLimit
    /\ Doing(p, "update") => login[ftpCall[p].login] = "ok"
    /\ ftpCall[p].selected => ftpCall[p].members = members

(* The call is about a user, or has a limit, where its operation is. *)
FtpShaped(p) ==
    /\ \A op \in {"create", "update", "delete"} : Doing(p, op) => ftpCall[p].login \in Logins
    /\ \A op \in {"create", "disk limit"} : Doing(p, op) => ftpCall[p].limit \in DiskLimits

FtpInv ==
    /\ FtpTypeOK
    /\ \A p \in Procs : FtpShaped(p)
    /\ \A p \in Procs \ misread : ftpCall[p] # None => FtpRelied(p)

LEMMA FtpInitially == FtpInit => FtpInv
<1> SUFFICES ASSUME FtpInit  PROVE FtpInv
  OBVIOUS
<1>1. FtpTypeOK
  BY DEF FtpInit, FtpTypeOK, Statuses, HostStatuses
<1>2. \A p \in Procs : FtpShaped(p) /\ ftpCall[p] = None
  BY DEF FtpInit, FtpShaped, Doing
<1> QED  BY <1>1, <1>2 DEF FtpInv

---------------------------------------------------------------------------
(* The invariant, action by action. *)

(* A check has read what its operation relies on. *)
LEMMA FtpDecideKeeps ==
  ASSUME FtpInv, NEW p \in Procs, NEW op \in FtpOperations,
         NEW u \in Logins \cup {None}, NEW limit \in DiskLimits \cup {None}, FtpDecide(p, op, u, limit),
         op \in {"create", "update", "delete"} => u \in Logins,
         op \in {"create", "disk limit"} => limit \in DiskLimits,
         op = "create" => HostOk(u) /\ limit = diskLimit,
         op = "update" => login[u] = "ok"
  PROVE  FtpInv'
<1> DEFINE call == [op |-> op, login |-> u, limit |-> limit, selected |-> FALSE, members |-> {}]
<1>1. /\ call \in FtpCalls /\ ftpCall' = [ftpCall EXCEPT ![p] = call] /\ misread' = misread \ {p}
      /\ UNCHANGED <<login, members, quota, ownName, diskLimit, alias>>
  BY DEF FtpDecide, FtpCalls
<1>2. /\ FtpTypeOK' /\ ftpCall'[p] = call
      /\ \A q \in Procs : q # p => ftpCall'[q] = ftpCall[q]
  BY <1>1 DEF FtpInv, FtpTypeOK
<1>3. FtpShaped(p)' /\ FtpRelied(p)'
  <2>1. ftpCall'[p].op = op /\ ftpCall'[p].login = u /\ ftpCall'[p].limit = limit /\ ~ftpCall'[p].selected
    <3>1. call.op = op /\ call.login = u /\ call.limit = limit /\ ~call.selected
      OBVIOUS
    <3> QED  BY <1>2, <3>1
  <2>2. \A o : Doing(p, o)' => o = op
    BY <2>1 DEF Doing
  <2>3. FtpShaped(p)'
    BY <2>1, <2>2 DEF FtpShaped
  <2>4. FtpRelied(p)'
    BY <1>1, <2>1, <2>2 DEF FtpRelied, HostOk
  <2> QED  BY <2>3, <2>4
<1>4. ASSUME NEW q \in Procs, q # p
      PROVE  FtpShaped(q)' /\ (q \notin misread' /\ ftpCall'[q] # None => FtpRelied(q)')
  BY <1>1, <1>2, <1>4 DEF FtpInv, FtpShaped, FtpRelied, Doing, HostOk
<1> QED  BY <1>2, <1>3, <1>4 DEF FtpInv

LEMMA FtpChecksKeep ==
  ASSUME FtpInv, NEW p \in Procs,
         \/ \E u \in Logins : FtpCreateCheck(p, u) \/ FtpUpdateCheck(p, u) \/ FtpDeleteCheck(p, u)
         \/ AliasDeleteCheck(p)
         \/ \E limit \in DiskLimits : DiskLimitCheck(p, limit)
  PROVE  FtpInv'
<1>1. ASSUME NEW u \in Logins, FtpCreateCheck(p, u)  PROVE FtpInv'
  BY <1>1, FtpDecideKeeps DEF FtpCreateCheck, FtpOperations, FtpInv, FtpTypeOK
<1>2. ASSUME NEW u \in Logins, FtpUpdateCheck(p, u)  PROVE FtpInv'
  BY <1>2, FtpDecideKeeps DEF FtpUpdateCheck, FtpOperations
<1>3. ASSUME NEW u \in Logins, FtpDeleteCheck(p, u)  PROVE FtpInv'
  BY <1>3, FtpDecideKeeps DEF FtpDeleteCheck, FtpOperations
<1>4. CASE AliasDeleteCheck(p)
  BY <1>4, FtpDecideKeeps DEF AliasDeleteCheck, FtpOperations
<1>5. ASSUME NEW limit \in DiskLimits, DiskLimitCheck(p, limit)  PROVE FtpInv'
  BY <1>5, FtpDecideKeeps DEF DiskLimitCheck, FtpOperations
<1> QED  BY <1>1, <1>2, <1>3, <1>4, <1>5

LEMMA FtpSelectKeeps ==
  ASSUME FtpInv, NEW p \in Procs, NEW op \in {"delete", "alias delete"}, FtpSelect(p, op)
  PROVE  FtpInv'
<1>1. /\ Doing(p, op) /\ misread' = misread \ {p}
      /\ ftpCall' = [ftpCall EXCEPT ![p].selected = TRUE, ![p].members = members]
      /\ UNCHANGED <<login, members, quota, ownName, diskLimit, alias>>
  BY DEF FtpSelect
<1>2. ftpCall[p] \in FtpCalls /\ ftpCall[p].op = op
  BY <1>1 DEF FtpInv, FtpTypeOK, Doing
<1>3. /\ ftpCall'[p] \in FtpCalls /\ ftpCall'[p].op = op
      /\ ftpCall'[p].login = ftpCall[p].login /\ ftpCall'[p].members = members
      /\ \A q \in Procs : q # p => ftpCall'[q] = ftpCall[q]
  BY <1>1, <1>2 DEF FtpInv, FtpTypeOK, FtpCalls
<1>4. FtpTypeOK'
  BY <1>1, <1>3 DEF FtpInv, FtpTypeOK
<1>5. FtpShaped(p)' /\ FtpRelied(p)'
  BY <1>1, <1>3 DEF FtpInv, FtpShaped, FtpRelied, Doing
<1>6. ASSUME NEW q \in Procs, q # p
      PROVE  FtpShaped(q)' /\ (q \notin misread' /\ ftpCall'[q] # None => FtpRelied(q)')
  BY <1>1, <1>3, <1>6 DEF FtpInv, FtpShaped, FtpRelied, Doing, HostOk
<1> QED  BY <1>4, <1>5, <1>6 DEF FtpInv

(* After a commit nobody but the one that ends relies on anything. *)
LEMMA FtpCommitKeeps ==
  ASSUME FtpInv, NEW p \in Procs, FtpCommit(p), UNCHANGED ownName,
         login' \in [Logins -> Statuses], members' \subseteq Logins, quota' \in DiskLimits \cup {None},
         diskLimit' \in DiskLimits, alias' \in HostStatuses
  PROVE  FtpInv'
<1>1. /\ ftpCall' = [ftpCall EXCEPT ![p] = None]
      /\ misread' = {q \in Procs \ {p} : ftpCall[q] # None}
  BY DEF FtpCommit
<1>2. FtpTypeOK'
  BY <1>1 DEF FtpInv, FtpTypeOK
<1>3. \A q \in Procs : ftpCall'[q] = IF q = p THEN None ELSE ftpCall[q]
  BY <1>1 DEF FtpInv, FtpTypeOK
<1>4. \A q \in Procs : FtpShaped(q)'
  BY <1>3 DEF FtpInv, FtpShaped, Doing
<1>5. \A q \in Procs \ misread' : ftpCall'[q] = None
  BY <1>1, <1>3
<1> QED  BY <1>2, <1>4, <1>5 DEF FtpInv

LEMMA FtpEndKeeps ==
  ASSUME FtpInv, NEW p \in Procs, ftpCall' = [ftpCall EXCEPT ![p] = None],
         UNCHANGED <<login, members, quota, ownName, diskLimit, alias, misread>>
  PROVE  FtpInv'
<1>1. FtpTypeOK'
  BY DEF FtpInv, FtpTypeOK
<1>2. \A q \in Procs : ftpCall'[q] = IF q = p THEN None ELSE ftpCall[q]
  BY DEF FtpInv, FtpTypeOK
<1>3. ASSUME NEW q \in Procs
      PROVE  FtpShaped(q)' /\ (q \notin misread' /\ ftpCall'[q] # None => FtpRelied(q)')
  BY <1>2 DEF FtpInv, FtpShaped, FtpRelied, Doing, HostOk
<1> QED  BY <1>1, <1>3 DEF FtpInv

(* A call in progress has the shape of its operation. *)
LEMMA FtpCalling ==
  ASSUME FtpInv, NEW p \in Procs, NEW op \in FtpOperations, Doing(p, op)
  PROVE  /\ ftpCall[p] # None /\ ftpCall[p] \in FtpCalls
         /\ op \in {"create", "update", "delete"} => ftpCall[p].login \in Logins
         /\ op \in {"create", "disk limit"} => ftpCall[p].limit \in DiskLimits
  BY DEF FtpInv, FtpTypeOK, Doing, FtpShaped

LEMMA FtpCommitsKeep ==
  ASSUME FtpInv, NEW p \in Procs,
         \/ FtpCreateCommit(p) \/ FtpUpdateCommit(p) \/ FtpDeleteCommit(p)
         \/ AliasDeleteCommit(p) \/ DiskLimitCommit(p)
  PROVE  FtpInv'
<1>1. CASE FtpCreateCommit(p)
  <2>1. ftpCall[p].login \in Logins /\ ftpCall[p].limit \in DiskLimits
    BY <1>1, FtpCalling DEF FtpCreateCommit, FtpOperations
  <2>2. \/ FtpCommit(p) /\ login' \in [Logins -> Statuses] /\ members' \subseteq Logins /\ quota' \in DiskLimits \cup {None}
        \/ ftpCall' = [ftpCall EXCEPT ![p] = None] /\ UNCHANGED <<login, members, quota, misread>>
    BY <1>1, <2>1 DEF FtpCreateCommit, FtpInv, FtpTypeOK, Statuses, LiveLogins
  <2>3. UNCHANGED <<ownName, diskLimit, alias>>
    BY <1>1 DEF FtpCreateCommit
  <2> QED  BY <2>2, <2>3, FtpCommitKeeps, FtpEndKeeps DEF FtpInv, FtpTypeOK
<1>2. CASE FtpUpdateCommit(p)
  <2>1. ftpCall[p].login \in Logins
    BY <1>2, FtpCalling DEF FtpUpdateCommit, FtpOperations
  <2>2. FtpCommit(p) /\ login' \in [Logins -> Statuses] /\ UNCHANGED <<members, quota, ownName, diskLimit, alias>>
    BY <1>2, <2>1 DEF FtpUpdateCommit, FtpInv, FtpTypeOK, Statuses, LiveLogins
  <2> QED  BY <2>2, FtpCommitKeeps DEF FtpInv, FtpTypeOK
<1>3. CASE FtpDeleteCommit(p)
  <2>1. ftpCall[p].login \in Logins /\ ftpCall[p].members \subseteq Logins
    BY <1>3, FtpCalling DEF FtpDeleteCommit, FtpOperations, Selected, FtpCalls
  <2>2. FtpCommit(p) /\ login' \in [Logins -> Statuses] /\ UNCHANGED <<ownName, diskLimit, alias>>
    BY <1>3, <2>1 DEF FtpDeleteCommit, FtpInv, FtpTypeOK, Statuses, LiveLogins
  <2>3. members' \subseteq Logins /\ quota' \in DiskLimits \cup {None}
    BY <1>3, <2>1 DEF FtpDeleteCommit, RemoveMembers, FtpInv, FtpTypeOK
  <2> QED  BY <2>2, <2>3, FtpCommitKeeps DEF FtpInv, FtpTypeOK
<1>4. CASE AliasDeleteCommit(p)
  <2>1. ftpCall[p].members \subseteq Logins
    BY <1>4, FtpCalling DEF AliasDeleteCommit, FtpOperations, Selected, FtpCalls
  <2>2. FtpCommit(p) /\ login' \in [Logins -> Statuses] /\ alias' \in HostStatuses
        /\ UNCHANGED <<ownName, diskLimit>>
    BY <1>4 DEF AliasDeleteCommit, FtpInv, FtpTypeOK, Statuses, HostStatuses
  <2>3. members' \subseteq Logins /\ quota' \in DiskLimits \cup {None}
    BY <1>4, <2>1 DEF AliasDeleteCommit, RemoveMembers, FtpInv, FtpTypeOK
  <2> QED  BY <2>2, <2>3, FtpCommitKeeps DEF FtpInv, FtpTypeOK
<1>5. CASE DiskLimitCommit(p)
  <2>1. ftpCall[p].limit \in DiskLimits
    BY <1>5, FtpCalling DEF DiskLimitCommit, FtpOperations
  <2>2. /\ FtpCommit(p) /\ diskLimit' \in DiskLimits /\ quota' \in DiskLimits \cup {None}
        /\ UNCHANGED <<login, members, ownName, alias>>
    BY <1>5, <2>1 DEF DiskLimitCommit, FtpInv, FtpTypeOK
  <2> QED  BY <2>2, FtpCommitKeeps DEF FtpInv, FtpTypeOK
<1> QED  BY <1>1, <1>2, <1>3, <1>4, <1>5

LEMMA FtpSetStateKeeps ==
  ASSUME FtpInv, NEW p \in Procs, FtpSetState(p)
  PROVE  FtpInv'
<1>1. login' \in [Logins -> Statuses] /\ alias' \in HostStatuses
  BY DEF FtpSetState, FtpInv, FtpTypeOK, Statuses, LiveLogins, HostStatuses
<1> QED  BY <1>1, FtpCommitKeeps DEF FtpSetState, FtpInv, FtpTypeOK

(* What the daemon writes is a status of a live user, or nothing is left.  *)
LEMMA FtpEnds ==
  ASSUME NEW status, NEW removed, NEW end \in FtpOutcomes(status, removed)
  PROVE  /\ end \in {"ok", "error", removed}
         /\ status \in {"toadd", "tochange", "switched", "todelete"}
         /\ status # "todelete" => end \in {"ok", "error"}
         /\ status = "todelete" => end \in {removed, "error"}
  BY DEF FtpOutcomes

(* The daemon leaves alone what is ok, and the alias that is. *)
LEMMA FtpDaemonKeeps ==
  ASSUME FtpInv, FtpDaemon
  PROVE  FtpInv'
<1>1. /\ login' \in [Logins -> Statuses] /\ alias' \in HostStatuses
      /\ \A u \in Logins : login[u] = "ok" => login'[u] = "ok"
      /\ alias = "ok" => alias' = "ok"
      /\ UNCHANGED <<members, quota, ownName, diskLimit, ftpCall, misread>>
  <2>1. ASSUME NEW u \in Logins, NEW end \in FtpOutcomes(login[u], "absent"), login' = [login EXCEPT ![u] = end]
        PROVE  /\ login' \in [Logins -> Statuses]
               /\ \A v \in Logins : login[v] = "ok" => login'[v] = "ok"
    <3>1. end \in Statuses /\ login[u] # "ok"
      BY <2>1, FtpEnds DEF Statuses, LiveLogins
    <3> QED  BY <2>1, <3>1 DEF FtpInv, FtpTypeOK
  <2>2. ASSUME alias' \in FtpOutcomes(alias, "gone")
        PROVE  alias' \in HostStatuses /\ alias # "ok"
    BY <2>2, FtpEnds DEF HostStatuses
  <2> QED  BY <2>1, <2>2 DEF FtpDaemon, FtpInv, FtpTypeOK
<1>2. FtpTypeOK' /\ \A q \in Procs : FtpShaped(q)'
  BY <1>1 DEF FtpInv, FtpTypeOK, FtpShaped, Doing
<1>3. ASSUME NEW q \in Procs \ misread', ftpCall'[q] # None
      PROVE  FtpRelied(q)'
  BY <1>1, <1>3 DEF FtpInv, FtpShaped, FtpRelied, Doing, HostOk
<1> QED  BY <1>2, <1>3 DEF FtpInv

LEMMA FtpStepKeeps == FtpInv /\ [FtpNext]_ftpVars => FtpInv'
<1> SUFFICES ASSUME FtpInv, [FtpNext]_ftpVars  PROVE FtpInv'
  OBVIOUS
<1>1. ASSUME NEW p \in Procs, FtpStep(p)  PROVE FtpInv'
  <2>1. CASE FtpRollback(p)
    BY <2>1, FtpEndKeeps DEF FtpRollback
  <2> QED  BY <1>1, <2>1, FtpChecksKeep, FtpCommitsKeep, FtpSelectKeeps, FtpSetStateKeeps DEF FtpStep
<1>2. CASE UNCHANGED ftpVars
  BY <1>2 DEF ftpVars, FtpInv, FtpTypeOK, FtpShaped, FtpRelied, Doing, HostOk
<1> QED  BY <1>1, <1>2, FtpDaemonKeeps DEF FtpNext

LEMMA FtpInvariant == FtpSpec => []FtpInv
  BY FtpInitially, FtpStepKeeps, PTL DEF FtpSpec

---------------------------------------------------------------------------
(* What a step makes of the tables. *)

FtpTables ==
    /\ \A u \in Logins : Resurfaces(u) \/ ((IsMember(u) => IsMember(u)') /\ (Hosted(u) => Hosted(u)'))
    /\ quota \in {None, diskLimit} => quota' \in {None, diskLimit'} \/ (ownName /\ diskLimit' # diskLimit)

(* The step is one of a transaction another has overtaken. *)
FtpOvertaken == \E p \in misread : ftpCall[p] # None /\ ftpCall'[p] = None

LEMMA FtpSame ==
  ASSUME UNCHANGED <<login, members, quota, diskLimit, alias>>
  PROVE  FtpTables
  BY DEF FtpTables, Hosted, IsMember

(* The transaction ends, and it is overtaken or finds what it relies on. *)
LEMMA FtpEnding ==
  ASSUME FtpInv, NEW p \in Procs, ftpCall[p] # None, FtpCommit(p)
  PROVE  FtpOvertaken \/ FtpRelied(p)
  BY DEF FtpInv, FtpTypeOK, FtpCommit, FtpOvertaken

LEMMA CreateTables ==
  ASSUME FtpInv, NEW p \in Procs, FtpCreateCommit(p)
  PROVE  FtpOvertaken \/ FtpTables
<1> DEFINE u == ftpCall[p].login
<1>1. /\ Doing(p, "create") /\ ftpCall[p] # None /\ u \in Logins /\ ftpCall[p].limit \in DiskLimits
      /\ UNCHANGED <<ownName, diskLimit, alias>>
  BY FtpCalling DEF FtpCreateCommit, FtpOperations
<1>2. CASE UNCHANGED <<login, members, quota>>
  BY <1>1, <1>2, FtpSame
<1>3. ASSUME login[u] = "absent", login' = [login EXCEPT ![u] = "toadd"], members' = members \cup {u},
             quota' = IF quota = None THEN ftpCall[p].limit ELSE quota, FtpCommit(p)
      PROVE  FtpOvertaken \/ FtpTables
  <2>1. SUFFICES ASSUME FtpRelied(p)  PROVE FtpTables
    BY <1>1, <1>3, FtpEnding
  <2>2. HostOk(u) /\ ftpCall[p].limit = diskLimit
    BY <1>1, <2>1 DEF FtpRelied
  <2>3. \A v \in Logins : login'[v] = IF v = u THEN "toadd" ELSE login[v]
    BY <1>3 DEF FtpInv, FtpTypeOK
  <2> HIDE DEF u
  <2>4. \A v \in Logins : IsMember(v) => IsMember(v)'
    BY <1>3, <2>3 DEF IsMember, LiveLogins
  <2>5. \A v \in Logins : Hosted(v) => Hosted(v)'
    BY <1>1, <2>2, <2>3 DEF Hosted, HostOk, LiveLogins
  <2> QED  BY <1>1, <1>3, <2>2, <2>4, <2>5 DEF FtpTables
<1> QED  BY <1>2, <1>3 DEF FtpCreateCommit

LEMMA UpdateTables ==
  ASSUME FtpInv, NEW p \in Procs, FtpUpdateCommit(p)
  PROVE  FtpOvertaken \/ FtpTables
<1> DEFINE u == ftpCall[p].login
<1>1. /\ Doing(p, "update") /\ ftpCall[p] # None /\ u \in Logins /\ FtpCommit(p)
      /\ UNCHANGED <<members, quota, diskLimit, alias>>
      /\ login' = [login EXCEPT ![u] = IF @ = "absent" THEN @ ELSE "tochange"]
  BY FtpCalling DEF FtpUpdateCommit, FtpOperations
<1>2. SUFFICES ASSUME FtpRelied(p)  PROVE FtpTables
  BY <1>1, FtpEnding
<1>3. login[u] = "ok"
  BY <1>1, <1>2 DEF FtpRelied
<1>4. \A v \in Logins : login'[v] = login[v] \/ (login[v] = "ok" /\ login'[v] = "tochange")
  BY <1>1, <1>3 DEF FtpInv, FtpTypeOK
<1> QED  BY <1>1, <1>4 DEF FtpTables, IsMember, Hosted, LiveLogins

(* A list that is still the list of members loses those who go, and the    *)
(* quota goes with the last of them.                                       *)
LEMMA FtpRemoved ==
  ASSUME FtpInv, NEW gone, RemoveMembers(members, gone)
  PROVE  members' = members \ gone /\ (quota' = quota \/ quota' = None)
  BY DEF RemoveMembers

LEMMA DeleteTables ==
  ASSUME FtpInv, NEW p \in Procs, FtpDeleteCommit(p)
  PROVE  FtpOvertaken \/ FtpTables
<1> DEFINE u == ftpCall[p].login
<1>1. /\ Doing(p, "delete") /\ ftpCall[p] # None /\ ftpCall[p].selected /\ u \in Logins /\ FtpCommit(p)
      /\ UNCHANGED <<diskLimit, alias>>
      /\ login' = [login EXCEPT ![u] = IF @ = "absent" THEN @ ELSE "todelete"]
  BY FtpCalling DEF FtpDeleteCommit, FtpOperations, Selected
<1>2. SUFFICES ASSUME FtpRelied(p)  PROVE FtpTables
  BY <1>1, FtpEnding
<1>3. ftpCall[p].members = members
  BY <1>1, <1>2 DEF FtpRelied
<1>4. \A v \in Logins : login'[v] = IF v = u /\ login[v] # "absent" THEN "todelete" ELSE login[v]
  BY <1>1 DEF FtpInv, FtpTypeOK
<1>5. members' = members \ {u} /\ (quota' = quota \/ quota' = None)
  BY <1>3, FtpRemoved DEF FtpDeleteCommit
<1> HIDE DEF u
<1>6. \A v \in Logins : IsMember(v) => IsMember(v)'
  BY <1>4, <1>5 DEF IsMember, LiveLogins
<1>7. \A v \in Logins : Hosted(v) => Hosted(v)'
  BY <1>1, <1>4 DEF Hosted, LiveLogins
<1> QED  BY <1>1, <1>5, <1>6, <1>7 DEF FtpTables

LEMMA AliasTables ==
  ASSUME FtpInv, NEW p \in Procs, AliasDeleteCommit(p)
  PROVE  FtpOvertaken \/ FtpTables
<1>1. /\ ftpCall[p] # None /\ ftpCall[p].selected /\ FtpCommit(p) /\ diskLimit' = diskLimit
      /\ login' = [u \in Logins |-> IF u \in OnAlias /\ login[u] # "absent" THEN "todelete" ELSE login[u]]
  BY DEF AliasDeleteCommit, Selected, Doing
<1>2. SUFFICES ASSUME FtpRelied(p)  PROVE FtpTables
  BY <1>1, FtpEnding
<1>3. ftpCall[p].members = members
  BY <1>1, <1>2 DEF FtpRelied
<1>4. members' = members \ OnAlias /\ (quota' = quota \/ quota' = None)
  BY <1>3, FtpRemoved DEF AliasDeleteCommit
<1>5. \A u \in Logins : IsMember(u) => IsMember(u)'
  BY <1>1, <1>4 DEF IsMember, LiveLogins
<1>6. \A u \in Logins : Hosted(u) => Hosted(u)'
  BY <1>1 DEF Hosted, LiveLogins
<1> QED  BY <1>1, <1>4, <1>5, <1>6 DEF FtpTables

LEMMA LimitTables ==
  ASSUME FtpInv, NEW p \in Procs, DiskLimitCommit(p)
  PROVE  FtpTables
<1>1. /\ UNCHANGED <<login, members, ownName, alias>> /\ ownName \in BOOLEAN
      /\ quota' = IF ownName THEN quota ELSE diskLimit'
  BY DEF DiskLimitCommit, FtpInv, FtpTypeOK
<1> QED  BY <1>1 DEF FtpTables, IsMember, Hosted

(* What customerSetState writes is the status of a live row, and what was  *)
(* to be deleted resurfaces by it.                                         *)
LEMMA StateTables ==
  ASSUME FtpInv, NEW p \in Procs, FtpSetState(p)
  PROVE  FtpTables
<1>1. /\ \A u \in Logins : login'[u] = IF login[u] = "absent" THEN "absent" ELSE "switched"
      /\ alias' = IF alias = "gone" THEN "gone" ELSE "switched"
      /\ UNCHANGED <<members, quota, diskLimit>>
  BY DEF FtpSetState
<1>2. ASSUME NEW u \in Logins, ~Resurfaces(u)
      PROVE  login'[u] \in LiveLogins <=> login[u] \in LiveLogins
  BY <1>1, <1>2 DEF Resurfaces, FtpInv, FtpTypeOK, Statuses, LiveLogins
<1> QED  BY <1>1, <1>2 DEF FtpTables, IsMember, Hosted

(* What the daemon ends well is live if it was; what it fails to delete    *)
(* resurfaces.                                                             *)
LEMMA DaemonTables ==
  ASSUME FtpInv, FtpDaemon
  PROVE  FtpTables
<1>1. UNCHANGED <<members, quota, diskLimit>>
  BY DEF FtpDaemon
<1>2. ASSUME NEW u \in Logins, NEW end \in FtpOutcomes(login[u], "absent"),
             login' = [login EXCEPT ![u] = end], alias' = alias
      PROVE  FtpTables
  <2>1. \A v \in Logins : v # u => login'[v] = login[v]
    BY <1>2
  <2>2. login'[u] = end
    BY <1>2 DEF FtpInv, FtpTypeOK
  <2>3. Resurfaces(u) \/ (login'[u] \in LiveLogins <=> login[u] \in LiveLogins)
    BY <1>2, <2>2, FtpEnds DEF Resurfaces, LiveLogins
  <2> QED  BY <1>1, <1>2, <2>1, <2>3 DEF FtpTables, IsMember, Hosted
<1>3. ASSUME alias' \in FtpOutcomes(alias, "gone"), login' = login
      PROVE  FtpTables
  <2>1. alias \notin {"todelete", "gone"} => alias' \notin {"todelete", "gone"}
    BY <1>3, FtpEnds
  <2> QED  BY <1>1, <1>3, <2>1 DEF FtpTables, IsMember, Hosted
<1> QED  BY <1>2, <1>3 DEF FtpDaemon

(* The list of members, the hosts, the quota and the users go together, or *)
(* have been parted by a transaction that another had overtaken, or for a  *)
(* user whose deletion failed or was written over by customerSetState -    *)
(* for any number of users, processes and limits.                          *)
THEOREM TablesPartOverlap == FtpSpec => TablesPartByOverlap
<1>1. ASSUME FtpInv, [FtpNext]_ftpVars
      PROVE  FtpOvertaken \/ FtpTables
  <2>1. CASE UNCHANGED <<login, members, quota, diskLimit, alias>>
    BY <2>1, FtpSame
  <2>2. ASSUME NEW p \in Procs, FtpStep(p)
        PROVE  FtpOvertaken \/ FtpTables
    BY <1>1, <2>1, <2>2, CreateTables, UpdateTables, DeleteTables, AliasTables, LimitTables, StateTables
       DEF FtpStep, FtpCreateCheck, FtpUpdateCheck, FtpDeleteCheck, AliasDeleteCheck, DiskLimitCheck, FtpDecide,
           FtpSelect, FtpRollback
  <2> QED  BY <1>1, <2>1, <2>2, DaemonTables DEF FtpNext, ftpVars
<1>2. FtpOvertaken \/ FtpTables =>
         (\E p \in misread : ftpCall[p] # None /\ ftpCall'[p] = None) \/
         /\ \A u \in Logins : Resurfaces(u) \/ ((IsMember(u) => IsMember(u)') /\ (Hosted(u) => Hosted(u)'))
         /\ quota \in {None, diskLimit} => quota' \in {None, diskLimit'} \/ (ownName /\ diskLimit' # diskLimit)
  BY DEF FtpOvertaken, FtpTables
<1> QED  BY FtpInvariant, <1>1, <1>2, PTL DEF FtpSpec, TablesPartByOverlap

(* Every variable keeps its shape. *)
THEOREM FtpTypeCorrect == FtpSpec => []FtpTypeOK
<1>1. FtpInv => FtpTypeOK
  BY DEF FtpInv
<1> QED  BY FtpInvariant, <1>1, PTL

---------------------------------------------------------------------------
(***************************************************************************)
(* For any number of records, processes and contents: rows, zone and       *)
(* feature come apart only where calls overlap.                            *)
(*                                                                         *)
(* A mutation relies on what it has read: that its record is ok, that what *)
(* is left is on its way out, that the customer has the feature.  This     *)
(* still holds of whatever no other has changed since, because whoever     *)
(* changes a row or the feature marks it with everyone else.               *)
(***************************************************************************)

(* What the call of p has read and no other has changed. *)
DnsRelied(p) ==
    dnsCall[p] # None =>
        /\ dnsCall[p].op \in {"update", "delete"} => dnsCall[p].id \in Records
        /\ dnsCall[p].op \in {"create", "update"} => dnsCall[p].content \in Contents
        /\ dnsCall[p].op = "update" /\ dnsCall[p].id \notin dnsCall[p].since
               => record[dnsCall[p].id].status = "ok"
        /\ dnsCall[p].op = "withdraw"
               => \A i \in Records \ dnsCall[p].since : record[i].status \in {"todelete", "absent"}
        /\ dnsCall[p].op = "create" /\ "feature" \notin dnsCall[p].since => customDns

DnsInv == DnsTypeOK /\ \A p \in Procs : DnsRelied(p)

LEMMA DnsInitially == DnsInit => DnsInv
  BY DEF DnsInit, DnsInv, DnsTypeOK, DnsRelied

(* A row is a row by its status. *)
LEMMA DnsRowStatus ==
  ASSUME DnsTypeOK, NEW i \in Records
  PROVE  /\ record[i] \in DnsRows \cup {NoRecord}
         /\ HasRow(i) <=> record[i] \in DnsRows
         /\ HasRow(i) <=> record[i].status # "absent"
  BY DEF DnsTypeOK, HasRow, DnsRows, NoRecord

(* The step leaves alone what it does not mark. *)
DnsLeaves(changed) ==
    /\ \A i \in Records \ changed : record'[i] = record[i]
    /\ "feature" \notin changed => customDns' = customDns

(* Whoever marks what it changes leaves the others what they rely on. *)
LEMMA DnsMarkingKeeps ==
  ASSUME DnsInv, NEW calls \in [Procs -> DnsCalls \cup {None}], NEW changed \in SUBSET (Records \cup {"feature"}),
         \A q \in Procs : calls[q] = dnsCall[q] \/ calls[q] = None,
         dnsCall' = Outdates(calls, changed), DnsLeaves(changed)
  PROVE  /\ dnsCall' \in [Procs -> DnsCalls \cup {None}]
         /\ \A q \in Procs : DnsRelied(q)'
<1>1. \A q \in Procs : calls[q] # None =>
          /\ calls[q] \in DnsCalls /\ [calls[q] EXCEPT !.since = @ \cup changed] \in DnsCalls
          /\ dnsCall'[q] = [calls[q] EXCEPT !.since = @ \cup changed]
  BY DEF Outdates, DnsCalls
<1>2. dnsCall' \in [Procs -> DnsCalls \cup {None}]
  BY <1>1 DEF Outdates
<1>3. ASSUME NEW q \in Procs, dnsCall'[q] # None
      PROVE  /\ dnsCall[q] # None /\ dnsCall[q] \in DnsCalls
             /\ dnsCall'[q].op = dnsCall[q].op /\ dnsCall'[q].id = dnsCall[q].id
             /\ dnsCall'[q].content = dnsCall[q].content
             /\ dnsCall'[q].since = dnsCall[q].since \cup changed
  <2>1. calls[q] # None
    BY <1>3 DEF Outdates
  <2>2. calls[q] = dnsCall[q] /\ calls[q] \in DnsCalls /\ dnsCall'[q] = [calls[q] EXCEPT !.since = @ \cup changed]
    BY <1>1, <2>1
  <2> QED  BY <2>1, <2>2 DEF DnsCalls
<1>4. ASSUME NEW q \in Procs  PROVE DnsRelied(q)'
  <2>1. SUFFICES ASSUME dnsCall'[q] # None
        PROVE  /\ dnsCall'[q].op \in {"update", "delete"} => dnsCall'[q].id \in Records
               /\ dnsCall'[q].op \in {"create", "update"} => dnsCall'[q].content \in Contents
               /\ dnsCall'[q].op = "update" /\ dnsCall'[q].id \notin dnsCall'[q].since
                      => record'[dnsCall'[q].id].status = "ok"
               /\ dnsCall'[q].op = "withdraw"
                      => \A i \in Records \ dnsCall'[q].since : record'[i].status \in {"todelete", "absent"}
               /\ dnsCall'[q].op = "create" /\ "feature" \notin dnsCall'[q].since => customDns'
    BY DEF DnsRelied
  <2> QED  BY <1>3, <2>1 DEF DnsInv, DnsRelied, DnsLeaves
<1> QED  BY <1>2, <1>4

(* The call that ends leaves the others as they are. *)
LEMMA DnsEndingKeeps ==
  ASSUME DnsInv, NEW p \in Procs, NEW changed \in SUBSET (Records \cup {"feature"}), Ends(p, changed), DnsLeaves(changed)
  PROVE  /\ dnsCall' \in [Procs -> DnsCalls \cup {None}]
         /\ \A q \in Procs : DnsRelied(q)'
<1> DEFINE calls == [dnsCall EXCEPT ![p] = None]
<1>1. /\ calls \in [Procs -> DnsCalls \cup {None}]
      /\ \A q \in Procs : calls[q] = dnsCall[q] \/ calls[q] = None
  BY DEF DnsInv, DnsTypeOK
<1>2. dnsCall' = Outdates(calls, changed)
  BY DEF Ends
<1> HIDE DEF calls
<1> QED  BY <1>1, <1>2, DnsMarkingKeeps

(* A check adds a call that relies on what it has just read. *)
LEMMA DnsAskingKeeps ==
  ASSUME DnsInv, NEW p \in Procs, NEW op \in {"create", "update", "delete", "withdraw", "grant"},
         NEW i \in Records \cup {None}, NEW v \in Contents \cup {None}, Asks(p, op, i, v),
         op \in {"update", "delete"} => i \in Records,
         op \in {"create", "update"} => v \in Contents,
         op = "update" => record[i].status = "ok",
         op = "withdraw" => \A j \in Records : record[j].status \in {"todelete", "absent"},
         op = "create" => customDns
  PROVE  DnsInv'
<1> DEFINE call == [op |-> op, id |-> i, content |-> v, since |-> {}]
<1>1. call \in DnsCalls /\ dnsCall' = [dnsCall EXCEPT ![p] = call]
  BY DEF Asks, DnsCalls
<1>2. UNCHANGED <<record, zone, customDns, newIds, building>>
  BY DEF Asks
<1>3. DnsTypeOK'
  BY <1>1, <1>2 DEF DnsInv, DnsTypeOK
<1>4. ASSUME NEW q \in Procs  PROVE DnsRelied(q)'
  <2>1. CASE q = p
    <3>1. dnsCall'[q] = call
      BY <1>1, <2>1 DEF DnsInv, DnsTypeOK
    <3> QED  BY <3>1, <1>2 DEF DnsRelied
  <2>2. CASE q # p
    <3>1. dnsCall'[q] = dnsCall[q]
      BY <1>1, <2>2 DEF DnsInv, DnsTypeOK
    <3> QED  BY <3>1, <1>2 DEF DnsInv, DnsRelied
  <2> QED  BY <2>1, <2>2
<1> QED  BY <1>3, <1>4 DEF DnsInv

---------------------------------------------------------------------------
(* The invariant, action by action. *)

LEMMA DnsChecksKeep ==
  ASSUME DnsInv, NEW p \in Procs,
         \/ \E v \in Contents : DnsCreateCheck(p, v)
         \/ \E i \in Records, v \in Contents : DnsUpdateCheck(p, i, v)
         \/ \E i \in Records : DnsDeleteCheck(p, i)
         \/ WithdrawDnsCheck(p) \/ GrantDnsCheck(p)
  PROVE  DnsInv'
<1>1. ASSUME NEW v \in Contents, DnsCreateCheck(p, v)  PROVE DnsInv'
  BY <1>1, DnsAskingKeeps DEF DnsCreateCheck
<1>2. ASSUME NEW i \in Records, NEW v \in Contents, DnsUpdateCheck(p, i, v)  PROVE DnsInv'
  BY <1>2, DnsAskingKeeps DEF DnsUpdateCheck
<1>3. ASSUME NEW i \in Records, DnsDeleteCheck(p, i)  PROVE DnsInv'
  BY <1>3, DnsAskingKeeps DEF DnsDeleteCheck
<1>4. CASE WithdrawDnsCheck(p)
  BY <1>4, DnsAskingKeeps DEF WithdrawDnsCheck
<1>5. CASE GrantDnsCheck(p)
  BY <1>5, DnsAskingKeeps DEF GrantDnsCheck
<1> QED  BY <1>1, <1>2, <1>3, <1>4, <1>5

(* A decided call, by its record. *)
LEMMA DnsDecidedCall ==
  ASSUME DnsInv, NEW p \in Procs, NEW op \in {"create", "update", "delete", "withdraw", "grant"}, Decided(p, op)
  PROVE  /\ dnsCall[p] \in DnsCalls /\ dnsCall[p].op = op
         /\ op \in {"update", "delete"} => dnsCall[p].id \in Records
         /\ op \in {"create", "update"} => dnsCall[p].content \in Contents
  BY DEF DnsInv, DnsTypeOK, Decided, DnsRelied

LEMMA DnsCreateKeeps ==
  ASSUME DnsInv, NEW p \in Procs, DnsCreateCommit(p)
  PROVE  DnsInv'
<1> DEFINE v == dnsCall[p].content
<1>1. v \in Contents /\ UNCHANGED <<zone, customDns, building>>
  BY DnsDecidedCall DEF DnsCreateCommit
<1>2. ASSUME NEW i \in newIds, record' = [record EXCEPT ![i] = [status |-> "toadd", content |-> v]],
             newIds' = newIds \ {i}, Ends(p, {i})
      PROVE  DnsInv'
  <2>1. i \in Records
    BY DEF DnsInv, DnsTypeOK
  <2>2. record' \in [Records -> DnsRows \cup {NoRecord}] /\ newIds' \subseteq Records
    BY <1>1, <1>2 DEF DnsInv, DnsTypeOK, DnsRows
  <2>3. DnsLeaves({i})
    BY <1>1, <1>2 DEF DnsInv, DnsTypeOK, DnsLeaves
  <2> QED  BY <1>1, <1>2, <2>1, <2>2, <2>3, DnsEndingKeeps DEF DnsInv, DnsTypeOK
<1>3. ASSUME Ends(p, {}), UNCHANGED <<record, newIds>>
      PROVE  DnsInv'
  <2>1. DnsLeaves({})
    BY <1>1, <1>3 DEF DnsLeaves
  <2> QED  BY <1>1, <1>3, <2>1, DnsEndingKeeps DEF DnsInv, DnsTypeOK
<1> QED  BY <1>2, <1>3 DEF DnsCreateCommit

LEMMA DnsUpdateKeeps ==
  ASSUME DnsInv, NEW p \in Procs, DnsUpdateCommit(p)
  PROVE  DnsInv'
<1> DEFINE i == dnsCall[p].id
           v == dnsCall[p].content
<1>1. i \in Records /\ v \in Contents /\ UNCHANGED <<zone, customDns, newIds, building>>
  BY DnsDecidedCall DEF DnsUpdateCommit
<1>2. ASSUME record' = [record EXCEPT ![i] = [status |-> "tochange", content |-> v]], Ends(p, {i})
      PROVE  DnsInv'
  <2>1. record' \in [Records -> DnsRows \cup {NoRecord}] /\ DnsLeaves({i})
    BY <1>1, <1>2 DEF DnsInv, DnsTypeOK, DnsRows, DnsLeaves
  <2> QED  BY <1>1, <1>2, <2>1, DnsEndingKeeps DEF DnsInv, DnsTypeOK
<1>3. ASSUME Ends(p, {}), UNCHANGED record
      PROVE  DnsInv'
  <2>1. DnsLeaves({})
    BY <1>1, <1>3 DEF DnsLeaves
  <2> QED  BY <1>1, <1>3, <2>1, DnsEndingKeeps DEF DnsInv, DnsTypeOK
<1> QED  BY <1>2, <1>3 DEF DnsUpdateCommit

LEMMA DnsDeleteKeeps ==
  ASSUME DnsInv, NEW p \in Procs, DnsDeleteCommit(p)
  PROVE  DnsInv'
<1> DEFINE i == dnsCall[p].id
<1>1. i \in Records /\ Ends(p, {i}) /\ UNCHANGED <<zone, customDns, newIds, building>>
  BY DnsDecidedCall DEF DnsDeleteCommit
<1>2. record' = IF HasRow(i) THEN [record EXCEPT ![i].status = "todelete"] ELSE record
  BY DEF DnsDeleteCommit
<1>3. record' \in [Records -> DnsRows \cup {NoRecord}]
  BY <1>1, <1>2, DnsRowStatus DEF DnsInv, DnsTypeOK, DnsRows
<1>4. DnsLeaves({i})
  BY <1>1, <1>2 DEF DnsInv, DnsTypeOK, DnsLeaves
<1> QED  BY <1>1, <1>3, <1>4, DnsEndingKeeps DEF DnsInv, DnsTypeOK

LEMMA DnsWithdrawKeeps ==
  ASSUME DnsInv, NEW p \in Procs, WithdrawDnsCommit(p)
  PROVE  DnsInv'
<1> DEFINE rows == {i \in Records : HasRow(i)}
<1>1. Ends(p, rows \cup {"feature"}) /\ UNCHANGED <<zone, newIds, building>>
  BY DEF WithdrawDnsCommit
<1>2. /\ record' \in [Records -> DnsRows \cup {NoRecord}] /\ customDns' \in BOOLEAN
      /\ DnsLeaves(rows \cup {"feature"})
  BY DEF WithdrawDnsCommit, DnsLeaves, HasRow
<1> QED  BY <1>1, <1>2, DnsEndingKeeps DEF DnsInv, DnsTypeOK

LEMMA DnsGrantKeeps ==
  ASSUME DnsInv, NEW p \in Procs, GrantDnsCommit(p)
  PROVE  DnsInv'
<1>1. /\ Ends(p, {"feature"}) /\ customDns' = TRUE /\ UNCHANGED <<record, zone, newIds, building>>
      /\ DnsLeaves({"feature"})
  BY DEF GrantDnsCommit, DnsLeaves
<1> QED  BY <1>1, DnsEndingKeeps DEF DnsInv, DnsTypeOK

LEMMA DnsSetStateKeeps ==
  ASSUME DnsInv, NEW p \in Procs, DnsSetState(p)
  PROVE  DnsInv'
<1> DEFINE rows == {i \in Records : HasRow(i)}
<1>1. Ends(p, rows) /\ UNCHANGED <<zone, customDns, newIds, building>>
  BY DEF DnsSetState
<1>2. \A i \in Records : record'[i] \in DnsRows \cup {NoRecord}
  BY DnsRowStatus DEF DnsSetState, DnsInv, DnsTypeOK, DnsRows
<1>3. record' \in [Records -> DnsRows \cup {NoRecord}] /\ DnsLeaves(rows)
  BY <1>1, <1>2 DEF DnsSetState, DnsLeaves
<1> QED  BY <1>1, <1>3, DnsEndingKeeps DEF DnsInv, DnsTypeOK

LEMMA DnsRollbackKeeps ==
  ASSUME DnsInv, NEW p \in Procs, DnsRollback(p)
  PROVE  DnsInv'
<1>1. /\ dnsCall' = [dnsCall EXCEPT ![p] = None]
      /\ UNCHANGED <<record, zone, customDns, newIds, building>>
  BY DEF DnsRollback
<1>2. DnsTypeOK'
  BY <1>1 DEF DnsInv, DnsTypeOK
<1>3. \A q \in Procs : DnsRelied(q)'
  BY <1>1 DEF DnsInv, DnsTypeOK, DnsRelied
<1> QED  BY <1>2, <1>3 DEF DnsInv

LEMMA DnsTakeKeeps ==
  ASSUME DnsInv, NEW i \in Records, DnsDaemonTake(i)
  PROVE  DnsInv'
<1>1. building' = [id |-> i, row |-> record[i]] /\ UNCHANGED <<record, zone, customDns, newIds, dnsCall>>
  BY DEF DnsDaemonTake
<1>2. record[i] \in DnsRows
  BY DnsRowStatus DEF DnsInv, DnsDaemonTake
<1>3. DnsTypeOK'
  BY <1>1, <1>2 DEF DnsInv, DnsTypeOK
<1> QED  BY <1>1, <1>3 DEF DnsInv, DnsRelied

LEMMA DnsDoneKeeps ==
  ASSUME DnsInv, DnsDaemonDone
  PROVE  DnsInv'
<1> DEFINE i    == building.id
           gone == building.row.status = "todelete"
<1>1. /\ i \in Records /\ building.row \in DnsRows /\ building.row.content \in Contents
      /\ dnsCall' = Outdates(dnsCall, {i}) /\ building' = None /\ UNCHANGED <<customDns, newIds>>
  BY DEF DnsDaemonDone, DnsInv, DnsTypeOK, DnsRows
<1>2. \/ record' = record
      \/ HasRow(i) /\ record' = [record EXCEPT ![i].status = "error"]
      \/ HasRow(i) /\ record' = [record EXCEPT ![i].status = "ok"]
      \/ HasRow(i) /\ record' = [record EXCEPT ![i].status = "switched"]
      \/ record' = [record EXCEPT ![i] = NoRecord]
  BY DEF DnsDaemonDone
<1>3. record' \in [Records -> DnsRows \cup {NoRecord}]
  BY <1>1, <1>2, DnsRowStatus DEF DnsInv, DnsTypeOK, DnsRows
<1>4. zone' = zone \/ zone' = [zone EXCEPT ![i] = None] \/ zone' = [zone EXCEPT ![i] = building.row.content]
  BY DEF DnsDaemonDone
<1>5. zone' \in [Records -> Contents \cup {None}]
  BY <1>1, <1>4 DEF DnsInv, DnsTypeOK
<1>6. DnsLeaves({i})
  BY <1>1, <1>2 DEF DnsInv, DnsTypeOK, DnsLeaves
<1>7. /\ dnsCall' \in [Procs -> DnsCalls \cup {None}]
      /\ \A q \in Procs : DnsRelied(q)'
  BY <1>1, <1>6, DnsMarkingKeeps DEF DnsInv, DnsTypeOK
<1> QED  BY <1>1, <1>3, <1>5, <1>7 DEF DnsInv, DnsTypeOK

LEMMA DnsStepKeeps == DnsInv /\ [DnsNext]_dnsVars => DnsInv'
<1> SUFFICES ASSUME DnsInv, [DnsNext]_dnsVars  PROVE DnsInv'
  OBVIOUS
<1>1. ASSUME NEW p \in Procs, DnsStep(p)  PROVE DnsInv'
  BY <1>1, DnsChecksKeep, DnsCreateKeeps, DnsUpdateKeeps, DnsDeleteKeeps, DnsWithdrawKeeps, DnsGrantKeeps, DnsSetStateKeeps,
     DnsRollbackKeeps DEF DnsStep
<1>2. ASSUME NEW i \in Records, DnsDaemonTake(i)  PROVE DnsInv'
  BY <1>2, DnsTakeKeeps
<1>3. CASE DnsDaemonDone
  BY <1>3, DnsDoneKeeps
<1>4. CASE UNCHANGED dnsVars
  BY <1>4 DEF dnsVars, DnsInv, DnsTypeOK, DnsRelied
<1> QED  BY <1>1, <1>2, <1>3, <1>4 DEF DnsNext

(* An id that was never given has no row. *)
DnsFresh == \A i \in newIds : ~HasRow(i)

LEMMA DnsFreshStep ==
  ASSUME DnsInv, DnsFresh, [DnsNext]_dnsVars
  PROVE  DnsFresh'
<1>0. newIds \subseteq Records
  BY DEF DnsInv, DnsTypeOK
<1>1. ASSUME NEW p \in Procs, DnsCreateCommit(p)  PROVE DnsFresh'
  <2>1. UNCHANGED <<record, newIds>> \/
        \E i \in newIds : newIds' = newIds \ {i} /\ \A j \in Records \ {i} : record'[j] = record[j]
    BY <1>1 DEF DnsCreateCommit, DnsInv, DnsTypeOK
  <2> QED  BY <1>0, <2>1 DEF DnsFresh, HasRow
<1>2. ASSUME NEW p \in Procs, DnsUpdateCommit(p)  PROVE DnsFresh'
  BY <1>0, <1>2 DEF DnsUpdateCommit, DnsFresh, HasRow, DnsInv, DnsTypeOK
<1>3. ASSUME NEW p \in Procs, DnsDeleteCommit(p)  PROVE DnsFresh'
  BY <1>0, <1>3 DEF DnsDeleteCommit, DnsFresh, HasRow, DnsInv, DnsTypeOK
<1>4. ASSUME NEW p \in Procs, WithdrawDnsCommit(p)  PROVE DnsFresh'
  BY <1>0, <1>4 DEF WithdrawDnsCommit, DnsFresh, HasRow
<1>5. CASE DnsDaemonDone
  <2>1. newIds' = newIds /\ \A i \in Records : ~HasRow(i) => record'[i] = NoRecord
    BY <1>5 DEF DnsDaemonDone, HasRow, DnsInv, DnsTypeOK
  <2> QED  BY <1>0, <2>1 DEF DnsFresh, HasRow
<1>6. CASE UNCHANGED <<record, newIds>>
  BY <1>6 DEF DnsFresh, HasRow
<1>4a. ASSUME NEW p \in Procs, DnsSetState(p)  PROVE DnsFresh'
  BY <1>0, <1>4a DEF DnsSetState, DnsFresh, HasRow
<1>7. ASSUME NEW p \in Procs, DnsStep(p)  PROVE DnsFresh'
  BY <1>1, <1>2, <1>3, <1>4, <1>4a, <1>6, <1>7
     DEF DnsStep, DnsCreateCheck, DnsUpdateCheck, DnsDeleteCheck, WithdrawDnsCheck, GrantDnsCheck, Asks,
         GrantDnsCommit, DnsRollback
<1>8. ASSUME NEW i \in Records, DnsDaemonTake(i)  PROVE DnsFresh'
  BY <1>6, <1>8 DEF DnsDaemonTake
<1> QED  BY <1>5, <1>6, <1>7, <1>8 DEF DnsNext, dnsVars

LEMMA DnsInvariant == DnsSpec => [](DnsInv /\ DnsFresh)
<1>1. DnsInit => DnsFresh
  BY DEF DnsInit, DnsFresh, HasRow
<1> QED  BY DnsInitially, DnsStepKeeps, <1>1, DnsFreshStep, PTL DEF DnsSpec

---------------------------------------------------------------------------
(* What a step makes of a row, of the zone and of the feature. *)

(* What is so of record i stays so. *)
DnsParts(i) ==
    /\ (record[i].status = "ok" => zone[i] = record[i].content)
           => (record'[i].status = "ok" => zone'[i] = record'[i].content)
    /\ record[i].status = "todelete" => record'[i].status \in {"todelete", "absent", "error", "switched"}
    /\ Removable(i) => Removable(i)'

(* Or another has overtaken the one whose step it is. *)
DnsExcused(i) ==
    \/ Overwritten(i)
    \/ \E p \in Procs : Outdated(p, {i}) \/ Cleared(p, i)

DnsKept(i) == DnsParts(i) \/ DnsExcused(i)

DnsBarred == ~customDns => \A i \in Records : ~HasRow(i)

DnsBarredKept == (DnsBarred => DnsBarred') \/ \E p \in Procs : Outdated(p, {"feature"})

LEMMA DnsSameRow ==
  ASSUME NEW i \in Records, record'[i] = record[i], zone'[i] = zone[i]
  PROVE  DnsKept(i)
  BY DEF DnsKept, DnsParts, Removable, HasRow

LEMMA DnsOver ==
  ASSUME DnsInv, NEW p \in Procs, NEW changed, Ends(p, changed)
  PROVE  dnsCall'[p] = None
  BY DEF DnsInv, DnsTypeOK, Ends, Outdates

LEMMA DnsCreateParts ==
  ASSUME DnsInv, DnsFresh, NEW p \in Procs, DnsCreateCommit(p)
  PROVE  DnsBarredKept /\ \A i \in Records : DnsKept(i)
<1>1. /\ dnsCall[p] # None /\ dnsCall[p].op = "create" /\ dnsCall'[p] = None
      /\ zone' = zone /\ customDns' = customDns
  BY DnsOver DEF DnsCreateCommit, Decided
<1>2. DnsBarredKept
  <2>1. CASE "feature" \in dnsCall[p].since
    BY <1>1, <2>1 DEF DnsBarredKept, Outdated
  <2>2. CASE customDns
    BY <1>1, <2>2 DEF DnsBarredKept, DnsBarred
  <2> QED  BY <1>1, <2>1, <2>2 DEF DnsInv, DnsRelied
<1>3. \A i \in Records : record'[i] = record[i] \/ (~HasRow(i) /\ record'[i].status = "toadd")
  <2>1. CASE record' = record
    BY <2>1
  <2>2. ASSUME NEW j \in newIds, NEW v, record' = [record EXCEPT ![j] = [status |-> "toadd", content |-> v]]
        PROVE  \A i \in Records : record'[i] = record[i] \/ (~HasRow(i) /\ record'[i].status = "toadd")
    <3>1. ~HasRow(j) /\ j \in Records
      BY DEF DnsFresh, DnsInv, DnsTypeOK
    <3> QED  BY <2>2, <3>1 DEF DnsInv, DnsTypeOK
  <2> QED  BY <2>1, <2>2 DEF DnsCreateCommit
<1>4. ASSUME NEW i \in Records, ~HasRow(i), record'[i].status = "toadd"
      PROVE  DnsKept(i)
  BY <1>4 DEF DnsKept, DnsParts, Removable, HasRow, NoRecord
<1> QED  BY <1>1, <1>2, <1>3, <1>4, DnsSameRow

LEMMA DnsUpdateParts ==
  ASSUME DnsInv, NEW p \in Procs, DnsUpdateCommit(p)
  PROVE  DnsBarredKept /\ \A i \in Records : DnsKept(i)
<1> DEFINE j == dnsCall[p].id
<1>1. /\ dnsCall[p] # None /\ dnsCall[p].op = "update" /\ dnsCall'[p] = None
      /\ zone' = zone /\ customDns' = customDns /\ j \in Records
  BY DnsOver, DnsDecidedCall DEF DnsUpdateCommit, Decided
<1>2. \A i \in Records : record'[i] = record[i] \/ (HasRow(i) /\ record'[i].status = "tochange" /\ i = j)
  BY <1>1 DEF DnsUpdateCommit, DnsInv, DnsTypeOK
<1>3. DnsBarredKept
  BY <1>1, <1>2 DEF DnsBarredKept, DnsBarred, HasRow
<1>4. ASSUME NEW i \in Records, i = j, record'[i].status = "tochange"
      PROVE  DnsKept(i)
  <2>1. CASE i \in dnsCall[p].since
    BY <1>1, <2>1 DEF DnsKept, DnsExcused, Outdated
  <2>2. CASE record[i].status = "ok"
    BY <1>4, <2>2 DEF DnsKept, DnsParts, Removable, HasRow, NoRecord
  <2> QED  BY <1>1, <1>4, <2>1, <2>2 DEF DnsInv, DnsRelied
<1> QED  BY <1>1, <1>2, <1>3, <1>4, DnsSameRow

LEMMA DnsDeleteParts ==
  ASSUME DnsInv, NEW p \in Procs, DnsDeleteCommit(p)
  PROVE  DnsBarredKept /\ \A i \in Records : DnsKept(i)
<1>1. zone' = zone /\ customDns' = customDns
  BY DEF DnsDeleteCommit
<1>2. \A i \in Records : record'[i] = record[i] \/ (HasRow(i) /\ record'[i].status = "todelete")
  BY DnsRowStatus DEF DnsDeleteCommit, DnsInv, DnsTypeOK, DnsRows
<1>3. DnsBarredKept
  BY <1>1, <1>2 DEF DnsBarredKept, DnsBarred, HasRow
<1>4. ASSUME NEW i \in Records, record'[i].status = "todelete"  PROVE DnsKept(i)
  BY <1>4 DEF DnsKept, DnsParts, Removable, HasRow, NoRecord
<1> QED  BY <1>1, <1>2, <1>3, <1>4, DnsSameRow

LEMMA DnsSetStateParts ==
  ASSUME DnsInv, NEW p \in Procs, DnsSetState(p)
  PROVE  DnsBarredKept /\ \A i \in Records : DnsKept(i)
<1>1. zone' = zone /\ customDns' = customDns
  BY DEF DnsSetState
<1>2. \A i \in Records : record'[i] = record[i] \/ (HasRow(i) /\ record'[i].status = "switched")
  BY DnsRowStatus DEF DnsSetState, DnsInv, DnsTypeOK, DnsRows
<1>3. DnsBarredKept
  BY <1>1, <1>2 DEF DnsBarredKept, DnsBarred, HasRow
<1>4. ASSUME NEW i \in Records, record'[i].status = "switched"  PROVE DnsKept(i)
  BY <1>4 DEF DnsKept, DnsParts, Removable, HasRow, NoRecord
<1> QED  BY <1>1, <1>2, <1>3, <1>4, DnsSameRow

(* A withdrawal clears what was on its way out when it looked. *)
LEMMA DnsWithdrawParts ==
  ASSUME DnsInv, NEW p \in Procs, WithdrawDnsCommit(p)
  PROVE  DnsBarredKept /\ \A i \in Records : DnsKept(i)
<1>1. /\ dnsCall[p] # None /\ dnsCall[p].op = "withdraw" /\ dnsCall'[p] = None
      /\ zone' = zone /\ \A i \in Records : record'[i] = NoRecord
  BY DnsOver DEF WithdrawDnsCommit, Decided
<1>2. DnsBarredKept
  BY <1>1 DEF DnsBarredKept, DnsBarred, HasRow
<1>3. ASSUME NEW i \in Records  PROVE DnsKept(i)
  <2>1. CASE i \in dnsCall[p].since
    BY <1>1, <2>1 DEF DnsKept, DnsExcused, Outdated
  <2>2. CASE record[i].status = "todelete"
    BY <1>1, <2>2 DEF DnsKept, DnsExcused, Cleared, Decided
  <2>3. CASE record[i].status = "absent"
    <3>1. record[i] = NoRecord
      BY <2>3, DnsRowStatus DEF DnsInv, HasRow
    <3> QED  BY <1>1, <3>1, DnsSameRow
  <2> QED  BY <1>1, <2>1, <2>2, <2>3 DEF DnsInv, DnsRelied
<1> QED  BY <1>2, <1>3

LEMMA DnsDoneParts ==
  ASSUME DnsInv, DnsDaemonDone
  PROVE  DnsBarredKept /\ \A i \in Records : DnsKept(i)
<1> DEFINE j    == building.id
           gone == building.row.status = "todelete"
<1>1. building # None /\ building' = None /\ j \in Records /\ building.row \in DnsRows /\ customDns' = customDns
  BY DEF DnsDaemonDone, DnsInv, DnsTypeOK
<1>2. \A i \in Records : i # j => record'[i] = record[i] /\ zone'[i] = zone[i]
  BY <1>1 DEF DnsDaemonDone, DnsInv, DnsTypeOK
<1>3. \A i \in Records : ~HasRow(i) => record'[i] = NoRecord
  BY <1>1 DEF DnsDaemonDone, HasRow, DnsInv, DnsTypeOK
<1>4. DnsBarredKept
  BY <1>1, <1>3 DEF DnsBarredKept, DnsBarred, HasRow
<1>5. ASSUME NEW i \in Records, i = j, record[i] = building.row
      PROVE  DnsKept(i)
  <2>1. HasRow(i)
    BY <1>1, <1>5, DnsRowStatus DEF DnsInv
  <2>2. \/ record'[i].status = "error" /\ zone'[i] = zone[i]
        \/ record'[i].status = "switched" /\ zone'[i] = None
        \/ gone /\ record'[i] = NoRecord /\ zone'[i] = None
        \/ /\ ~gone /\ record'[i].status = "ok" /\ record'[i].content = record[i].content
           /\ zone'[i] = record[i].content
    BY <1>1, <1>5, <2>1 DEF DnsDaemonDone, DnsInv, DnsTypeOK, DnsRows
  <2> QED  BY <1>5, <2>2 DEF DnsKept, DnsParts, Removable, HasRow, NoRecord
<1>6. ASSUME NEW i \in Records, i = j, record[i] # building.row
      PROVE  DnsKept(i)
  BY <1>1, <1>6 DEF DnsKept, DnsExcused, Overwritten
<1> QED  BY <1>2, <1>4, <1>5, <1>6, DnsSameRow

(* Rows, zone and feature come apart only where a mutation or the daemon   *)
(* is overtaken, or a withdrawal clears what the daemon still has to take  *)
(* out of the zone - for any number of records, processes and contents.    *)
THEOREM ZonePartsOverlap == DnsSpec => ZonePartsByOverlap
<1>1. ASSUME DnsInv, DnsFresh, [DnsNext]_dnsVars
      PROVE  DnsBarredKept /\ \A i \in Records : DnsKept(i)
  <2>1. CASE UNCHANGED <<record, zone>> /\ (customDns' = customDns \/ customDns' = TRUE)
    BY <2>1, DnsSameRow DEF DnsBarredKept, DnsBarred, HasRow
  <2>2. ASSUME NEW p \in Procs, DnsStep(p)
        PROVE  DnsBarredKept /\ \A i \in Records : DnsKept(i)
    BY <1>1, <2>1, <2>2, DnsCreateParts, DnsUpdateParts, DnsDeleteParts, DnsSetStateParts, DnsWithdrawParts
       DEF DnsStep, DnsCreateCheck, DnsUpdateCheck, DnsDeleteCheck, WithdrawDnsCheck, GrantDnsCheck, Asks,
           GrantDnsCommit, DnsRollback
  <2>3. ASSUME NEW i \in Records, DnsDaemonTake(i)
        PROVE  DnsBarredKept /\ \A j \in Records : DnsKept(j)
    BY <2>1, <2>3 DEF DnsDaemonTake
  <2> QED  BY <1>1, <2>1, <2>2, <2>3, DnsDoneParts DEF DnsNext, dnsVars
<1>2. DnsBarredKept /\ (\A i \in Records : DnsKept(i)) =>
         /\ \A i \in Records :
               \/ /\ (record[i].status = "ok" => zone[i] = record[i].content)
                        => (record'[i].status = "ok" => zone'[i] = record'[i].content)
                  /\ record[i].status = "todelete" => record'[i].status \in {"todelete", "absent", "error", "switched"}
                  /\ Removable(i) => Removable(i)'
               \/ Overwritten(i)
               \/ \E p \in Procs : Outdated(p, {i}) \/ Cleared(p, i)
         /\ (~customDns => \A i \in Records : ~HasRow(i)) => (~customDns' => \A i \in Records : ~HasRow(i)')
               \/ \E p \in Procs : Outdated(p, {"feature"})
  BY DEF DnsBarredKept, DnsBarred, DnsKept, DnsParts, DnsExcused
<1> QED  BY DnsInvariant, <1>1, <1>2, PTL DEF DnsSpec, ZonePartsByOverlap

(* Every variable keeps its shape. *)
THEOREM DnsTypeCorrect == DnsSpec => []DnsTypeOK
<1>1. DnsInv => DnsTypeOK
  BY DEF DnsInv
<1> QED  BY DnsInvariant, <1>1, PTL

---------------------------------------------------------------------------
(***************************************************************************)
(* For any number of addresses, processes and quotas: a mail row is lost,  *)
(* and a deleted address left on a list, only where calls overlap.         *)
(*                                                                         *)
(* What a call has read of a row still holds unless the call is marked     *)
(* stale for it: an update finds the row ok, a deletion has selected every *)
(* row that lists its address and none that is going.                      *)
(***************************************************************************)

(* A call, with the rows it has selected for a deletion. *)
Selections == UNION {[D -> Lists] : D \in SUBSET Addresses}

MailCallTypes ==
    [op : MailOperations, own : Addresses \cup {None}, known : BOOLEAN,
     status : {"ok", "tochange"}, data : Data \cup {None}, selected : BOOLEAN,
     others : Selections, stale : SUBSET Addresses]

MailTyped ==
    /\ mail \in [Addresses -> MailRows \cup {NoMail}]
    /\ served \in [Addresses -> Data \cup {None}]
    /\ work \in [at : Addresses, row : MailRows] \cup {None}
    /\ mailCall \in [Procs -> MailCallTypes]
    /\ mailLeft \in 0..MailCalls

(* A call is about an address, has what it writes, and knows and selects   *)
(* only rows there are.  So does the daemon.                               *)
MailShaped(p) ==
    LET call == mailCall[p]
    IN  /\ call.op # "none" => call.own \in Addresses
        /\ call.op \in {"create", "update", "reply"} => call.data \in Data
        /\ call.known => call.own \in Addresses /\ There(call.own)
        /\ \A b \in DOMAIN call.others : There(b)

WorkThere == work # None => There(work.at)

(* What a call has read still holds of the rows nobody has written since.  *)
MailRelied(p) ==
    LET call == mailCall[p]
        a    == call.own
    IN  /\ call.op \in {"update", "reply"} /\ call.known /\ a \notin call.stale
           => /\ mail[a].status = "ok"
              /\ call.op = "reply" /\ call.status = "ok"
                 => ~call.data.reply /\ ~mail[a].data.reply
        /\ call.op = "delete" /\ call.selected
           => \A b \in Addresses \ call.stale :
                 /\ b \in DOMAIN call.others => LiveMail(b)
                 /\ b # a /\ LiveMail(b) /\ a \in mail[b].data.list => b \in DOMAIN call.others

MailInv == MailTyped /\ WorkThere /\ \A p \in Procs : MailShaped(p) /\ MailRelied(p)

---------------------------------------------------------------------------
(* Rows and calls. *)

LEMMA MailRow ==
  ASSUME NEW row \in MailRows \cup {NoMail}
  PROVE  /\ row # NoMail <=> row \in MailRows
         /\ row # NoMail <=> row.status # "absent"
         /\ row \in MailRows => row.data \in Data /\ row.status \in Waiting \cup {"ok", "error"}
         /\ row = NoMail => row.data = None
  BY DEF MailRows, NoMail, Waiting

LEMMA NothingSelected == <<>> \in Selections /\ DOMAIN <<>> = {}
<1>1. DOMAIN <<>> = {} /\ <<>> = [b \in {} |-> {}]
  BY EmptySeq, LenProperties
<1>2. <<>> \in [{} -> Lists]
  BY <1>1
<1> QED  BY <1>1, <1>2 DEF Selections

LEMMA NoCallTyped ==
  /\ NoCall \in MailCallTypes
  /\ NoCall.op = "none" /\ NoCall.own = None /\ ~NoCall.known /\ ~NoCall.selected /\ NoCall.stale = {}
  /\ DOMAIN NoCall.others = {}
  BY NothingSelected DEF NoCall, MailCallTypes, MailOperations

(* The call of an operation that has made its checks. *)
CallOf(op, a, known, status, data) ==
    [NoCall EXCEPT !.op = op, !.own = a, !.known = known, !.status = status, !.data = data]

LEMMA NewCall ==
  ASSUME NEW op \in MailOperations, NEW a \in Addresses, NEW known \in BOOLEAN,
         NEW status \in {"ok", "tochange"}, NEW data \in Data \cup {None}, NEW call,
         call = CallOf(op, a, known, status, data)
  PROVE  /\ call \in MailCallTypes /\ call.op = op /\ call.own = a /\ call.status = status /\ call.data = data
         /\ call.known = known /\ ~call.selected /\ DOMAIN call.others = {}
<1>1. /\ call \in MailCallTypes /\ call.op = op /\ call.own = a /\ call.status = status /\ call.data = data
      /\ call.others = NoCall.others
  BY NoCallTyped DEF MailCallTypes, CallOf
<1>2. call.known = known /\ ~call.selected
  BY NoCallTyped DEF MailCallTypes, CallOf
<1> QED  BY <1>1, <1>2, NoCallTyped

LEMMA MailSelection ==
  ASSUME NEW others \in Selections
  PROVE  DOMAIN others \subseteq Addresses /\ \A b \in DOMAIN others : others[b] \in Lists
  BY DEF Selections

LEMMA MailTypedOK == MailTyped => MailTypeOK
<1> SUFFICES ASSUME MailTyped  PROVE MailTypeOK
  OBVIOUS
<1>1. work = None \/ (work.at \in Addresses /\ work.row \in MailRows)
  BY DEF MailTyped
<1>2. ASSUME NEW p \in Procs
      PROVE  /\ mailCall[p].op \in MailOperations /\ mailCall[p].own \in Addresses \cup {None}
             /\ mailCall[p].known \in BOOLEAN /\ mailCall[p].selected \in BOOLEAN
             /\ mailCall[p].status \in {"ok", "tochange"} /\ mailCall[p].data \in Data \cup {None}
             /\ mailCall[p].stale \subseteq Addresses /\ DOMAIN mailCall[p].others \subseteq Addresses
             /\ \A b \in DOMAIN mailCall[p].others : mailCall[p].others[b] \in Lists
  <2>1. mailCall[p] \in MailCallTypes
    BY DEF MailTyped
  <2>2. mailCall[p].others \in Selections
    BY <2>1 DEF MailCallTypes
  <2> QED  BY <2>1, <2>2, MailSelection DEF MailCallTypes
<1> QED  BY <1>1, <1>2 DEF MailTypeOK, MailTyped

LEMMA MailInitially == MailInit => MailInv
<1> SUFFICES ASSUME MailInit  PROVE MailInv
  OBVIOUS
<1>1. mail \in [Addresses -> MailRows \cup {NoMail}]
  <2>1. PICK f \in [Accounts -> SetUp(Accounts)], g \in [Catchalls -> SetUp(Catchalls)] :
           mail = [a \in Addresses |-> IF a \in Accounts THEN f[a] ELSE g[a]]
    BY DEF MailInit
  <2>2. \A S : SetUp(S) \subseteq MailRows \cup {NoMail}
    BY DEF SetUp, MailRows
  <2> QED  BY <2>1, <2>2 DEF Addresses
<1>2. served \in [Addresses -> Data \cup {None}]
  BY <1>1, MailRow DEF MailInit
<1>3. MailTyped
  BY <1>1, <1>2, NoCallTyped, MailConfigured DEF MailInit, MailTyped
<1>4. ASSUME NEW p \in Procs  PROVE MailShaped(p) /\ MailRelied(p)
  <2>1. mailCall[p] = NoCall
    BY DEF MailInit
  <2> QED  BY <2>1, NoCallTyped DEF MailShaped, MailRelied
<1> QED  BY <1>3, <1>4 DEF MailInv, WorkThere, MailInit

---------------------------------------------------------------------------
(* The invariant, action by action. *)

LEMMA UntouchedKeeps ==
  ASSUME MailInv, NEW q \in Procs, mail' = mail, mailCall'[q] = mailCall[q]
  PROVE  MailShaped(q)' /\ MailRelied(q)'
<1>1. MailShaped(q) /\ MailRelied(q)
  BY DEF MailInv
<1>2. MailShaped(q)'
  BY <1>1 DEF MailShaped, There
<1>3. MailRelied(q)'
  BY <1>1 DEF MailRelied, There, LiveMail
<1> QED  BY <1>2, <1>3

LEMMA MailDecideKeeps ==
  ASSUME MailInv, NEW p \in Procs, NEW op \in MailOperations, NEW a \in Addresses,
         NEW status \in {"ok", "tochange"}, NEW data \in Data \cup {None}, MailDecide(p, op, a, status, data),
         op \in {"create", "update", "reply"} => data \in Data,
         op \in {"update", "reply"} => mail[a].status = "ok",
         op = "reply" /\ status = "ok" => ~data.reply /\ ~mail[a].data.reply
  PROVE  MailInv'
<1>1. PICK known \in BOOLEAN : known = There(a)
  BY DEF There
<1>2. PICK call : call = CallOf(op, a, known, status, data)
  OBVIOUS
<1>3. /\ call \in MailCallTypes /\ call.op = op /\ call.own = a /\ call.status = status /\ call.data = data
      /\ call.known = known /\ ~call.selected /\ DOMAIN call.others = {}
  BY <1>2, NewCall
<1>4. /\ mailCall' = [mailCall EXCEPT ![p] = call] /\ mailLeft > 0 /\ mailLeft' = mailLeft - 1
      /\ UNCHANGED <<mail, served, work>>
  BY <1>1, <1>2 DEF MailDecide, CallOf
<1>5. MailTyped' /\ mailCall'[p] = call /\ \A q \in Procs : q # p => mailCall'[q] = mailCall[q]
  BY <1>3, <1>4, MailConfigured DEF MailInv, MailTyped
<1>6. WorkThere'
  BY <1>4 DEF MailInv, WorkThere, There
<1>7. MailShaped(p)' /\ MailRelied(p)'
  <2>1. call.known => There(a)
    BY <1>1, <1>3
  <2> QED  BY <1>3, <1>4, <1>5, <2>1 DEF MailShaped, MailRelied, There
<1>8. ASSUME NEW q \in Procs, q # p  PROVE MailShaped(q)' /\ MailRelied(q)'
  BY <1>4, <1>5, <1>8, UntouchedKeeps
<1> QED  BY <1>5, <1>6, <1>7, <1>8 DEF MailInv

LEMMA OkRow ==
  ASSUME MailInv, NEW a \in Addresses, mail[a].status # "absent"
  PROVE  mail[a] \in MailRows /\ mail[a].data \in Data /\ There(a)
  BY MailRow DEF MailInv, MailTyped, There

LEMMA ValuesTyped ==
  ASSUME NEW kind \in Kinds, NEW list \in Lists, NEW limit \in Quotas \cup {0}, NEW reply \in BOOLEAN
  PROVE  Values(kind, list, limit, reply) \in Data
  BY DEF Values, Data, Lists

LEMMA MailChecksKeep ==
  ASSUME MailInv, NEW p \in Procs,
         \/ \E a \in Accounts, kind \in Kinds \ {"CATCHALL"}, list \in Lists, limit \in Quotas :
               MailCreateCheck(p, a, kind, list, limit)
         \/ \E a \in Accounts, kind \in Kinds \ {"CATCHALL"}, list \in Lists \cup {None}, limit \in Quotas \cup {None} :
               MailUpdateCheck(p, a, kind, list, limit)
         \/ \E a \in Accounts, enabled \in BOOLEAN : AutoresponderCheck(p, a, enabled)
         \/ \E a \in Catchalls, list \in Lists : CatchallCreateCheck(p, a, list)
         \/ \E a \in Catchalls : CatchallDeleteCheck(p, a)
         \/ \E a \in Accounts : MailDeleteCheck(p, a)
  PROVE  MailInv'
<1>1. ASSUME NEW a \in Accounts, NEW kind \in Kinds \ {"CATCHALL"}, NEW list \in Lists, NEW limit \in Quotas,
             MailCreateCheck(p, a, kind, list, limit)
      PROVE  MailInv'
  <2>1. Values(kind, list, limit, FALSE) \in Data
    BY ValuesTyped
  <2> QED  BY <1>1, <2>1, MailDecideKeeps DEF MailCreateCheck, MailOperations, Addresses
<1>2. ASSUME NEW a \in Accounts, NEW kind \in Kinds \ {"CATCHALL"}, NEW list \in Lists \cup {None},
             NEW limit \in Quotas \cup {None}, MailUpdateCheck(p, a, kind, list, limit)
      PROVE  MailInv'
  <2> DEFINE now   == mail[a].data
             to    == IF list = None THEN now.list ELSE list
             units == IF limit = None THEN now.quota ELSE limit
  <2>1. mail[a].status = "ok" /\ MailDecide(p, "update", a, "tochange", Values(kind, to, units, now.reply))
    BY <1>2 DEF MailUpdateCheck
  <2>2. now \in Data
    BY <2>1, OkRow DEF Addresses
  <2>3. to \in Lists /\ units \in Quotas \cup {0} /\ now.reply \in BOOLEAN
    BY <2>2 DEF Data, Lists
  <2>4. Values(kind, to, units, now.reply) \in Data
    BY <2>3, ValuesTyped
  <2> QED  BY <2>1, <2>4, MailDecideKeeps DEF MailOperations, Addresses
<1>3. ASSUME NEW a \in Accounts, NEW enabled \in BOOLEAN, AutoresponderCheck(p, a, enabled)
      PROVE  MailInv'
  <2> DEFINE status == IF enabled \/ mail[a].data.reply THEN "tochange" ELSE mail[a].status
             data   == [mail[a].data EXCEPT !.reply = enabled]
  <2>1. mail[a].status = "ok" /\ MailDecide(p, "reply", a, status, data) /\ mail[a].data \in Data
    BY <1>3, OkRow DEF AutoresponderCheck, Addresses
  <2>2. data \in Data /\ (data.reply <=> enabled)
    BY <2>1 DEF Data
  <2>3. status \in {"ok", "tochange"} /\ (status = "ok" => ~enabled /\ ~mail[a].data.reply)
    BY <2>1
  <2> HIDE DEF status, data
  <2> QED  BY <2>1, <2>2, <2>3, MailDecideKeeps DEF MailOperations, Addresses
<1>4. ASSUME NEW a \in Catchalls, NEW list \in Lists, CatchallCreateCheck(p, a, list)  PROVE MailInv'
  <2>1. Values("CATCHALL", list, 0, FALSE) \in Data
    BY ValuesTyped DEF Kinds
  <2> QED  BY <1>4, <2>1, MailDecideKeeps DEF CatchallCreateCheck, MailOperations, Addresses
<1>5. ASSUME NEW a \in Catchalls, CatchallDeleteCheck(p, a)  PROVE MailInv'
  BY <1>5, MailDecideKeeps DEF CatchallDeleteCheck, MailOperations, Addresses
<1>6. ASSUME NEW a \in Accounts, MailDeleteCheck(p, a)  PROVE MailInv'
  BY <1>6, MailDecideKeeps DEF MailDeleteCheck, MailOperations, Addresses
<1> QED  BY <1>1, <1>2, <1>3, <1>4, <1>5, <1>6

(* A call loses what it has read of the rows another writes, and nothing   *)
(* else; a row that is written stays there.                                *)
LEMMA StaleKeeps ==
  ASSUME MailInv, NEW q \in Procs, NEW changed \in SUBSET Addresses,
         mail' \in [Addresses -> MailRows \cup {NoMail}],
         \A a \in Addresses : There(a) => There(a)',
         \A a \in Addresses \ changed : mail'[a] = mail[a],
         mailCall'[q] = [mailCall[q] EXCEPT !.stale = @ \cup changed]
  PROVE  mailCall'[q] \in MailCallTypes /\ MailShaped(q)' /\ MailRelied(q)'
<1>1. mailCall[q] \in MailCallTypes
  BY DEF MailInv, MailTyped
<1>2. /\ mailCall'[q] \in MailCallTypes /\ mailCall'[q].op = mailCall[q].op /\ mailCall'[q].own = mailCall[q].own
      /\ mailCall'[q].status = mailCall[q].status /\ mailCall'[q].data = mailCall[q].data
      /\ mailCall'[q].others = mailCall[q].others /\ mailCall'[q].stale = mailCall[q].stale \cup changed
  BY <1>1 DEF MailCallTypes
<1>3. (mailCall'[q].known <=> mailCall[q].known) /\ (mailCall'[q].selected <=> mailCall[q].selected)
  BY <1>1 DEF MailCallTypes
<1>4. DOMAIN mailCall[q].others \subseteq Addresses
  BY <1>1, MailSelection DEF MailCallTypes
<1>5. MailShaped(q)'
  BY <1>2, <1>3, <1>4 DEF MailInv, MailShaped
<1>6. \A a \in Addresses \ changed : /\ LiveMail(a)' <=> LiveMail(a)
                                     /\ mail'[a].status = mail[a].status /\ mail'[a].data = mail[a].data
  BY DEF LiveMail, There
<1>7. MailRelied(q)'
  <2>1. mailCall[q].known => mailCall[q].own \in Addresses
    BY DEF MailInv, MailShaped
  <2> QED  BY <1>2, <1>3, <1>6, <2>1 DEF MailInv, MailRelied
<1> QED  BY <1>2, <1>5, <1>7

LEMMA IdleKeeps ==
  ASSUME NEW q \in Procs, mailCall'[q] = NoCall
  PROVE  mailCall'[q] \in MailCallTypes /\ MailShaped(q)' /\ MailRelied(q)'
  BY NoCallTyped DEF MailShaped, MailRelied

LEMMA MailCommitKeeps ==
  ASSUME MailInv, NEW p \in Procs, NEW changed \in SUBSET Addresses, MailCommit(p, changed),
         mail' \in [Addresses -> MailRows \cup {NoMail}],
         \A a \in Addresses : There(a) => There(a)',
         \A a \in Addresses \ changed : mail'[a] = mail[a]
  PROVE  MailInv'
<1>1. ASSUME NEW q \in Procs
      PROVE  mailCall'[q] \in MailCallTypes /\ MailShaped(q)' /\ MailRelied(q)'
  <2>1. mailCall'[q] = NoCall \/ mailCall'[q] = [mailCall[q] EXCEPT !.stale = @ \cup changed]
    BY DEF MailCommit
  <2> QED  BY <2>1, IdleKeeps, StaleKeeps
<1>2. mailCall' \in [Procs -> MailCallTypes]
  BY <1>1 DEF MailCommit
<1>3. MailTyped' /\ WorkThere'
  BY <1>2 DEF MailCommit, MailInv, MailTyped, WorkThere
<1> QED  BY <1>1, <1>3 DEF MailInv

(* A row is replaced by a row, of a call that is about an address. *)
LEMMA MailWriteKeeps ==
  ASSUME MailInv, NEW p \in Procs, NEW row, MailWrite(p, row),
         mailCall[p].known => row \in MailRows
  PROVE  MailInv'
<1> DEFINE a == mailCall[p].own
<1>1. CASE mailCall[p].known
  <2>1. a \in Addresses /\ row \in MailRows /\ mail' = [mail EXCEPT ![a] = row] /\ MailCommit(p, {a})
    BY <1>1 DEF MailWrite, MailInv, MailShaped
  <2>2. /\ mail' \in [Addresses -> MailRows \cup {NoMail}]
        /\ \A b \in Addresses : mail'[b] = IF b = a THEN row ELSE mail[b]
    BY <2>1 DEF MailInv, MailTyped
  <2>3. \A b \in Addresses : There(b) => There(b)'
    BY <2>1, <2>2, MailRow DEF There
  <2> HIDE DEF a
  <2> QED  BY <2>1, <2>2, <2>3, MailCommitKeeps
<1>2. CASE ~mailCall[p].known
  BY <1>2, MailCommitKeeps DEF MailWrite, MailInv, MailTyped, There
<1> QED  BY <1>1, <1>2

LEMMA KnownRow ==
  ASSUME MailInv, NEW p \in Procs, mailCall[p].known
  PROVE  /\ mailCall[p].own \in Addresses /\ mail[mailCall[p].own] \in MailRows
         /\ mail[mailCall[p].own].data \in Data
<1>1. mailCall[p].own \in Addresses /\ There(mailCall[p].own)
  BY DEF MailInv, MailShaped
<1> QED  BY <1>1, MailRow DEF There, MailInv, MailTyped

(* Rows whose list has lost an address are rows. *)
LEMMA WithListTyped ==
  ASSUME NEW row \in MailRows, NEW list \in Lists
  PROVE  /\ WithList(row, list) \in MailRows
         /\ list = {} => WithList(row, list).status = "todelete"
         /\ list # {} => WithList(row, list).status \in {"toadd", "tochange"} /\ WithList(row, list).data.list = list
<1>1. row.data \in Data
  BY DEF MailRows
<1>2. [row.data EXCEPT !.list = list] \in Data /\ [row.data EXCEPT !.list = list].list = list
  BY <1>1 DEF Data
<1>3. [row EXCEPT !.status = "todelete"] \in MailRows /\ [row EXCEPT !.status = "todelete"].status = "todelete"
  BY DEF MailRows, Waiting
<1> DEFINE data == [row.data EXCEPT !.list = list]
<1> HIDE DEF data
<1>4. CASE list # {}
  <2>1. WithList(row, list) = [status |-> IF row.status = "toadd" THEN "toadd" ELSE "tochange", data |-> data]
    BY <1>4 DEF WithList, data
  <2>2. data \in Data /\ data.list = list
    BY <1>2 DEF data
  <2> QED  BY <1>4, <2>1, <2>2 DEF MailRows, Waiting
<1> QED  BY <1>3, <1>4 DEF WithList

(* What mailAccountDelete makes of each row. *)
LEMMA MailDeletion ==
  ASSUME MailInv, NEW p \in Procs, MailDeleteCommit(p)
  PROVE  /\ mailCall[p].own \in Addresses /\ mailCall[p].op = "delete" /\ mailCall[p].selected
         /\ DOMAIN mailCall[p].others \subseteq Addresses
         /\ mail' \in [Addresses -> MailRows \cup {NoMail}]
         /\ \A b \in Addresses :
               LET a    == mailCall[p].own
                   list == mailCall[p].others[b] \ {a}
               IN  \/ b = a /\ mailCall[p].known /\ mail'[b] \in MailRows /\ mail'[b].status = "todelete"
                   \/ /\ b \in DOMAIN mailCall[p].others /\ mail[b] \in MailRows
                      /\ list \in Lists /\ mail'[b] = WithList(mail[b], list) /\ mail'[b] \in MailRows
                   \/ /\ b \notin DOMAIN mailCall[p].others /\ ~(b = a /\ mailCall[p].known) /\ mail'[b] = mail[b]
         /\ MailCommit(p, (IF mailCall[p].known THEN {mailCall[p].own} ELSE {}) \cup DOMAIN mailCall[p].others)
<1> DEFINE a      == mailCall[p].own
           others == mailCall[p].others
           own    == IF mailCall[p].known THEN {a} ELSE {}
<1>1. /\ mailCall[p].op = "delete" /\ mailCall[p].selected /\ MailCommit(p, own \cup DOMAIN others)
      /\ mail' = [b \in Addresses |->
                          IF b \in own THEN [mail[b] EXCEPT !.status = "todelete"]
                          ELSE IF b \in DOMAIN others THEN WithList(mail[b], others[b] \ {a})
                          ELSE mail[b]]
  BY DEF MailDeleteCommit
<1>2. others \in Selections
  BY DEF MailInv, MailTyped, MailCallTypes
<1>3. a \in Addresses /\ DOMAIN others \subseteq Addresses /\ \A b \in DOMAIN others : others[b] \in Lists
  BY <1>1, <1>2, MailSelection DEF MailInv, MailShaped
<1>4. ASSUME NEW b \in Addresses
      PROVE  \/ b = a /\ mailCall[p].known /\ mail'[b] \in MailRows /\ mail'[b].status = "todelete"
             \/ /\ b \in DOMAIN others /\ mail[b] \in MailRows
                /\ others[b] \ {a} \in Lists /\ mail'[b] = WithList(mail[b], others[b] \ {a}) /\ mail'[b] \in MailRows
             \/ b \notin DOMAIN others /\ ~(b = a /\ mailCall[p].known) /\ mail'[b] = mail[b]
  <2>1. CASE b \in own
    <3>1. b = a /\ mailCall[p].known /\ mail'[b] = [mail[b] EXCEPT !.status = "todelete"]
      BY <1>1, <2>1
    <3>2. mail[b] \in MailRows
      BY <3>1, KnownRow
    <3>3. [mail[b] EXCEPT !.status = "todelete"] \in MailRows
          /\ [mail[b] EXCEPT !.status = "todelete"].status = "todelete"
      BY <3>2 DEF MailRows, Waiting
    <3> QED  BY <3>1, <3>3
  <2>2. CASE b \notin own /\ b \in DOMAIN others
    <3>1. mail'[b] = WithList(mail[b], others[b] \ {a}) /\ others[b] \ {a} \in Lists
      BY <1>1, <1>3, <2>2 DEF Lists
    <3>2. There(b)
      BY <2>2 DEF MailInv, MailShaped
    <3>3. mail[b] \in MailRows
      BY <3>2, MailRow DEF There, MailInv, MailTyped
    <3> QED  BY <2>2, <3>1, <3>3, WithListTyped
  <2>3. CASE b \notin own /\ b \notin DOMAIN others
    BY <1>1, <2>3
  <2> QED  BY <2>1, <2>2, <2>3
<1>5. mail' \in [Addresses -> MailRows \cup {NoMail}]
  <2>1. \A b \in Addresses : mail'[b] \in MailRows \cup {NoMail}
    BY <1>4 DEF MailInv, MailTyped
  <2> QED  BY <1>1, <2>1
<1> QED  BY <1>1, <1>3, <1>4, <1>5

LEMMA MailCommitsKeep ==
  ASSUME MailInv, NEW p \in Procs,
         \/ MailCreateCommit(p) \/ MailUpdateCommit(p) \/ AutoresponderCommit(p)
         \/ CatchallDeleteCommit(p) \/ MailDeleteCommit(p)
  PROVE  MailInv'
<1>1. CASE MailCreateCommit(p)
  <2> DEFINE a == mailCall[p].own
             row == [status |-> "toadd", data |-> mailCall[p].data]
  <2>1. mailCall[p].op = "create" /\ a \in Addresses /\ mailCall[p].data \in Data
    BY <1>1 DEF MailCreateCommit, MailInv, MailShaped
  <2>2. CASE mail' = mail /\ MailCommit(p, {})
    BY <2>2, MailCommitKeeps DEF MailInv, MailTyped, There
  <2>3. CASE mail' = [mail EXCEPT ![a] = row] /\ MailCommit(p, {a})
    <3>1. row \in MailRows
      BY <2>1 DEF MailRows, Waiting
    <3>2. /\ mail' \in [Addresses -> MailRows \cup {NoMail}]
          /\ \A b \in Addresses : mail'[b] = IF b = a THEN row ELSE mail[b]
      BY <2>1, <2>3, <3>1 DEF MailInv, MailTyped
    <3> HIDE DEF row, a
    <3>3. \A b \in Addresses : There(b) => There(b)'
      BY <3>1, <3>2, MailRow DEF There
    <3> QED  BY <2>1, <2>3, <3>2, <3>3, MailCommitKeeps
  <2> QED  BY <1>1, <2>2, <2>3 DEF MailCreateCommit
<1>2. CASE MailUpdateCommit(p)
  <2> DEFINE a   == mailCall[p].own
             row == [status |-> "tochange", data |-> [mailCall[p].data EXCEPT !.reply = mail[a].data.reply]]
  <2>1. MailWrite(p, row) /\ mailCall[p].data \in Data
    BY <1>2 DEF MailUpdateCommit, MailInv, MailShaped
  <2>2. ASSUME mailCall[p].known  PROVE row \in MailRows
    <3>1. mail[a].data.reply \in BOOLEAN
      BY <2>2, KnownRow DEF Data
    <3>2. [mailCall[p].data EXCEPT !.reply = mail[a].data.reply] \in Data
      BY <2>1, <3>1 DEF Data
    <3> QED  BY <3>2 DEF MailRows, Waiting
  <2> QED  BY <2>1, <2>2, MailWriteKeeps
<1>3. CASE AutoresponderCommit(p)
  <2> DEFINE a   == mailCall[p].own
             row == [status |-> mailCall[p].status, data |-> [mail[a].data EXCEPT !.reply = mailCall[p].data.reply]]
  <2>1. MailWrite(p, row) /\ mailCall[p].data \in Data /\ mailCall[p].status \in {"ok", "tochange"}
    BY <1>3 DEF AutoresponderCommit, MailInv, MailShaped, MailTyped, MailCallTypes
  <2>2. ASSUME mailCall[p].known  PROVE row \in MailRows
    <3>1. mail[a].data \in Data /\ mailCall[p].data.reply \in BOOLEAN
      BY <2>1, <2>2, KnownRow DEF Data
    <3>2. [mail[a].data EXCEPT !.reply = mailCall[p].data.reply] \in Data
      BY <3>1 DEF Data
    <3> QED  BY <2>1, <3>2 DEF MailRows, Waiting
  <2> QED  BY <2>1, <2>2, MailWriteKeeps
<1>4. CASE CatchallDeleteCommit(p)
  <2> DEFINE row == [mail[mailCall[p].own] EXCEPT !.status = "todelete"]
  <2>1. MailWrite(p, row)
    BY <1>4 DEF CatchallDeleteCommit
  <2>2. ASSUME mailCall[p].known  PROVE row \in MailRows
    BY <2>2, KnownRow DEF MailRows, Waiting
  <2> QED  BY <2>1, <2>2, MailWriteKeeps
<1>5. CASE MailDeleteCommit(p)
  <2>1. \A b \in Addresses : There(b) => There(b)'
    BY <1>5, MailDeletion, MailRow DEF There
  <2> DEFINE changed == (IF mailCall[p].known THEN {mailCall[p].own} ELSE {}) \cup DOMAIN mailCall[p].others
  <2>2. changed \subseteq Addresses /\ MailCommit(p, changed) /\ mail' \in [Addresses -> MailRows \cup {NoMail}]
    BY <1>5, MailDeletion
  <2>3. \A b \in Addresses \ changed : mail'[b] = mail[b]
    BY <1>5, MailDeletion
  <2> HIDE DEF changed
  <2> QED  BY <2>1, <2>2, <2>3, MailCommitKeeps
<1> QED  BY <1>1, <1>2, <1>3, <1>4, <1>5

LEMMA MailSelectKeeps ==
  ASSUME MailInv, NEW p \in Procs, MailDeleteSelect(p)
  PROVE  MailInv'
<1> DEFINE a      == mailCall[p].own
           others == {b \in Addresses \ {a} : LiveMail(b) /\ a \in mail[b].data.list}
           rows   == [b \in others |-> mail[b].data.list]
<1>1. /\ mailCall[p].op = "delete" /\ UNCHANGED <<mail, served, work, mailLeft>>
      /\ mailCall' = [mailCall EXCEPT ![p].selected = TRUE, ![p].others = rows, ![p].stale = @ \cap {a}]
  BY DEF MailDeleteSelect
<1>2. \A b \in others : mail[b].data.list \in Lists
  <2>1. \A b \in others : mail[b].data \in Data
    BY MailRow DEF LiveMail, There, MailInv, MailTyped
  <2> QED  BY <2>1 DEF Data
<1>3. rows \in Selections /\ DOMAIN rows = others
  <2>1. others \in SUBSET Addresses
    OBVIOUS
  <2> HIDE DEF others
  <2>2. rows \in [others -> Lists]
    BY <1>2
  <2> QED  BY <2>1, <2>2 DEF Selections
<1>4. mailCall[p] \in MailCallTypes
  BY DEF MailInv, MailTyped
<1> HIDE DEF rows
<1>5. mailCall'[p] = [mailCall[p] EXCEPT !.selected = TRUE, !.others = rows, !.stale = @ \cap {a}]
      /\ \A q \in Procs : q # p => mailCall'[q] = mailCall[q]
  BY <1>1 DEF MailInv, MailTyped
<1>6. /\ mailCall'[p] \in MailCallTypes /\ mailCall'[p].op = "delete" /\ mailCall'[p].own = a
      /\ mailCall'[p].others = rows /\ mailCall'[p].stale = mailCall[p].stale \cap {a}
      /\ (mailCall'[p].known <=> mailCall[p].known)
  <2> HIDE DEF others
  <2>1. /\ mailCall'[p] \in MailCallTypes /\ mailCall'[p].op = mailCall[p].op /\ mailCall'[p].own = mailCall[p].own
        /\ mailCall'[p].others = rows /\ mailCall'[p].stale = mailCall[p].stale \cap {a}
    BY <1>3, <1>4, <1>5 DEF MailCallTypes
  <2>2. mailCall'[p].known <=> mailCall[p].known
    BY <1>4, <1>5 DEF MailCallTypes
  <2> QED  BY <1>1, <2>1, <2>2
<1>7. MailTyped' /\ WorkThere'
  BY <1>1, <1>5, <1>6 DEF MailInv, MailTyped, WorkThere, There
<1>8. MailShaped(p)' /\ MailRelied(p)'
  <2>1. MailShaped(p)'
    BY <1>1, <1>3, <1>6 DEF MailInv, MailShaped, There, LiveMail
  <2>2. MailRelied(p)'
    BY <1>1, <1>3, <1>6 DEF MailRelied, There, LiveMail
  <2> QED  BY <2>1, <2>2
<1>9. ASSUME NEW q \in Procs, q # p  PROVE MailShaped(q)' /\ MailRelied(q)'
  BY <1>1, <1>5, <1>9, UntouchedKeeps
<1> QED  BY <1>7, <1>8, <1>9 DEF MailInv

(* Nothing changes but that p has no call any more. *)
LEMMA MailEndKeeps ==
  ASSUME MailInv, NEW p \in Procs, MailRollback(p)
  PROVE  MailInv'
<1>1. \A q \in Procs : mailCall'[q] = IF q = p THEN NoCall ELSE mailCall[q]
  BY DEF MailRollback, MailInv, MailTyped
<1>2. MailTyped' /\ WorkThere'
  BY NoCallTyped DEF MailRollback, MailInv, MailTyped, WorkThere, There
<1>3. ASSUME NEW q \in Procs, q # p  PROVE MailShaped(q)' /\ MailRelied(q)'
  BY <1>1, <1>3 DEF MailRollback, MailInv, MailShaped, MailRelied, There, LiveMail
<1> QED  BY <1>1, <1>2, <1>3, IdleKeeps DEF MailInv

(* A row that goes is forgotten by every call. *)
LEMMA RestrainedKeeps ==
  ASSUME MailInv, NEW q \in Procs, NEW a \in Addresses, mail' = [mail EXCEPT ![a] = NoMail],
         mailCall'[q] = Restrained(mailCall[q], a)
  PROVE  mailCall'[q] \in MailCallTypes /\ MailShaped(q)' /\ MailRelied(q)'
<1> DEFINE call   == mailCall[q]
           others == [b \in DOMAIN call.others \ {a} |-> call.others[b]]
           known  == call.known /\ call.own # a
<1>1. call \in MailCallTypes
  BY DEF MailInv, MailTyped
<1>2. call.others \in Selections
  BY <1>1 DEF MailCallTypes
<1>3. DOMAIN call.others \subseteq Addresses /\ \A b \in DOMAIN call.others : call.others[b] \in Lists
  BY <1>2, MailSelection
<1>4. others \in Selections /\ DOMAIN others = DOMAIN call.others \ {a}
  <2>1. others \in [DOMAIN call.others \ {a} -> Lists]
    BY <1>3
  <2>2. DOMAIN call.others \ {a} \in SUBSET Addresses
    BY <1>3
  <2> HIDE DEF others
  <2> QED  BY <2>1, <2>2 DEF Selections
<1>5. known \in BOOLEAN
  OBVIOUS
<1>6. mailCall'[q] = [call EXCEPT !.known = known, !.stale = @ \cup {a}, !.others = others]
  BY DEF Restrained
<1> HIDE DEF others, known, call
<1>7. /\ mailCall'[q] \in MailCallTypes /\ mailCall'[q].op = call.op /\ mailCall'[q].own = call.own
      /\ mailCall'[q].status = call.status /\ mailCall'[q].data = call.data
      /\ mailCall'[q].others = others /\ mailCall'[q].stale = call.stale \cup {a}
  <2>1. PICK stale \in SUBSET Addresses : stale = call.stale \cup {a}
    BY <1>1 DEF MailCallTypes
  <2>2. mailCall'[q] = [call EXCEPT !.known = known, !.stale = stale, !.others = others]
    BY <1>1, <1>6, <2>1 DEF MailCallTypes
  <2> QED  BY <1>1, <1>4, <1>5, <2>1, <2>2 DEF MailCallTypes
<1>8. mailCall'[q].selected <=> call.selected
  BY <1>1, <1>6 DEF MailCallTypes
<1>9. mailCall'[q].known => call.known /\ call.own # a
  <2>1. mailCall'[q].known = known
    BY <1>1, <1>6 DEF MailCallTypes
  <2> QED  BY <2>1 DEF known
<1> USE DEF call
<1>10. \A b \in Addresses \ {a} : /\ There(b)' <=> There(b)
                                  /\ LiveMail(b)' <=> LiveMail(b)
                                  /\ mail'[b].status = mail[b].status /\ mail'[b].data = mail[b].data
  BY DEF LiveMail, There, MailInv, MailTyped
<1>11. MailShaped(q)'
  BY <1>3, <1>4, <1>7, <1>9, <1>10 DEF MailInv, MailShaped
<1>12. MailRelied(q)'
  <2>1. call.known => call.own \in Addresses
    BY DEF MailInv, MailShaped
  <2> QED  BY <1>4, <1>7, <1>8, <1>9, <1>10, <2>1 DEF MailInv, MailRelied
<1> QED  BY <1>7, <1>11, <1>12

(* How the daemon leaves the row it has worked off. *)
LEMMA MailWorked ==
  ASSUME MailInv, MailDaemonDone
  PROVE  LET a == work.at
         IN  /\ a \in Addresses /\ mail[a] \in MailRows /\ work.row \in MailRows
             /\ work' = None /\ mailLeft' = mailLeft
             /\ \/ /\ mail' = [mail EXCEPT ![a].status = "error"] /\ served' = served
                   /\ mailCall' = [p \in Procs |-> IF mailCall[p] = NoCall THEN NoCall
                                                  ELSE [mailCall[p] EXCEPT !.stale = @ \cup {a}]]
                \/ /\ mail' = [mail EXCEPT ![a].status = "ok"] /\ served' = [served EXCEPT ![a] = work.row.data]
                   /\ mailCall' = [p \in Procs |-> IF mailCall[p] = NoCall THEN NoCall
                                                  ELSE [mailCall[p] EXCEPT !.stale = @ \cup {a}]]
                \/ /\ mail' = [mail EXCEPT ![a] = NoMail] /\ served' = [served EXCEPT ![a] = None]
                   /\ mailCall' = [p \in Procs |-> IF mailCall[p] = NoCall THEN NoCall ELSE Restrained(mailCall[p], a)]
<1>1. work # None /\ work.at \in Addresses /\ work.row \in MailRows
  BY DEF MailDaemonDone, MailInv, MailTyped
<1>2. mail[work.at] \in MailRows
  BY <1>1, MailRow DEF MailInv, WorkThere, There, MailTyped
<1> QED  BY <1>1, <1>2 DEF MailDaemonDone

LEMMA MailRowStatus ==
  ASSUME MailInv, NEW a \in Addresses, mail[a] \in MailRows, NEW s \in Waiting \cup {"ok", "error"},
         mail' = [mail EXCEPT ![a].status = s]
  PROVE  /\ mail' \in [Addresses -> MailRows \cup {NoMail}]
         /\ mail'[a] \in MailRows /\ mail'[a].status = s /\ mail'[a].data = mail[a].data
         /\ \A b \in Addresses \ {a} : mail'[b] = mail[b]
         /\ \A b \in Addresses : There(b) => There(b)'
<1>1. [mail[a] EXCEPT !.status = s] \in MailRows /\ [mail[a] EXCEPT !.status = s].status = s
      /\ [mail[a] EXCEPT !.status = s].data = mail[a].data
  BY DEF MailRows
<1>2. mail' = [mail EXCEPT ![a] = [mail[a] EXCEPT !.status = s]]
  BY DEF MailInv, MailTyped
<1> DEFINE row == [mail[a] EXCEPT !.status = s]
<1> HIDE DEF row
<1>3. mail' \in [Addresses -> MailRows \cup {NoMail}] /\ mail'[a] = row /\ \A b \in Addresses \ {a} : mail'[b] = mail[b]
  BY <1>1, <1>2 DEF MailInv, MailTyped, row
<1>4. \A b \in Addresses : There(b) => There(b)'
  BY <1>1, <1>3, MailRow DEF There, row
<1> QED  BY <1>1, <1>3, <1>4 DEF row

LEMMA MailDoneKeeps ==
  ASSUME MailInv, MailDaemonDone
  PROVE  MailInv'
<1> DEFINE a == work.at
<1>1. a \in Addresses /\ mail[a] \in MailRows /\ work.row.data \in Data /\ work' = None /\ mailLeft' = mailLeft
  BY MailWorked DEF MailRows
<1>2. ASSUME NEW s \in {"ok", "error"}, mail' = [mail EXCEPT ![a].status = s], NEW q \in Procs,
             mailCall'[q] = IF mailCall[q] = NoCall THEN NoCall ELSE [mailCall[q] EXCEPT !.stale = @ \cup {a}]
      PROVE  mailCall'[q] \in MailCallTypes /\ MailShaped(q)' /\ MailRelied(q)'
  <2>1. /\ mail' \in [Addresses -> MailRows \cup {NoMail}]
        /\ \A b \in Addresses \ {a} : mail'[b] = mail[b]
        /\ \A b \in Addresses : There(b) => There(b)'
    BY <1>1, <1>2, MailRowStatus
  <2>2. CASE mailCall'[q] = [mailCall[q] EXCEPT !.stale = @ \cup {a}]
    <3>1. PICK changed \in SUBSET Addresses : changed = {a}
      BY <1>1
    <3> QED  BY <2>1, <2>2, <3>1, StaleKeeps
  <2> QED  BY <1>2, <2>2, IdleKeeps
<1>3. ASSUME NEW q \in Procs
      PROVE  mailCall'[q] \in MailCallTypes /\ MailShaped(q)' /\ MailRelied(q)'
  BY <1>1, <1>2, MailWorked, IdleKeeps, RestrainedKeeps
<1>4. mailCall' \in [Procs -> MailCallTypes]
  BY <1>3, MailWorked
<1>5. mail' \in [Addresses -> MailRows \cup {NoMail}]
  <2>1. ASSUME NEW s \in {"ok", "error"}, mail' = [mail EXCEPT ![a].status = s]
        PROVE  mail' \in [Addresses -> MailRows \cup {NoMail}]
    BY <1>1, <2>1, MailRowStatus
  <2>2. CASE mail' = [mail EXCEPT ![a] = NoMail]
    BY <2>2 DEF MailInv, MailTyped
  <2> QED  BY <2>1, <2>2, MailWorked
<1>6. served' \in [Addresses -> Data \cup {None}]
  BY <1>1, MailWorked DEF MailInv, MailTyped
<1>7. MailTyped' /\ WorkThere'
  BY <1>1, <1>4, <1>5, <1>6 DEF MailInv, MailTyped, WorkThere
<1> QED  BY <1>3, <1>7 DEF MailInv

LEMMA MailTakeKeeps ==
  ASSUME MailInv, NEW a \in Addresses, MailDaemonTake(a)
  PROVE  MailInv'
<1>1. There(a) /\ mail[a] \in MailRows
  BY MailRow DEF MailDaemonTake, Waiting, There, MailInv, MailTyped
<1>2. MailTyped' /\ WorkThere'
  BY <1>1 DEF MailDaemonTake, MailInv, MailTyped, WorkThere, There
<1>3. ASSUME NEW q \in Procs  PROVE MailShaped(q)' /\ MailRelied(q)'
  BY <1>3 DEF MailDaemonTake, MailInv, MailShaped, MailRelied, There, LiveMail
<1> QED  BY <1>2, <1>3 DEF MailInv

LEMMA MailKeeps == MailInv /\ [MailNext]_mailVars => MailInv'
<1> SUFFICES ASSUME MailInv, [MailNext]_mailVars  PROVE MailInv'
  OBVIOUS
<1>1. ASSUME NEW p \in Procs, MailStep(p)  PROVE MailInv'
  BY <1>1, MailChecksKeep, MailCommitsKeep, MailSelectKeeps, MailEndKeeps DEF MailStep
<1>2. CASE UNCHANGED mailVars
  <2>1. MailTyped' /\ WorkThere'
    BY <1>2 DEF mailVars, MailInv, MailTyped, WorkThere, There
  <2>2. ASSUME NEW q \in Procs  PROVE MailShaped(q)' /\ MailRelied(q)'
    BY <1>2, <2>2 DEF mailVars, MailInv, MailShaped, MailRelied, There, LiveMail
  <2> QED  BY <2>1, <2>2 DEF MailInv
<1> QED  BY <1>1, <1>2, MailDoneKeeps, MailTakeKeeps DEF MailNext

LEMMA MailInvariant == MailSpec => []MailInv
  BY MailInitially, MailKeeps, PTL DEF MailSpec

(* Every variable keeps its shape. *)
THEOREM MailTypeCorrect == MailSpec => []MailTypeOK
<1>1. MailInv => MailTypeOK
  BY MailTypedOK DEF MailInv
<1> QED  BY MailInvariant, <1>1, PTL

---------------------------------------------------------------------------
(* What a step makes of a row. *)

MailKept(a) ==
    /\ OkIsServed(a) => OkIsServed(a)'
    /\ mail[a].status = "todelete" => mail'[a].status \in {"todelete", "absent", "error"}

(* A row is kept if nothing is written; if it is left to do; if it was not *)
(* going and is written as still to be worked off.                         *)
LEMMA MailKeeping ==
  ASSUME NEW a, served' = served,
         \/ mail'[a] = mail[a]
         \/ mail'[a].status = "todelete"
         \/ mail'[a].status \in {"toadd", "tochange"} /\ mail[a].status # "todelete"
         \/ mail'[a].status = "ok" /\ mail[a].status = "ok" /\ mail'[a].data = mail[a].data
  PROVE  MailKept(a)
<1>1. CASE mail'[a] = mail[a]
  BY <1>1 DEF MailKept, OkIsServed
<1>2. CASE mail'[a].status = "todelete"
  BY <1>2 DEF MailKept, OkIsServed
<1>3. CASE mail'[a].status \in {"toadd", "tochange"} /\ mail[a].status # "todelete"
  BY <1>3 DEF MailKept, OkIsServed
<1>4. CASE mail'[a].status = "ok" /\ mail[a].status = "ok" /\ mail'[a].data = mail[a].data
  BY <1>4 DEF MailKept, OkIsServed
<1> QED  BY <1>1, <1>2, <1>3, <1>4

(* The call that commits was stale for whatever it was marked stale for.   *)
LEMMA MailCommitting ==
  ASSUME NEW p \in Procs, NEW changed, mailCall[p].op # "none", MailCommit(p, changed),
         NEW a \in mailCall[p].stale
  PROVE  Stale(p, a) /\ mailCall'[p] = NoCall
  BY NoCallTyped DEF Stale, MailCommit

(* UPDATE ... WHERE mail_id writes one row or none. *)
LEMMA MailWritten ==
  ASSUME MailInv, NEW p \in Procs, NEW row, MailWrite(p, row), NEW a \in Addresses
  PROVE  /\ served' = served
         /\ \/ mail'[a] = mail[a]
            \/ a = mailCall[p].own /\ mailCall[p].known /\ mail'[a] = row
  BY DEF MailWrite, MailCommit, MailInv, MailTyped

(* Only commits write rows. *)
LEMMA MailWriting ==
  ASSUME NEW p \in Procs, MailStep(p)
  PROVE  \/ mail' = mail /\ served' = served
         \/ MailCreateCommit(p) \/ MailUpdateCommit(p) \/ AutoresponderCommit(p) \/ CatchallDeleteCommit(p)
         \/ MailDeleteCommit(p)
<1>1. ASSUME NEW op, NEW a, NEW status, NEW data, MailDecide(p, op, a, status, data)
      PROVE  mail' = mail /\ served' = served
  BY <1>1 DEF MailDecide
<1>2. ASSUME NEW a, NEW kind, NEW list, NEW limit,
             MailCreateCheck(p, a, kind, list, limit) \/ MailUpdateCheck(p, a, kind, list, limit)
      PROVE  mail' = mail /\ served' = served
  BY <1>1, <1>2 DEF MailCreateCheck, MailUpdateCheck
<1>3. ASSUME NEW a, NEW enabled, AutoresponderCheck(p, a, enabled)  PROVE mail' = mail /\ served' = served
  BY <1>1, <1>3 DEF AutoresponderCheck
<1>4. ASSUME NEW a, NEW list, CatchallCreateCheck(p, a, list) \/ CatchallDeleteCheck(p, a) \/ MailDeleteCheck(p, a)
      PROVE  mail' = mail /\ served' = served
  BY <1>1, <1>4 DEF CatchallCreateCheck, CatchallDeleteCheck, MailDeleteCheck
<1>5. MailDeleteSelect(p) \/ MailRollback(p) => mail' = mail /\ served' = served
  BY DEF MailDeleteSelect, MailRollback
<1> QED  BY <1>2, <1>3, <1>4, <1>5 DEF MailStep

LEMMA WriteKept ==
  ASSUME MailInv, NEW p \in Procs, NEW a \in Addresses,
         MailUpdateCommit(p) \/ AutoresponderCommit(p) \/ CatchallDeleteCommit(p)
  PROVE  MailKept(a) \/ Stale(p, a)
<1> DEFINE own == mailCall[p].own
<1>1. CASE MailUpdateCommit(p)
  <2> DEFINE row == [status |-> "tochange", data |-> [mailCall[p].data EXCEPT !.reply = mail[own].data.reply]]
  <2>1. mailCall[p].op = "update" /\ MailWrite(p, row) /\ row.status = "tochange"
    BY <1>1 DEF MailUpdateCommit
  <2> HIDE DEF row
  <2>2. CASE mailCall[p].known /\ a = own /\ a \in mailCall[p].stale
    BY <2>1, <2>2, MailCommitting DEF MailWrite
  <2>3. CASE mailCall[p].known /\ a = own /\ a \notin mailCall[p].stale
    <3>1. mail[a].status = "ok"
      BY <2>1, <2>3 DEF MailInv, MailRelied
    <3> QED  BY <2>1, <3>1, MailWritten, MailKeeping
  <2>4. CASE ~(mailCall[p].known /\ a = own)
    BY <2>1, <2>4, MailWritten, MailKeeping
  <2> QED  BY <2>2, <2>3, <2>4
<1>2. CASE AutoresponderCommit(p)
  <2> DEFINE row == [status |-> mailCall[p].status, data |-> [mail[own].data EXCEPT !.reply = mailCall[p].data.reply]]
  <2>1. mailCall[p].op = "reply" /\ MailWrite(p, row) /\ row.status = mailCall[p].status
        /\ row.data = [mail[own].data EXCEPT !.reply = mailCall[p].data.reply]
    BY <1>2 DEF AutoresponderCommit
  <2> HIDE DEF row
  <2>2. CASE mailCall[p].known /\ a = own /\ a \in mailCall[p].stale
    BY <2>1, <2>2, MailCommitting DEF MailWrite
  <2>3. CASE mailCall[p].known /\ a = own /\ a \notin mailCall[p].stale
    <3>1. mail[a].status = "ok" /\ (mailCall[p].status = "ok" => ~mailCall[p].data.reply /\ ~mail[a].data.reply)
      BY <2>1, <2>3 DEF MailInv, MailRelied
    <3>2. mail[a].data \in Data /\ mailCall[p].data \in Data /\ mailCall[p].status \in {"ok", "tochange"}
      BY <2>1, <2>3, KnownRow DEF MailInv, MailShaped, MailTyped, MailCallTypes
    <3>3. ASSUME mailCall[p].status = "ok"  PROVE row.data = mail[a].data
      <4>1. mail[a].data.reply = mailCall[p].data.reply
        BY <3>1, <3>2, <3>3 DEF Data
      <4> QED  BY <2>1, <2>3, <3>2, <4>1 DEF Data
    <3>4. MailKept(a) \/ mail'[a] = row
      BY <2>1, MailWritten, MailKeeping
    <3>5. ASSUME mail'[a] = row  PROVE MailKept(a)
      <4>1. \/ mail'[a].status = "tochange" /\ mail[a].status # "todelete"
            \/ mail'[a].status = "ok" /\ mail[a].status = "ok" /\ mail'[a].data = mail[a].data
        BY <2>1, <3>1, <3>2, <3>3, <3>5
      <4> QED  BY <2>1, <4>1, MailWritten, MailKeeping
    <3> QED  BY <3>4, <3>5
  <2>4. CASE ~(mailCall[p].known /\ a = own)
    BY <2>1, <2>4, MailWritten, MailKeeping
  <2> QED  BY <2>2, <2>3, <2>4
<1>3. CASE CatchallDeleteCommit(p)
  <2> DEFINE row == [mail[own] EXCEPT !.status = "todelete"]
  <2>1. MailWrite(p, row)
    BY <1>3 DEF CatchallDeleteCommit
  <2>2. mailCall[p].known => row.status = "todelete"
    BY KnownRow DEF MailRows
  <2> HIDE DEF row
  <2> QED  BY <2>1, <2>2, MailWritten, MailKeeping
<1> QED  BY <1>1, <1>2, <1>3

LEMMA CreateKept ==
  ASSUME MailInv, NEW p \in Procs, NEW a \in Addresses, MailCreateCommit(p)
  PROVE  MailKept(a)
<1> DEFINE own == mailCall[p].own
           row == [status |-> "toadd", data |-> mailCall[p].data]
<1>1. served' = served
  BY DEF MailCreateCommit, MailCommit
<1>2. CASE mail' = mail
  BY <1>1, <1>2, MailKeeping
<1>3. CASE ~There(own) /\ mail' = [mail EXCEPT ![own] = row]
  <2>1. mail'[a] = IF a = own THEN row ELSE mail[a]
    BY <1>3 DEF MailInv, MailTyped
  <2>2. mail[own].status = "absent"
    BY <1>3 DEF There, NoMail
  <2> QED  BY <1>1, <2>1, <2>2, MailKeeping
<1> QED  BY <1>2, <1>3 DEF MailCreateCommit

LEMMA DeleteKept ==
  ASSUME MailInv, NEW p \in Procs, NEW a \in Addresses, MailDeleteCommit(p)
  PROVE  MailKept(a) \/ Stale(p, a)
<1> DEFINE own  == mailCall[p].own
           list == mailCall[p].others[a] \ {own}
<1>1. mailCall[p].op = "delete" /\ mailCall[p].selected /\ served' = served
  BY MailDeletion DEF MailCommit
<1>2. CASE mail'[a].status = "todelete" \/ mail'[a] = mail[a]
  BY <1>1, <1>2, MailKeeping
<1>3. CASE a \in DOMAIN mailCall[p].others /\ mail[a] \in MailRows /\ list \in Lists /\ mail'[a] = WithList(mail[a], list)
  <2>1. CASE a \in mailCall[p].stale
    BY <1>1, <2>1, MailCommitting, MailDeletion
  <2>2. CASE a \notin mailCall[p].stale
    <3>1. mail[a].status # "todelete"
      BY <1>1, <1>3, <2>2 DEF MailInv, MailRelied, LiveMail
    <3>2. mail'[a].status \in {"todelete", "toadd", "tochange"}
      BY <1>3, WithListTyped
    <3> QED  BY <1>1, <3>1, <3>2, MailKeeping
  <2> QED  BY <2>1, <2>2
<1> QED  BY <1>2, <1>3, MailDeletion

(* The daemon marks as done what it has served, unless the row has been    *)
(* written since.                                                          *)
LEMMA DoneKept ==
  ASSUME MailInv, MailDaemonDone, NEW a \in Addresses
  PROVE  MailKept(a) \/ (work # None /\ work' = None /\ work.at = a /\ mail[a] # work.row)
<1>1. work # None /\ work' = None /\ work.at \in Addresses /\ mail[work.at] \in MailRows
  BY MailWorked DEF MailDaemonDone
<1>2. CASE a # work.at
  <2>1. mail'[a] = mail[a] /\ served'[a] = served[a]
    BY <1>1, <1>2, MailWorked DEF MailInv, MailTyped
  <2> QED  BY <2>1 DEF MailKept, OkIsServed
<1>3. CASE a = work.at /\ mail[a] = work.row
  <2>1. CASE mail' = [mail EXCEPT ![a].status = "error"]
    <3>1. mail'[a].status = "error"
      BY <1>1, <1>3, <2>1, MailRowStatus
    <3> QED  BY <3>1 DEF MailKept, OkIsServed
  <2>2. CASE work.row.status # "todelete" /\ mail' = [mail EXCEPT ![a].status = "ok"]
             /\ served' = [served EXCEPT ![a] = work.row.data]
    <3>1. mail'[a].data = mail[a].data
      BY <1>1, <1>3, <2>2, MailRowStatus
    <3>2. served'[a] = work.row.data
      BY <2>2 DEF MailInv, MailTyped
    <3> QED  BY <1>3, <2>2, <3>1, <3>2 DEF MailKept, OkIsServed
  <2>3. CASE mail' = [mail EXCEPT ![a] = NoMail]
    <3>1. mail'[a].status = "absent"
      BY <2>3 DEF MailInv, MailTyped, NoMail
    <3> QED  BY <3>1 DEF MailKept, OkIsServed
  <2> QED  BY <1>3, <2>1, <2>2, <2>3 DEF MailDaemonDone
<1> QED  BY <1>1, <1>2, <1>3

(* A row that says ok is served, and what is being deleted stays so, but   *)
(* for a call that writes what another has written since, or the daemon    *)
(* when a list has changed under its hands - for any number of addresses   *)
(* and processes.                                                          *)
THEOREM LostOnlyByOverlap == MailSpec => MailLostByOverlap
<1>1. ASSUME MailInv, [MailNext]_mailVars, NEW a \in Addresses
      PROVE  \/ MailKept(a)
             \/ \E p \in Procs : Stale(p, a)
             \/ work # None /\ work' = None /\ work.at = a /\ mail[a] # work.row
  <2>1. CASE mail' = mail /\ served' = served
    BY <2>1, MailKeeping
  <2>2. ASSUME NEW p \in Procs, MailStep(p)
        PROVE  (mail' = mail /\ served' = served) \/ MailKept(a) \/ Stale(p, a)
    BY <1>1, <2>2, MailWriting, WriteKept, CreateKept, DeleteKept
  <2>3. ASSUME NEW b \in Addresses, MailDaemonTake(b)  PROVE mail' = mail /\ served' = served
    BY <2>3 DEF MailDaemonTake
  <2> QED  BY <1>1, <2>1, <2>2, <2>3, DoneKept DEF MailNext, mailVars
<1>2. ASSUME MailInv, [MailNext]_mailVars
      PROVE  \A a \in Addresses :
                \/ /\ OkIsServed(a) => OkIsServed(a)'
                   /\ mail[a].status = "todelete" => mail'[a].status \in {"todelete", "absent", "error"}
                \/ \E p \in Procs : Stale(p, a)
                \/ work # None /\ work' = None /\ work.at = a /\ mail[a] # work.row
  BY <1>1, <1>2 DEF MailKept
<1> QED  BY MailInvariant, <1>2, PTL DEF MailSpec, MailLostByOverlap

---------------------------------------------------------------------------
(* What is left of a deleted address. *)

LEMMA DeletionUnlists ==
  ASSUME MailInv, NEW p \in Procs, MailDeleteCommit(p), mailCall[p].known,
         NEW b \in Addresses, LiveMail(b)', mailCall[p].own \in mail'[b].data.list
  PROVE  Stale(p, b)
<1> DEFINE a    == mailCall[p].own
           list == mailCall[p].others[b] \ {a}
<1>1. mailCall[p].op = "delete" /\ mailCall[p].selected
  BY MailDeletion
<1>2. mail'[b].status # "todelete"
  BY DEF LiveMail
<1>3. ~(b \in DOMAIN mailCall[p].others /\ mail[b] \in MailRows /\ list \in Lists /\ mail'[b] = WithList(mail[b], list))
  BY <1>2, WithListTyped
<1>4. b # a /\ b \notin DOMAIN mailCall[p].others /\ mail'[b] = mail[b]
  BY <1>2, <1>3, MailDeletion
<1>5. LiveMail(b) /\ a \in mail[b].data.list
  BY <1>4 DEF LiveMail, There
<1>6. b \in mailCall[p].stale
  BY <1>1, <1>4, <1>5 DEF MailInv, MailRelied
<1> QED  BY <1>1, <1>6, MailCommitting, MailDeletion

(* A deletion ends with its own commit, or leaves the rows alone. *)
LEMMA DeletionEnds ==
  ASSUME MailInv, [MailNext]_mailVars, NEW p \in Procs,
         mailCall[p].op = "delete", mail' # mail, mailCall'[p] = NoCall
  PROVE  MailDeleteCommit(p)
<1>1. mailCall[p] # NoCall /\ mailCall[p] \in MailCallTypes /\ NoCall.op # "delete"
  BY NoCallTyped DEF MailInv, MailTyped
<1>2. ASSUME NEW changed, mailCall'[p] = [mailCall[p] EXCEPT !.stale = @ \cup changed]  PROVE FALSE
  BY <1>1, <1>2 DEF MailCallTypes
<1>3. ASSUME NEW a, mailCall'[p] = Restrained(mailCall[p], a)  PROVE FALSE
  BY <1>1, <1>3 DEF MailCallTypes, Restrained
<1>4. ASSUME NEW q \in Procs, NEW changed, MailCommit(q, changed)  PROVE q = p
  BY <1>1, <1>2, <1>4 DEF MailCommit
<1>5. ASSUME NEW q \in Procs, MailStep(q)  PROVE MailDeleteCommit(p)
  <2>1. \/ MailCreateCommit(q) \/ MailUpdateCommit(q) \/ AutoresponderCommit(q) \/ CatchallDeleteCommit(q)
        \/ MailDeleteCommit(q)
    BY <1>5, MailWriting
  <2>2. q = p
    BY <1>4, <2>1 DEF MailCreateCommit, MailUpdateCommit, AutoresponderCommit, CatchallDeleteCommit, MailDeleteCommit,
                      MailWrite
  <2> QED  BY <2>1, <2>2 DEF MailCreateCommit, MailUpdateCommit, AutoresponderCommit, CatchallDeleteCommit
<1>6. ~MailDaemonDone
  BY <1>1, <1>2, <1>3, MailWorked
<1> QED  BY <1>5, <1>6 DEF MailNext, MailDaemonTake, mailVars

(* A deleted address is on no list of the customer's other accounts, but   *)
(* for rows written since the deletion read them - for any number of       *)
(* addresses and processes.                                                *)
THEOREM DeletionsUnlist == MailSpec => DeletedIsUnlisted
<1>1. ASSUME MailInv, [MailNext]_mailVars
      PROVE  \A p \in Procs :
                mailCall[p].op = "delete" /\ mailCall[p].selected /\ mailCall[p].known /\ mail' # mail
                /\ mailCall'[p] = NoCall
                => \A b \in Addresses : LiveMail(b)' /\ mailCall[p].own \in mail'[b].data.list => Stale(p, b)
  BY <1>1, DeletionEnds, DeletionUnlists
<1> QED  BY MailInvariant, <1>1, PTL DEF MailSpec, DeletedIsUnlisted

---------------------------------------------------------------------------
(***************************************************************************)
(* The customer's mail quota.  What a check has compared still holds as    *)
(* long as nobody has written any row since: the quota of a new mailbox    *)
(* fits beside the others, a changed one takes no more than it had or fits,*)
(* and the lists a deletion has selected are those of the rows.            *)
(***************************************************************************)

(* QuotaUse() and Fits() over any rows. *)
QuotaSum(rows, but) == SumFunction([a \in {b \in Addresses \ but : rows[b] # NoMail} |-> rows[a].data.quota])

FitsIn(rows, units, but) == PoolLimit > 0 => units >= 1 /\ units <= PoolLimit - QuotaSum(rows, but)

MailPromised(call, rows) ==
    call.stale = {} =>
        /\ call.op = "create" =>
              /\ WellFormed(call.own, call.data)
              /\ call.data.quota = 0 \/ FitsIn(rows, call.data.quota, {})
        /\ call.op = "update" =>
              /\ WellFormed(call.own, rows[call.own].data) => WellFormed(call.own, call.data)
              /\ call.data.quota <= rows[call.own].data.quota \/ FitsIn(rows, call.data.quota, {call.own})
        /\ call.op = "delete" /\ call.selected =>
              \A b \in DOMAIN call.others : call.others[b] = rows[b].data.list /\ call.own \in call.others[b]

MailPromises == \A p \in Procs : MailPromised(mailCall[p], mail)

QuotasOf == [Addresses -> MailRows \cup {NoMail}]

(* What one row takes of the quota. *)
Share(rows, a) == IF rows[a] = NoMail THEN 0 ELSE rows[a].data.quota

LEMMA DataFields ==
  ASSUME NEW d \in Data
  PROVE  d.quota \in Nat /\ d.kind \in Kinds /\ d.list \in Lists
<1>1. d.quota \in Quotas \cup {0} /\ d.kind \in Kinds /\ d.list \in Lists
  BY DEF Data
<1>2. Quotas \cup {0} \subseteq Nat
  BY MailConfigured
<1> QED  BY <1>1, <1>2

LEMMA QuotaRow ==
  ASSUME NEW rows \in QuotasOf, NEW a \in Addresses
  PROVE  /\ rows[a] # NoMail => rows[a] \in MailRows /\ rows[a].data \in Data /\ rows[a].data.quota \in Nat
         /\ Share(rows, a) \in Nat
<1>1. rows[a] \in MailRows \cup {NoMail}
  BY DEF QuotasOf
<1>2. CASE rows[a] = NoMail
  BY <1>2 DEF Share
<1>3. CASE rows[a] # NoMail
  <2>1. rows[a] \in MailRows /\ rows[a].data \in Data
    BY <1>1, <1>3, MailRow
  <2>2. rows[a].data.quota \in Nat
    BY <2>1, DataFields
  <2> QED  BY <1>3, <2>1, <2>2 DEF Share
<1> QED  BY <1>2, <1>3

LEMMA QuotaSumIsNumber ==
  ASSUME NEW rows \in QuotasOf, NEW but
  PROVE  QuotaSum(rows, but) \in Nat
<1> DEFINE S == {b \in Addresses \ but : rows[b] # NoMail}
           fun == [a \in S |-> rows[a].data.quota]
<1>1. IsFiniteSet(S)
  <2>1. IsFiniteSet(Addresses) /\ S \in SUBSET Addresses
    BY MailConfigured, FS_Union DEF Addresses
  <2> QED  BY <2>1, FS_Subset
<1>2. fun \in [S -> Nat]
  <2>1. \A a \in Addresses : rows[a] # NoMail => rows[a].data.quota \in Nat
    BY QuotaRow
  <2> QED  BY <2>1
<1>3. QuotaSum(rows, but) = SumFunction(fun)
  BY DEF QuotaSum
<1> HIDE DEF S, fun
<1> QED  BY <1>1, <1>2, <1>3, SumOfFunction

(* When one row changes, the others take what they took. *)
LEMMA QuotaSumChange ==
  ASSUME NEW rows \in QuotasOf, NEW new \in QuotasOf, NEW a \in Addresses,
         \A b \in Addresses \ {a} : new[b] = rows[b]
  PROVE  /\ QuotaSum(rows, {}) = QuotaSum(rows, {a}) + Share(rows, a)
         /\ QuotaSum(new, {}) = QuotaSum(rows, {a}) + Share(new, a)
<1>1. ASSUME NEW any \in QuotasOf
      PROVE  QuotaSum(any, {}) = QuotaSum(any, {a}) + Share(any, a)
  <2> DEFINE S == {b \in Addresses \ {} : any[b] # NoMail}
             T == {b \in Addresses \ {a} : any[b] # NoMail}
             fun == [b \in S |-> any[b].data.quota]
             rest == [b \in T |-> any[b].data.quota]
  <2>1. QuotaSum(any, {}) = SumFunction(fun) /\ QuotaSum(any, {a}) = SumFunction(rest)
    BY DEF QuotaSum
  <2>2. CASE any[a] = NoMail
    <3>1. fun = rest
      <4>1. S = T
        BY <2>2
      <4> QED  BY <4>1
    <3>2. QuotaSum(any, {a}) \in Nat
      BY QuotaSumIsNumber
    <3> QED  BY <2>1, <2>2, <3>1, <3>2 DEF Share
  <2>3. CASE any[a] # NoMail
    <3>1. IsFiniteSet(S)
      <4>1. IsFiniteSet(Addresses) /\ S \in SUBSET Addresses
        BY MailConfigured, FS_Union DEF Addresses
      <4> QED  BY <4>1, FS_Subset
    <3>2. fun \in [S -> Nat] /\ a \in S
      <4>1. \A b \in Addresses : any[b] # NoMail => any[b].data.quota \in Nat
        BY QuotaRow
      <4> QED  BY <2>3, <4>1
    <3>3. T = S \ {a} /\ fun[a] = Share(any, a)
      BY <2>3 DEF Share
    <3>4. [z \in S \ {a} |-> fun[z]] = rest
      BY <3>3
    <3>5. QuotaSum(any, {a}) \in Nat /\ Share(any, a) \in Nat
      BY QuotaSumIsNumber, QuotaRow
    <3> HIDE DEF S, T, fun, rest
    <3>6. SumFunction(fun) = fun[a] + SumFunction([z \in S \ {a} |-> fun[z]])
      BY <3>1, <3>2, SumOfFunction
    <3>7. SumFunction(fun) = Share(any, a) + SumFunction(rest)
      BY <3>3, <3>4, <3>6
    <3> QED  BY <2>1, <3>5, <3>7
  <2> QED  BY <2>2, <2>3
<1>2. QuotaSum(new, {a}) = QuotaSum(rows, {a})
  <2>1. {b \in Addresses \ {a} : new[b] # NoMail} = {b \in Addresses \ {a} : rows[b] # NoMail}
    OBVIOUS
  <2>2. [c \in {b \in Addresses \ {a} : new[b] # NoMail} |-> new[c].data.quota]
        = [c \in {b \in Addresses \ {a} : rows[b] # NoMail} |-> rows[c].data.quota]
    BY <2>1
  <2> QED  BY <2>2 DEF QuotaSum
<1> QED  BY <1>1, <1>2

LEMMA QuotaSumSame ==
  ASSUME NEW rows, NEW new,
         \A b \in Addresses : /\ new[b] # NoMail <=> rows[b] # NoMail
                              /\ rows[b] # NoMail => new[b].data.quota = rows[b].data.quota
  PROVE  QuotaSum(new, {}) = QuotaSum(rows, {})
<1>1. {b \in Addresses \ {} : new[b] # NoMail} = {b \in Addresses \ {} : rows[b] # NoMail}
  OBVIOUS
<1>2. [c \in {b \in Addresses \ {} : new[b] # NoMail} |-> new[c].data.quota]
      = [c \in {b \in Addresses \ {} : rows[b] # NoMail} |-> rows[c].data.quota]
  BY <1>1
<1> QED  BY <1>2 DEF QuotaSum

---------------------------------------------------------------------------
(* The promises, action by action. *)

LEMMA NothingPromised ==
  ASSUME NEW call, NEW rows, call.stale # {} \/ call = NoCall
  PROVE  MailPromised(call, rows)
  BY NoCallTyped DEF MailPromised

(* A call of which only what it does not promise by has changed. *)
LEMMA SamePromise ==
  ASSUME NEW call, NEW new, NEW rows, MailPromised(call, rows),
         new.op = call.op, new.own = call.own, new.data = call.data, new.selected <=> call.selected,
         new.others = call.others, new.stale = call.stale
  PROVE  MailPromised(new, rows)
  BY DEF MailPromised

LEMMA SomeOperations == {"create", "update", "reply", "delete"} \subseteq MailOperations
  BY DEF MailOperations

LEMMA DecidePromises ==
  ASSUME MailInv, MailPromises, NEW p \in Procs, NEW op \in MailOperations, NEW a \in Addresses,
         NEW status \in {"ok", "tochange"}, NEW data \in Data \cup {None}, MailDecide(p, op, a, status, data),
         op = "create" => WellFormed(a, data) /\ (data.quota = 0 \/ FitsIn(mail, data.quota, {})),
         op = "update" => /\ WellFormed(a, mail[a].data) => WellFormed(a, data)
                          /\ data.quota <= mail[a].data.quota \/ FitsIn(mail, data.quota, {a})
  PROVE  \A q \in Procs : MailPromised(mailCall'[q], mail')
<1>1. PICK known \in BOOLEAN : known = There(a)
  BY DEF There
<1>2. PICK call : call = CallOf(op, a, known, status, data)
  OBVIOUS
<1>3. call.op = op /\ call.own = a /\ call.data = data /\ ~call.selected
  BY <1>2, NewCall
<1>4. mailCall' = [mailCall EXCEPT ![p] = call] /\ mail' = mail
  BY <1>1, <1>2 DEF MailDecide, CallOf
<1>5. mailCall'[p] = call /\ \A q \in Procs : q # p => mailCall'[q] = mailCall[q]
  BY <1>4 DEF MailInv, MailTyped
<1>6. MailPromised(call, mail)
  BY <1>3 DEF MailPromised
<1> QED  BY <1>4, <1>5, <1>6 DEF MailPromises

(* What a kind carries is well formed. *)
LEMMA ValuesFormed ==
  ASSUME NEW kind \in Kinds, NEW list, NEW units \in Nat, NEW reply, NEW a \in Addresses,
         kind = "CATCHALL" <=> a \in Catchalls,
         kind # "MAILBOX" => list # {} /\ (a \in Accounts => a \notin list),
         HasMailbox(kind) => units >= (IF PoolLimit > 0 THEN 1 ELSE 0)
  PROVE  /\ WellFormed(a, Values(kind, list, units, reply))
         /\ Values(kind, list, units, reply).quota = IF HasMailbox(kind) THEN units ELSE 0
<1> DEFINE d == Values(kind, list, units, reply)
<1>1. d.kind = kind /\ d.list = (IF kind = "MAILBOX" THEN {} ELSE list) /\ d.quota = IF HasMailbox(kind) THEN units ELSE 0
  BY DEF Values
<1> HIDE DEF d
<1>2. WellFormed(a, d)
  BY <1>1 DEF WellFormed, HasList
<1> QED  BY <1>1, <1>2 DEF d

LEMMA ChecksPromise ==
  ASSUME MailInv, MailPromises, NEW p \in Procs,
         \/ \E a \in Accounts, kind \in Kinds \ {"CATCHALL"}, list \in Lists, limit \in Quotas :
               MailCreateCheck(p, a, kind, list, limit)
         \/ \E a \in Accounts, kind \in Kinds \ {"CATCHALL"}, list \in Lists \cup {None}, limit \in Quotas \cup {None} :
               MailUpdateCheck(p, a, kind, list, limit)
         \/ \E a \in Accounts, enabled \in BOOLEAN : AutoresponderCheck(p, a, enabled)
         \/ \E a \in Catchalls, list \in Lists : CatchallCreateCheck(p, a, list)
         \/ \E a \in Catchalls : CatchallDeleteCheck(p, a)
         \/ \E a \in Accounts : MailDeleteCheck(p, a)
  PROVE  \A q \in Procs : MailPromised(mailCall'[q], mail')
<1>1. ASSUME NEW a \in Accounts, NEW kind \in Kinds \ {"CATCHALL"}, NEW list \in Lists, NEW limit \in Quotas,
             MailCreateCheck(p, a, kind, list, limit)
      PROVE  \A q \in Procs : MailPromised(mailCall'[q], mail')
  <2> DEFINE d == Values(kind, list, limit, FALSE)
  <2>1. /\ MailDecide(p, "create", a, "ok", d)
        /\ kind # "MAILBOX" => list # {} /\ a \notin list
        /\ HasMailbox(kind) => FitsIn(mail, limit, {})
    BY <1>1 DEF MailCreateCheck, Fits, FitsIn, QuotaUse, QuotaSum, There
  <2>2. limit \in Nat /\ a \in Addresses /\ a \notin Catchalls /\ PoolLimit \in Nat
    BY MailConfigured DEF Addresses
  <2>3. HasMailbox(kind) => limit >= (IF PoolLimit > 0 THEN 1 ELSE 0)
    BY <2>1, <2>2 DEF FitsIn
  <2>4. WellFormed(a, d) /\ d.quota = IF HasMailbox(kind) THEN limit ELSE 0
    BY <2>1, <2>2, <2>3, ValuesFormed
  <2>5. d \in Data
    BY ValuesTyped
  <2> HIDE DEF d
  <2> QED  BY <2>1, <2>2, <2>4, <2>5, DecidePromises, SomeOperations
<1>2. ASSUME NEW a \in Accounts, NEW kind \in Kinds \ {"CATCHALL"}, NEW list \in Lists \cup {None},
             NEW limit \in Quotas \cup {None}, MailUpdateCheck(p, a, kind, list, limit)
      PROVE  \A q \in Procs : MailPromised(mailCall'[q], mail')
  <2> DEFINE now   == mail[a].data
             to    == IF list = None THEN now.list ELSE list
             units == IF limit = None THEN now.quota ELSE limit
             d     == Values(kind, to, units, now.reply)
  <2>1. /\ mail[a].status = "ok" /\ MailDecide(p, "update", a, "tochange", d)
        /\ kind # "MAILBOX" => to # {} /\ a \notin to
        /\ HasMailbox(kind) /\ (limit # None \/ ~HasMailbox(now.kind)) => FitsIn(mail, units, {a})
    BY <1>2 DEF MailUpdateCheck, Fits, FitsIn, QuotaUse, QuotaSum, There
  <2>2. a \in Addresses /\ a \notin Catchalls /\ PoolLimit \in Nat
    BY MailConfigured DEF Addresses
  <2>3. now \in Data
    BY <2>1, <2>2, OkRow
  <2>4. now.quota \in Quotas \cup {0} /\ to \in Lists /\ now.reply \in BOOLEAN /\ units \in Quotas \cup {0}
    BY <2>3 DEF Data, Lists
  <2>5. now.quota \in Nat /\ units \in Nat
    <3>1. Quotas \cup {0} \subseteq Nat
      BY MailConfigured
    <3> QED  BY <2>4, <3>1
  <2>6. d \in Data
    BY <2>4, ValuesTyped
  <2>7. d.quota = IF HasMailbox(kind) THEN units ELSE 0
    BY DEF Values
  <2>8. ASSUME WellFormed(a, now)  PROVE WellFormed(a, d)
    <3>1. HasMailbox(kind) => units >= (IF PoolLimit > 0 THEN 1 ELSE 0)
      <4> HIDE DEF now
      <4> QED  BY <2>1, <2>2, <2>5, <2>8 DEF FitsIn, WellFormed
    <3> HIDE DEF to, units, now
    <3> QED  BY <2>1, <2>2, <2>5, <3>1, ValuesFormed
  <2>9. d.quota <= now.quota \/ FitsIn(mail, d.quota, {a})
    <3> HIDE DEF d, now
    <3> QED  BY <2>1, <2>5, <2>7
  <2> HIDE DEF d
  <2> QED  BY <2>1, <2>2, <2>6, <2>8, <2>9, DecidePromises, SomeOperations
<1>3. ASSUME NEW a \in Accounts, NEW enabled \in BOOLEAN, AutoresponderCheck(p, a, enabled)
      PROVE  \A q \in Procs : MailPromised(mailCall'[q], mail')
  <2> DEFINE status == IF enabled \/ mail[a].data.reply THEN "tochange" ELSE mail[a].status
             d      == [mail[a].data EXCEPT !.reply = enabled]
  <2>1. mail[a].status = "ok" /\ MailDecide(p, "reply", a, status, d) /\ mail[a].data \in Data
    BY <1>3, OkRow DEF AutoresponderCheck, Addresses
  <2>2. d \in Data /\ status \in {"ok", "tochange"}
    BY <2>1 DEF Data
  <2> HIDE DEF status, d
  <2> QED  BY <2>1, <2>2, DecidePromises, SomeOperations DEF Addresses
<1>4. ASSUME NEW a \in Catchalls, NEW list \in Lists, CatchallCreateCheck(p, a, list)
      PROVE  \A q \in Procs : MailPromised(mailCall'[q], mail')
  <2> DEFINE d == Values("CATCHALL", list, 0, FALSE)
  <2>1. MailDecide(p, "create", a, "ok", d) /\ list # {}
    BY <1>4 DEF CatchallCreateCheck
  <2>2. a \in Addresses /\ a \notin Accounts
    BY MailConfigured DEF Addresses
  <2>3. WellFormed(a, d) /\ d.quota = 0
    <3>1. "CATCHALL" \in Kinds /\ ~HasMailbox("CATCHALL")
      BY DEF Kinds, HasMailbox
    <3> QED  BY <2>1, <2>2, <3>1, ValuesFormed
  <2>4. d \in Data
    BY ValuesTyped DEF Kinds
  <2> HIDE DEF d
  <2> QED  BY <2>1, <2>2, <2>3, <2>4, DecidePromises, SomeOperations
<1>5. ASSUME NEW a \in Catchalls, CatchallDeleteCheck(p, a)
      PROVE  \A q \in Procs : MailPromised(mailCall'[q], mail')
  <2>1. \E op \in MailOperations : MailDecide(p, op, a, "ok", None) /\ op # "create" /\ op # "update"
    BY <1>5, Zenon DEF CatchallDeleteCheck, MailOperations
  <2>2. PICK op \in MailOperations : MailDecide(p, op, a, "ok", None) /\ op # "create" /\ op # "update"
    BY <2>1
  <2> QED  BY <2>2, DecidePromises DEF Addresses
<1>6. ASSUME NEW a \in Accounts, MailDeleteCheck(p, a)
      PROVE  \A q \in Procs : MailPromised(mailCall'[q], mail')
  BY <1>6, DecidePromises, SomeOperations DEF MailDeleteCheck, Addresses
<1> QED  BY <1>1, <1>2, <1>3, <1>4, <1>5, <1>6

(* Whoever writes a row takes the promise of every other call away. *)
LEMMA CommitPromises ==
  ASSUME MailInv, MailPromises, NEW p \in Procs, NEW changed, MailCommit(p, changed),
         changed = {} => mail' = mail
  PROVE  \A q \in Procs : MailPromised(mailCall'[q], mail')
<1> SUFFICES ASSUME NEW q \in Procs  PROVE MailPromised(mailCall'[q], mail')
  OBVIOUS
<1>1. mailCall'[q] = NoCall \/ mailCall'[q] = [mailCall[q] EXCEPT !.stale = @ \cup changed]
  BY DEF MailCommit
<1>2. CASE mailCall'[q] = NoCall
  BY <1>2, NothingPromised
<1>3. CASE mailCall'[q] = [mailCall[q] EXCEPT !.stale = @ \cup changed]
  <2>1. mailCall[q] \in MailCallTypes
    BY DEF MailInv, MailTyped
  <2> DEFINE call == mailCall[q]
             new  == mailCall'[q]
  <2>2. /\ new.op = call.op /\ new.own = call.own /\ new.data = call.data
        /\ new.others = call.others /\ new.stale = call.stale \cup changed
    BY <1>3, <2>1 DEF MailCallTypes
  <2>3. new.selected <=> call.selected
    BY <1>3, <2>1 DEF MailCallTypes
  <2>4. MailPromised(call, mail)
    BY DEF MailPromises
  <2> HIDE DEF call, new
  <2>5. CASE changed = {}
    BY <2>2, <2>3, <2>4, <2>5, SamePromise DEF new
  <2>6. CASE changed # {}
    BY <2>2, <2>6, NothingPromised DEF new
  <2> QED  BY <2>5, <2>6
<1> QED  BY <1>1, <1>2, <1>3

LEMMA SelectPromises ==
  ASSUME MailInv, MailPromises, NEW p \in Procs, MailDeleteSelect(p)
  PROVE  \A q \in Procs : MailPromised(mailCall'[q], mail')
<1> DEFINE a      == mailCall[p].own
           others == {b \in Addresses \ {a} : LiveMail(b) /\ a \in mail[b].data.list}
           rows   == [b \in others |-> mail[b].data.list]
<1>1. /\ mailCall[p].op = "delete" /\ UNCHANGED <<mail, served, work, mailLeft>>
      /\ mailCall' = [mailCall EXCEPT ![p].selected = TRUE, ![p].others = rows, ![p].stale = @ \cap {a}]
  BY DEF MailDeleteSelect
<1>2. \A b \in DOMAIN rows : rows[b] = mail[b].data.list /\ a \in rows[b]
  OBVIOUS
<1>3. mailCall[p] \in MailCallTypes
  BY DEF MailInv, MailTyped
<1> HIDE DEF rows
<1>4. /\ mailCall'[p].op = "delete" /\ mailCall'[p].own = a /\ mailCall'[p].others = rows
      /\ \A q \in Procs : q # p => mailCall'[q] = mailCall[q]
  BY <1>1, <1>3 DEF MailInv, MailTyped, MailCallTypes
<1>5. MailPromised(mailCall'[p], mail)
  BY <1>2, <1>4 DEF MailPromised
<1> QED  BY <1>1, <1>4, <1>5 DEF MailPromises

LEMMA DonePromises ==
  ASSUME MailInv, MailDaemonDone
  PROVE  \A q \in Procs : MailPromised(mailCall'[q], mail')
<1> SUFFICES ASSUME NEW q \in Procs  PROVE MailPromised(mailCall'[q], mail')
  OBVIOUS
<1> DEFINE a == work.at
<1>1. \/ mailCall'[q] = NoCall
      \/ mailCall'[q] = [mailCall[q] EXCEPT !.stale = @ \cup {a}]
      \/ mailCall'[q] = Restrained(mailCall[q], a)
  BY MailWorked
<1>2. mailCall[q] \in MailCallTypes
  BY DEF MailInv, MailTyped
<1>3. CASE mailCall'[q] = [mailCall[q] EXCEPT !.stale = @ \cup {a}]
  <2>1. mailCall'[q].stale = mailCall[q].stale \cup {a}
    BY <1>2, <1>3 DEF MailCallTypes
  <2> QED  BY <2>1, NothingPromised
<1>4. CASE mailCall'[q] = Restrained(mailCall[q], a)
  <2>1. mailCall'[q].stale = mailCall[q].stale \cup {a}
    BY <1>2, <1>4 DEF MailCallTypes, Restrained
  <2> QED  BY <2>1, NothingPromised
<1> QED  BY <1>1, <1>3, <1>4, NothingPromised

LEMMA WritesPromise ==
  ASSUME MailInv, MailPromises, NEW p \in Procs,
         \/ MailCreateCommit(p) \/ MailUpdateCommit(p) \/ AutoresponderCommit(p) \/ CatchallDeleteCommit(p)
         \/ MailDeleteCommit(p)
  PROVE  \A q \in Procs : MailPromised(mailCall'[q], mail')
<1>1. ASSUME NEW row, MailWrite(p, row)  PROVE \A q \in Procs : MailPromised(mailCall'[q], mail')
  <2>1. CASE MailCommit(p, {}) /\ mail' = mail
    BY <2>1, CommitPromises
  <2>2. CASE MailCommit(p, {mailCall[p].own})
    BY <2>2, CommitPromises
  <2> QED  BY <1>1, <2>1, <2>2 DEF MailWrite
<1>2. CASE MailCreateCommit(p)
  <2>1. CASE MailCommit(p, {}) /\ mail' = mail
    BY <2>1, CommitPromises
  <2>2. CASE MailCommit(p, {mailCall[p].own})
    BY <2>2, CommitPromises
  <2> QED  BY <1>2, <2>1, <2>2 DEF MailCreateCommit
<1>3. CASE MailDeleteCommit(p)
  <2> DEFINE changed == (IF mailCall[p].known THEN {mailCall[p].own} ELSE {}) \cup DOMAIN mailCall[p].others
  <2>1. MailCommit(p, changed)
    BY <1>3, MailDeletion
  <2>2. ASSUME changed = {}  PROVE mail' = mail
    <3>1. \A b \in Addresses : mail'[b] = mail[b]
      BY <1>3, <2>2, MailDeletion
    <3>2. mail \in [Addresses -> MailRows \cup {NoMail}] /\ mail' \in [Addresses -> MailRows \cup {NoMail}]
      BY <1>3, MailDeletion DEF MailInv, MailTyped
    <3> HIDE DEF changed
    <3> QED  BY <3>1, <3>2
  <2> HIDE DEF changed
  <2> QED  BY <2>1, <2>2, CommitPromises
<1> QED  BY <1>1, <1>2, <1>3 DEF MailUpdateCommit, AutoresponderCommit, CatchallDeleteCommit

LEMMA PromisesInitially == MailInit => MailPromises
<1> SUFFICES ASSUME MailInit, NEW p \in Procs  PROVE MailPromised(mailCall[p], mail)
  BY DEF MailPromises
<1>1. mailCall[p] = NoCall
  BY DEF MailInit
<1> QED  BY <1>1, NothingPromised

LEMMA PromisesKeep == MailInv /\ MailPromises /\ [MailNext]_mailVars => MailPromises'
<1> SUFFICES ASSUME MailInv, MailPromises, [MailNext]_mailVars
             PROVE  \A q \in Procs : MailPromised(mailCall'[q], mail')
  BY DEF MailPromises, MailPromised, FitsIn, QuotaSum, WellFormed
<1>1. ASSUME mailCall' = mailCall, mail' = mail  PROVE \A q \in Procs : MailPromised(mailCall'[q], mail')
  BY <1>1 DEF MailPromises
<1>2. ASSUME NEW p \in Procs, MailRollback(p)  PROVE \A q \in Procs : MailPromised(mailCall'[q], mail')
  <2>1. mail' = mail /\ mailCall' = [mailCall EXCEPT ![p] = NoCall]
    BY <1>2 DEF MailRollback
  <2>2. ASSUME NEW q \in Procs  PROVE mailCall'[q] = NoCall \/ mailCall'[q] = mailCall[q]
    BY <2>1 DEF MailInv, MailTyped
  <2>3. ASSUME NEW q \in Procs  PROVE MailPromised(mailCall'[q], mail')
    BY <2>1, <2>2, <2>3, NothingPromised DEF MailPromises
  <2> QED  BY <2>3
<1>3. ASSUME NEW p \in Procs, MailStep(p)  PROVE \A q \in Procs : MailPromised(mailCall'[q], mail')
  BY <1>2, <1>3, ChecksPromise, WritesPromise, SelectPromises DEF MailStep
<1>4. ASSUME NEW a \in Addresses, MailDaemonTake(a)  PROVE \A q \in Procs : MailPromised(mailCall'[q], mail')
  BY <1>1, <1>4 DEF MailDaemonTake
<1>5. CASE UNCHANGED mailVars
  BY <1>1, <1>5 DEF mailVars
<1> QED  BY <1>3, <1>4, <1>5, DonePromises DEF MailNext

LEMMA MailPromisesHold == MailSpec => []MailPromises
  BY MailInvariant, PromisesInitially, PromisesKeep, PTL DEF MailSpec

---------------------------------------------------------------------------
(* What a step makes of the quota. *)

Formed(rows, a) == rows[a] # NoMail => WellFormed(a, rows[a].data)

MailQuotaKept ==
    /\ PoolLimit > 0 /\ QuotaSum(mail, {}) <= PoolLimit => QuotaSum(mail', {}) <= PoolLimit
    /\ \A a \in Addresses : Formed(mail, a) => Formed(mail', a)

(* A reply makes no row well or ill formed. *)
LEMMA FormedLike ==
  ASSUME NEW d, NEW e, NEW a, WellFormed(a, d), e.kind = d.kind, e.list = d.list, e.quota = d.quota
  PROVE  WellFormed(a, e)
  BY DEF WellFormed

LEMMA SameQuotas ==
  ASSUME \A b \in Addresses : /\ mail'[b] # NoMail <=> mail[b] # NoMail
                              /\ mail[b] # NoMail => mail'[b].data.quota = mail[b].data.quota
                              /\ Formed(mail, b) => Formed(mail', b)
  PROVE  MailQuotaKept
<1>1. PICK rows, new : rows = mail /\ new = mail'
  OBVIOUS
<1>2. QuotaSum(new, {}) = QuotaSum(rows, {})
  BY <1>1, QuotaSumSame
<1> QED  BY <1>1, <1>2 DEF MailQuotaKept

LEMMA OneRow ==
  ASSUME MailInv, NEW a \in Addresses, mail' \in QuotasOf,
         \A b \in Addresses \ {a} : mail'[b] = mail[b],
         Formed(mail, a) => Formed(mail', a),
         \/ Share(mail', a) <= Share(mail, a)
         \/ PoolLimit > 0 => Share(mail', a) <= PoolLimit - QuotaSum(mail, {a})
  PROVE  MailQuotaKept
<1>1. mail \in QuotasOf
  BY DEF MailInv, MailTyped, QuotasOf
<1>2. PICK rows \in QuotasOf, new \in QuotasOf : rows = mail /\ new = mail'
  BY <1>1
<1>3. /\ QuotaSum(rows, {}) = QuotaSum(rows, {a}) + Share(rows, a)
      /\ QuotaSum(new, {}) = QuotaSum(rows, {a}) + Share(new, a)
  BY <1>2, QuotaSumChange
<1>4. QuotaSum(rows, {a}) \in Nat /\ Share(rows, a) \in Nat /\ Share(new, a) \in Nat /\ PoolLimit \in Nat
  BY QuotaSumIsNumber, QuotaRow, MailConfigured
<1>5. PoolLimit > 0 /\ QuotaSum(mail, {}) <= PoolLimit => QuotaSum(mail', {}) <= PoolLimit
  BY <1>2, <1>3, <1>4
<1>6. \A b \in Addresses : Formed(mail, b) => Formed(mail', b)
  BY DEF Formed
<1> QED  BY <1>5, <1>6 DEF MailQuotaKept

(* A write of a row in place of the one that is there. *)
LEMMA WriteQuota ==
  ASSUME MailInv, NEW p \in Procs, NEW row, MailWrite(p, row),
         mailCall[p].known =>
            LET a == mailCall[p].own
            IN  /\ row \in MailRows
                /\ WellFormed(a, mail[a].data) => WellFormed(a, row.data)
                /\ row.data.quota <= mail[a].data.quota \/ FitsIn(mail, row.data.quota, {a})
  PROVE  MailQuotaKept
<1> DEFINE a == mailCall[p].own
<1>1. CASE ~mailCall[p].known
  BY <1>1, SameQuotas DEF MailWrite
<1>2. CASE mailCall[p].known
  <2>1. a \in Addresses /\ mail[a] \in MailRows /\ row \in MailRows /\ mail' = [mail EXCEPT ![a] = row]
    BY <1>2, KnownRow DEF MailWrite
  <2>2. mail' \in QuotasOf /\ mail'[a] = row /\ \A b \in Addresses \ {a} : mail'[b] = mail[b]
    BY <2>1 DEF MailInv, MailTyped, QuotasOf
  <2>3. mail[a] # NoMail /\ row # NoMail
    BY <2>1, MailRow
  <2>4. Formed(mail, a) => Formed(mail', a)
    BY <1>2, <2>2, <2>3 DEF Formed
  <2>5. Share(mail', a) = row.data.quota /\ Share(mail, a) = mail[a].data.quota
    BY <2>2, <2>3 DEF Share
  <2>6. \/ Share(mail', a) <= Share(mail, a)
        \/ PoolLimit > 0 => Share(mail', a) <= PoolLimit - QuotaSum(mail, {a})
    BY <1>2, <2>5 DEF FitsIn
  <2> HIDE DEF a
  <2> QED  BY <2>1, <2>2, <2>4, <2>6, OneRow
<1> QED  BY <1>1, <1>2

LEMMA WritesQuota ==
  ASSUME MailInv, MailPromises, NEW p \in Procs, mailCall[p].stale = {},
         MailUpdateCommit(p) \/ AutoresponderCommit(p) \/ CatchallDeleteCommit(p)
  PROVE  MailQuotaKept
<1> DEFINE a == mailCall[p].own
<1>1. CASE MailUpdateCommit(p)
  <2> DEFINE d   == mailCall[p].data
             new == [d EXCEPT !.reply = mail[a].data.reply]
             row == [status |-> "tochange", data |-> new]
  <2>1. MailWrite(p, row) /\ mailCall[p].op = "update" /\ d \in Data
    BY <1>1 DEF MailUpdateCommit, MailInv, MailShaped
  <2>2. new.kind = d.kind /\ new.list = d.list /\ new.quota = d.quota
    BY <2>1 DEF Data
  <2>3. ASSUME mailCall[p].known
        PROVE  /\ row \in MailRows
               /\ WellFormed(a, mail[a].data) => WellFormed(a, row.data)
               /\ row.data.quota <= mail[a].data.quota \/ FitsIn(mail, row.data.quota, {a})
    <3>1. mail[a].data.reply \in BOOLEAN
      BY <2>3, KnownRow DEF Data
    <3>2. new \in Data
      BY <2>1, <3>1 DEF Data
    <3>3. row \in MailRows
      BY <3>2 DEF MailRows, Waiting
    <3>4. MailPromised(mailCall[p], mail)
      BY DEF MailPromises
    <3>5. /\ WellFormed(a, mail[a].data) => WellFormed(a, d)
          /\ d.quota <= mail[a].data.quota \/ FitsIn(mail, d.quota, {a})
      BY <2>1, <3>4 DEF MailPromised
    <3> HIDE DEF new, d
    <3>6. WellFormed(a, d) => WellFormed(a, new)
      BY <2>2, FormedLike
    <3> QED  BY <2>2, <3>3, <3>5, <3>6
  <2> HIDE DEF row
  <2> QED  BY <2>1, <2>3, WriteQuota
<1>2. CASE AutoresponderCommit(p)
  <2> DEFINE d   == mail[a].data
             new == [d EXCEPT !.reply = mailCall[p].data.reply]
             row == [status |-> mailCall[p].status, data |-> new]
  <2>1. MailWrite(p, row) /\ mailCall[p].data \in Data /\ mailCall[p].status \in {"ok", "tochange"}
    BY <1>2 DEF AutoresponderCommit, MailInv, MailShaped, MailTyped, MailCallTypes
  <2>2. ASSUME mailCall[p].known
        PROVE  /\ row \in MailRows
               /\ WellFormed(a, mail[a].data) => WellFormed(a, row.data)
               /\ row.data.quota <= mail[a].data.quota \/ FitsIn(mail, row.data.quota, {a})
    <3>1. d \in Data /\ mailCall[p].data.reply \in BOOLEAN
      BY <2>1, <2>2, KnownRow DEF Data
    <3>2. new \in Data /\ new.kind = d.kind /\ new.list = d.list /\ new.quota = d.quota
      BY <3>1 DEF Data
    <3>3. row \in MailRows
      BY <2>1, <3>2 DEF MailRows, Waiting
    <3>4. d.quota \in Nat
      BY <3>1, DataFields
    <3> HIDE DEF new, d
    <3>5. WellFormed(a, d) => WellFormed(a, new)
      BY <3>2, FormedLike
    <3>6. row.data = new /\ new.quota <= d.quota
      BY <3>2, <3>4
    <3> QED  BY <3>3, <3>5, <3>6 DEF d
  <2> HIDE DEF row
  <2> QED  BY <2>1, <2>2, WriteQuota
<1>3. CASE CatchallDeleteCommit(p)
  <2> DEFINE row == [mail[a] EXCEPT !.status = "todelete"]
  <2>1. MailWrite(p, row)
    BY <1>3 DEF CatchallDeleteCommit
  <2>2. ASSUME mailCall[p].known
        PROVE  /\ row \in MailRows
               /\ WellFormed(a, mail[a].data) => WellFormed(a, row.data)
               /\ row.data.quota <= mail[a].data.quota \/ FitsIn(mail, row.data.quota, {a})
    <3>1. row \in MailRows /\ row.data = mail[a].data
      BY <2>2, KnownRow DEF MailRows, Waiting
    <3>2. mail[a].data.quota \in Nat
      BY <2>2, KnownRow, DataFields
    <3> QED  BY <3>1, <3>2
  <2> HIDE DEF row
  <2> QED  BY <2>1, <2>2, WriteQuota
<1> QED  BY <1>1, <1>2, <1>3

LEMMA CreateQuota ==
  ASSUME MailInv, MailPromises, NEW p \in Procs, mailCall[p].stale = {}, MailCreateCommit(p)
  PROVE  MailQuotaKept
<1> DEFINE a   == mailCall[p].own
           d   == mailCall[p].data
           row == [status |-> "toadd", data |-> d]
<1>1. CASE mail' = mail
  BY <1>1, SameQuotas
<1>2. CASE ~There(a) /\ mail' = [mail EXCEPT ![a] = row]
  <2>1. mailCall[p].op = "create" /\ a \in Addresses /\ d \in Data
    BY DEF MailCreateCommit, MailInv, MailShaped
  <2>2. row \in MailRows
    BY <2>1 DEF MailRows, Waiting
  <2>3. mail' \in QuotasOf /\ mail'[a] = row /\ \A b \in Addresses \ {a} : mail'[b] = mail[b]
    BY <1>2, <2>1, <2>2 DEF MailInv, MailTyped, QuotasOf
  <2>4. mail[a] = NoMail /\ row # NoMail
    BY <1>2, <2>2, MailRow DEF There
  <2>5. MailPromised(mailCall[p], mail)
    BY DEF MailPromises
  <2>6. WellFormed(a, d) /\ (d.quota = 0 \/ FitsIn(mail, d.quota, {}))
    BY <2>1, <2>5 DEF MailPromised
  <2>7. Formed(mail', a)
    BY <2>3, <2>6 DEF Formed
  <2>8. Share(mail', a) = d.quota /\ Share(mail, a) = 0
    BY <2>3, <2>4 DEF Share
  <2>9. QuotaSum(mail, {a}) = QuotaSum(mail, {})
    <3>1. {b \in Addresses \ {a} : mail[b] # NoMail} = {b \in Addresses \ {} : mail[b] # NoMail}
      BY <2>4
    <3> QED  BY <3>1 DEF QuotaSum
  <2>10. \/ Share(mail', a) <= Share(mail, a)
         \/ PoolLimit > 0 => Share(mail', a) <= PoolLimit - QuotaSum(mail, {a})
    BY <2>6, <2>8, <2>9 DEF FitsIn
  <2> HIDE DEF a, row, d
  <2> QED  BY <2>1, <2>3, <2>7, <2>10, OneRow
<1> QED  BY <1>1, <1>2 DEF MailCreateCommit

(* A row whose list has lost a deleted address is well formed if it was,   *)
(* and keeps its quota.                                                    *)
LEMMA WithListFormed ==
  ASSUME NEW b \in Addresses, NEW row \in MailRows, NEW a \in row.data.list
  PROVE  /\ WellFormed(b, row.data) => WellFormed(b, WithList(row, row.data.list \ {a}).data)
         /\ WithList(row, row.data.list \ {a}).data.quota = row.data.quota
<1> DEFINE list == row.data.list \ {a}
           d    == row.data
           new  == [d EXCEPT !.list = list]
<1>1. d \in Data
  BY DEF MailRows
<1>2. new.kind = d.kind /\ new.quota = d.quota /\ new.list = list
  BY <1>1 DEF Data
<1>3. CASE list = {}
  <2>1. WithList(row, list).data = d
    BY <1>3 DEF WithList, MailRows
  <2> QED  BY <2>1
<1>4. CASE list # {}
  <2>1. WithList(row, list).data = new
    BY <1>4 DEF WithList
  <2>2. a \in d.list /\ list \subseteq d.list
    OBVIOUS
  <2> HIDE DEF new, d, list
  <2>3. WellFormed(b, d) => WellFormed(b, new)
    BY <1>2, <1>4, <2>2 DEF WellFormed
  <2> QED  BY <1>2, <2>1, <2>3 DEF d, list
<1> QED  BY <1>3, <1>4

LEMMA DeleteQuota ==
  ASSUME MailInv, MailPromises, NEW p \in Procs, mailCall[p].stale = {}, MailDeleteCommit(p)
  PROVE  MailQuotaKept
<1> DEFINE a      == mailCall[p].own
           others == mailCall[p].others
<1>1. MailPromised(mailCall[p], mail)
  BY DEF MailPromises
<1>2. \A b \in DOMAIN others : others[b] = mail[b].data.list /\ a \in others[b]
  BY <1>1 DEF MailPromised, MailDeleteCommit
<1>3. ASSUME NEW b \in Addresses
      PROVE  /\ mail'[b] # NoMail <=> mail[b] # NoMail
             /\ mail[b] # NoMail => mail'[b].data.quota = mail[b].data.quota
             /\ Formed(mail, b) => Formed(mail', b)
  <2>1. CASE mailCall[p].known /\ b = a
    <3>1. mail[b] \in MailRows /\ mail'[b] = [mail[b] EXCEPT !.status = "todelete"]
      BY <2>1, KnownRow DEF MailDeleteCommit
    <3>2. mail'[b] \in MailRows /\ mail'[b].data = mail[b].data
      BY <3>1 DEF MailRows, Waiting
    <3> QED  BY <3>1, <3>2, MailRow DEF Formed
  <2>2. CASE b \in DOMAIN others /\ mail[b] \in MailRows /\ mail'[b] = WithList(mail[b], others[b] \ {a})
             /\ mail'[b] \in MailRows
    <3>1. a \in mail[b].data.list /\ mail'[b] = WithList(mail[b], mail[b].data.list \ {a})
      BY <1>2, <2>2
    <3> HIDE DEF a
    <3>2. /\ WellFormed(b, mail[b].data) => WellFormed(b, mail'[b].data)
          /\ mail'[b].data.quota = mail[b].data.quota
      BY <2>2, <3>1, WithListFormed
    <3> QED  BY <2>2, <3>2, MailRow DEF Formed
  <2>3. CASE mail'[b] = mail[b]
    BY <2>3 DEF Formed
  <2> QED  BY <2>1, <2>2, <2>3, MailDeletion
<1> QED  BY <1>3, SameQuotas

(* The daemon writes the status of a row, or takes the row away. *)
LEMMA DoneQuota ==
  ASSUME MailInv, MailDaemonDone
  PROVE  MailQuotaKept
<1> DEFINE a == work.at
<1>1. a \in Addresses /\ mail[a] \in MailRows
  BY MailWorked
<1>2. ASSUME NEW s \in {"ok", "error"}, mail' = [mail EXCEPT ![a].status = s]  PROVE MailQuotaKept
  <2>1. /\ mail'[a] \in MailRows /\ mail'[a].data = mail[a].data
        /\ \A b \in Addresses \ {a} : mail'[b] = mail[b]
    BY <1>1, <1>2, MailRowStatus
  <2>2. mail[a] # NoMail /\ mail'[a] # NoMail
    BY <1>1, <2>1, MailRow
  <2> QED  BY <2>1, <2>2, SameQuotas DEF Formed
<1>3. CASE mail' = [mail EXCEPT ![a] = NoMail]
  <2>1. mail' \in QuotasOf /\ mail'[a] = NoMail /\ \A b \in Addresses \ {a} : mail'[b] = mail[b]
    BY <1>1, <1>3 DEF MailInv, MailTyped, QuotasOf
  <2>2. Formed(mail', a)
    BY <2>1 DEF Formed
  <2>3. Share(mail', a) <= Share(mail, a)
    <3>1. mail[a].data.quota \in Nat
      BY <1>1, DataFields DEF MailRows
    <3> QED  BY <2>1, <3>1 DEF Share
  <2> HIDE DEF a
  <2> QED  BY <1>1, <2>1, <2>2, <2>3, OneRow
<1> QED  BY <1>2, <1>3, MailWorked

(* A call that has missed no write keeps the quota when it commits. *)
LEMMA CommitQuota ==
  ASSUME MailInv, MailPromises, NEW p \in Procs,
         \/ MailCreateCommit(p) \/ MailUpdateCommit(p) \/ AutoresponderCommit(p) \/ CatchallDeleteCommit(p)
         \/ MailDeleteCommit(p)
  PROVE  MailQuotaKept \/ \E a \in Addresses : Stale(p, a)
<1>1. CASE mailCall[p].stale = {}
  BY <1>1, WritesQuota, CreateQuota, DeleteQuota
<1>2. CASE mailCall[p].stale # {}
  <2>1. PICK a \in mailCall[p].stale : a \in Addresses
    BY <1>2 DEF MailInv, MailTyped, MailCallTypes
  <2>2. mailCall[p].op # "none"
    BY Zenon DEF MailCreateCommit, MailUpdateCommit, AutoresponderCommit, CatchallDeleteCommit, MailDeleteCommit
  <2>3. \E changed : MailCommit(p, changed)
    BY DEF MailCreateCommit, MailUpdateCommit, AutoresponderCommit, CatchallDeleteCommit, MailDeleteCommit, MailWrite
  <2> QED  BY <2>1, <2>2, <2>3, MailCommitting
<1> QED  BY <1>1, <1>2

(* The mailboxes stay within the account's mail quota, and every row keeps *)
(* the list and the quota its kind has, unless a call commits on what      *)
(* another has written since it read it - for any number of addresses and  *)
(* processes, any quotas and any limit.                                    *)
THEOREM MailQuotaOverlap == MailSpec => MailQuotaByOverlap
<1>1. ASSUME MailInv, MailPromises, [MailNext]_mailVars
      PROVE  MailQuotaKept \/ \E p \in Procs, a \in Addresses : Stale(p, a)
  <2>1. CASE mail' = mail
    BY <2>1, SameQuotas
  <2>2. ASSUME NEW p \in Procs, MailStep(p)
        PROVE  mail' = mail \/ MailQuotaKept \/ \E a \in Addresses : Stale(p, a)
    BY <1>1, <2>2, MailWriting, CommitQuota
  <2>3. ASSUME NEW b \in Addresses, MailDaemonTake(b)  PROVE mail' = mail
    BY <2>3 DEF MailDaemonTake
  <2> QED  BY <1>1, <2>1, <2>2, <2>3, DoneQuota DEF MailNext, mailVars
<1>2. ASSUME MailInv, MailPromises, [MailNext]_mailVars
      PROVE  \/ /\ PoolLimit > 0 /\ QuotaUse({}) <= PoolLimit => QuotaUse({})' <= PoolLimit
                /\ \A a \in Addresses :
                      (There(a) => WellFormed(a, mail[a].data)) => (There(a)' => WellFormed(a, mail'[a].data))
             \/ \E p \in Procs, a \in Addresses : Stale(p, a)
  <2>1. QuotaUse({}) = QuotaSum(mail, {}) /\ QuotaUse({})' = QuotaSum(mail', {})
    BY DEF QuotaUse, QuotaSum, There
  <2> QED  BY <1>1, <1>2, <2>1 DEF MailQuotaKept, Formed, There
<1> QED  BY MailInvariant, MailPromisesHold, <1>2, PTL DEF MailSpec, MailQuotaByOverlap
=============================================================================
