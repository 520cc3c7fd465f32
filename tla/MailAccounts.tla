---------------------------- MODULE MailAccounts ----------------------------
(***************************************************************************)
(* The mail accounts and catch-alls of one customer: rows of mail_users,   *)
(* whose status the daemon works off, and the mail server the daemon sets  *)
(* up from them.                                                           *)
(*                                                                         *)
(* An operation reads the row it is about, decides, and writes in a        *)
(* transaction of its own every column it knows, the status included.      *)
(* Deleting an address also takes it off the lists of the customer's other *)
(* accounts, which the transaction selects without a lock and writes back. *)
(*                                                                         *)
(* The hosts of the addresses stay settled here; HostLifecycle tells what  *)
(* becomes of mail when they go.  Passwords, the text of a reply and the   *)
(* protected default accounts are left out.  A mailbox's quota is a number *)
(* of units.                                                               *)
(***************************************************************************)
EXTENDS Integers, FiniteSets, Functions, PanelProcesses

CONSTANTS
    Accounts,   \* addresses of mail accounts
    Catchalls,  \* addresses of catch-alls
    Elsewhere,  \* addresses of others
    Quotas,     \* quotas a mailbox may be given
    PoolLimit,  \* domain.mail_quota, 0 for none
    MailLimit,  \* domain_mailacc_limit, a positive number
    MailCalls   \* how many requests are made in this instance

ASSUME MailConfigured ==
    /\ IsFiniteSet(Accounts) /\ IsFiniteSet(Catchalls)
    /\ Accounts \cap Catchalls = {}
    /\ Quotas \subseteq Nat
    /\ PoolLimit \in Nat /\ MailLimit \in Nat \ {0} /\ MailCalls \in Nat
    /\ None \notin Procs \cup Accounts \cup Catchalls \cup Elsewhere \cup Quotas

VARIABLES
    mail,      \* mail_users, by address
    served,    \* what the mail server was last set up with
    work,      \* the row the daemon is working off
    mailCall,  \* the operation of each process
    mailLeft   \* requests that may still come

mailVars == <<mail, served, work, mailCall, mailLeft>>

---------------------------------------------------------------------------

Addresses == Accounts \cup Catchalls
Kinds     == {"MAILBOX", "FORWARD", "MAILBOX_AND_FORWARD", "CATCHALL"}
HasMailbox(kind) == kind \in {"MAILBOX", "MAILBOX_AND_FORWARD"}
HasList(kind)    == kind # "MAILBOX"

Waiting  == {"toadd", "tochange", "todelete"}
Lists    == SUBSET (Accounts \cup Elsewhere)

(* A row says what is to be served: mail_type, mail_forward or a           *)
(* catch-all's mail_acc, quota, mail_auto_respond.                         *)
Data == [kind : Kinds, list : Lists, quota : Quotas \cup {0}, reply : BOOLEAN]
MailRows == [status : Waiting \cup {"ok", "error"}, data : Data]

NoMail == [status |-> "absent", data |-> None]

MailOperations == {"none", "create", "update", "reply", "put away", "delete"}

(* The address a call is about, and whether its row is the one that was    *)
(* read; what it will write; the lists it has selected; and the rows that  *)
(* have changed since it read them.                                        *)
NoCall == [op |-> "none", own |-> None, known |-> FALSE, status |-> "ok", data |-> None, selected |-> FALSE,
           others |-> <<>>, stale |-> {}]

MailTypeOK ==
    /\ mail \in [Addresses -> MailRows \cup {NoMail}]
    /\ served \in [Addresses -> Data \cup {None}]
    /\ work = None \/ (work.at \in Addresses /\ work.row \in MailRows)
    /\ \A p \in Procs : LET call == mailCall[p]
                        IN  /\ call.op \in MailOperations /\ call.own \in Addresses \cup {None}
                            /\ call.known \in BOOLEAN /\ call.selected \in BOOLEAN
                            /\ call.status \in {"ok", "tochange"} /\ call.data \in Data \cup {None}
                            /\ call.stale \subseteq Addresses /\ DOMAIN call.others \subseteq Addresses
                            /\ \A b \in DOMAIN call.others : call.others[b] \in Lists
    /\ mailLeft \in 0..MailCalls

There(a) == mail[a] # NoMail
LiveMail(a)  == There(a) /\ mail[a].status # "todelete"

WellFormed(a, d) ==
    /\ d.kind = "CATCHALL" <=> a \in Catchalls
    /\ IF HasList(d.kind) THEN d.list # {} /\ (a \in Accounts => a \notin d.list) ELSE d.list = {}
    /\ HasMailbox(d.kind) => d.quota >= (IF PoolLimit > 0 THEN 1 ELSE 0)
    /\ ~HasMailbox(d.kind) => d.quota = 0

QuotaUse(but) == SumFunction([a \in {b \in Addresses \ but : There(b)} |-> mail[a].data.quota])

(* Anything the customer may have set up earlier. *)
SetUp(S) ==
    {NoMail} \cup {[status |-> "ok", data |-> d] : d \in {e \in Data : ~e.reply /\ \E a \in S : WellFormed(a, e)}}

MailInit ==
    /\ \E f \in [Accounts -> SetUp(Accounts)], g \in [Catchalls -> SetUp(Catchalls)] :
          mail = [a \in Addresses |-> IF a \in Accounts THEN f[a] ELSE g[a]]
    /\ \A a \in Addresses : There(a) => WellFormed(a, mail[a].data)
    /\ PoolLimit > 0 => QuotaUse({}) <= PoolLimit
    /\ served = [a \in Addresses |-> mail[a].data]
    /\ work = None
    /\ mailCall = [p \in Procs |-> NoCall]
    /\ mailLeft = MailCalls

---------------------------------------------------------------------------
(* An operation checks and then commits. *)

MailDecide(p, op, a, status, data) ==
    /\ mailCall[p] = NoCall
    /\ mailLeft > 0
    /\ mailLeft' = mailLeft - 1
    /\ mailCall' = [mailCall EXCEPT ![p] = [NoCall EXCEPT !.op = op, !.own = a, !.known = There(a),
                                                         !.status = status, !.data = data]]
    /\ UNCHANGED <<mail, served, work>>

(* The end of p's transaction, which changed these rows under all others.  *)
MailCommit(p, changed) ==
    /\ mailCall' = [q \in Procs |-> IF q = p THEN NoCall
                                    ELSE IF mailCall[q] = NoCall THEN NoCall
                                    ELSE [mailCall[q] EXCEPT !.stale = @ \cup changed]]
    /\ UNCHANGED <<served, work, mailLeft>>

(* UPDATE ... WHERE mail_id: nothing if the row read is gone. *)
MailWrite_Replace(p, row) ==   \* mutant: REPLACE, which puts a row back that is gone
    /\ mail' = [mail EXCEPT ![mailCall[p].own] = row]
    /\ MailCommit(p, {mailCall[p].own})

MailWrite(p, row) ==
    LET a == mailCall[p].own
    IN  IF mailCall[p].known THEN mail' = [mail EXCEPT ![a] = row] /\ MailCommit(p, {a})
                             ELSE mail' = mail /\ MailCommit(p, {})

MailCount == Cardinality({a \in Addresses : LiveMail(a)})

(* mailboxQuota(): what the other rows leave, those going away included. *)
Fits_LiveOnly(quota, but) ==   \* mutant: a mailbox going away gives its quota back at once
    PoolLimit > 0 => quota >= 1 /\ quota <= PoolLimit - QuotaUse(but \cup {a \in Addresses : ~LiveMail(a)})

Fits(quota, but) ==
    PoolLimit > 0 => quota >= 1 /\ quota <= PoolLimit - QuotaUse(but)

(* accountValues(): what the kind does not carry is not written. *)
Values(kind, list, quota, reply) ==
    [kind |-> kind, list |-> IF kind = "MAILBOX" THEN {} ELSE list,
     quota |-> IF HasMailbox(kind) THEN quota ELSE 0, reply |-> reply]

MailCreateCheck(p, a, kind, list, quota) ==
    /\ MailCount < MailLimit
    /\ kind # "MAILBOX" => list # {} /\ a \notin list
    /\ HasMailbox(kind) => Fits(quota, {})
    /\ MailDecide(p, "create", a, "ok", Values(kind, list, quota, FALSE))

CatchallCreateCheck(p, a, list) ==
    /\ MailCount < MailLimit
    /\ list # {}
    /\ MailDecide(p, "create", a, "ok", Values("CATCHALL", list, 0, FALSE))

(* INSERT; the key on the address is unique, and the loser gets CONFLICT. *)
MailCreateCommit(p) ==
    /\ mailCall[p].op = "create"
    /\ LET a == mailCall[p].own
       IN  \/ There(a) /\ mail' = mail /\ MailCommit(p, {})
           \/ /\ ~There(a)
              /\ mail' = [mail EXCEPT ![a] = [status |-> "toadd", data |-> mailCall[p].data]]
              /\ MailCommit(p, {a})

(* None stands for a field that is not given: the row keeps what it has. A *)
(* field that the kind cannot carry is refused.                            *)
MailUpdateCheck(p, a, kind, list, quota) ==
    /\ mail[a].status = "ok"
    /\ LET now   == mail[a].data
           to    == IF list = None THEN now.list ELSE list
           units == IF quota = None THEN now.quota ELSE quota
       IN  /\ kind = "MAILBOX" => list = None
           /\ kind = "FORWARD" => quota = None
           /\ kind # "MAILBOX" => to # {} /\ a \notin to
           /\ HasMailbox(kind) /\ (quota # None \/ ~HasMailbox(now.kind)) => Fits(units, {a})
           /\ MailDecide(p, "update", a, "tochange", Values(kind, to, units, now.reply))

MailUpdateCommit(p) ==
    /\ mailCall[p].op = "update"
    /\ MailWrite(p, [status |-> "tochange",
                  data |-> [mailCall[p].data EXCEPT !.reply = mail[mailCall[p].own].data.reply]])

AutoresponderCheck_Quiet(p, a, enabled) ==   \* mutant: the daemon hears only of a responder turned on
    /\ mail[a].status = "ok"
    /\ MailDecide(p, "reply", a, IF enabled THEN "tochange" ELSE "ok", [mail[a].data EXCEPT !.reply = enabled])

(* With the responder off before and after, the status is written back as  *)
(* it was read.                                                            *)
AutoresponderCheck(p, a, enabled) ==
    /\ mail[a].status = "ok"
    /\ MailDecide(p, "reply", a, IF enabled \/ mail[a].data.reply THEN "tochange" ELSE mail[a].status,
              [mail[a].data EXCEPT !.reply = enabled])

AutoresponderCommit(p) ==
    /\ mailCall[p].op = "reply"
    /\ MailWrite(p, [status |-> mailCall[p].status,
                  data |-> [mail[mailCall[p].own].data EXCEPT !.reply = mailCall[p].data.reply]])

CatchallDeleteCheck(p, a) ==
    /\ mail[a].status \in {"ok", "error"}
    /\ MailDecide(p, "put away", a, "ok", None)

CatchallDeleteCommit(p) ==
    /\ mailCall[p].op = "put away"
    /\ MailWrite(p, [mail[mailCall[p].own] EXCEPT !.status = "todelete"])

---------------------------------------------------------------------------
(* mailAccountDelete: the row, then the rows whose lists name the address. *)

MailDeleteCheck(p, a) ==
    /\ mail[a].status \in {"ok", "error"}
    /\ MailDecide(p, "delete", a, "ok", None)

MailDeleteSelect_Settled(p) ==   \* mutant: rows the daemon has still to do are not looked at
    /\ mailCall[p].op = "delete" /\ ~mailCall[p].selected
    /\ LET a      == mailCall[p].own
           others == {b \in Addresses \ {a} : There(b) /\ mail[b].status = "ok" /\ a \in mail[b].data.list}
       IN  mailCall' = [mailCall EXCEPT ![p].selected = TRUE, ![p].others = [b \in others |-> mail[b].data.list],
                                        ![p].stale = @ \cap {a}]
    /\ UNCHANGED <<mail, served, work, mailLeft>>

MailDeleteSelect(p) ==
    /\ mailCall[p].op = "delete" /\ ~mailCall[p].selected
    /\ LET a      == mailCall[p].own
           others == {b \in Addresses \ {a} : LiveMail(b) /\ a \in mail[b].data.list}
       IN  mailCall' = [mailCall EXCEPT ![p].selected = TRUE, ![p].others = [b \in others |-> mail[b].data.list],
                                        ![p].stale = @ \cap {a}]
    /\ UNCHANGED <<mail, served, work, mailLeft>>

(* An emptied list puts the account away; a row still to be added stays so. *)
WithList(row, list) ==
    IF list = {} THEN [row EXCEPT !.status = "todelete"]
    ELSE [status |-> IF row.status = "toadd" THEN "toadd" ELSE "tochange", data |-> [row.data EXCEPT !.list = list]]

MailDeleteCommit(p) ==
    /\ mailCall[p].op = "delete" /\ mailCall[p].selected
    /\ LET a      == mailCall[p].own
           others == mailCall[p].others
           own    == IF mailCall[p].known THEN {a} ELSE {}
       IN  /\ mail' = [b \in Addresses |->
                          IF b \in own THEN [mail[b] EXCEPT !.status = "todelete"]
                          ELSE IF b \in DOMAIN others THEN WithList(mail[b], others[b] \ {a})
                          ELSE mail[b]]
           /\ MailCommit(p, own \cup DOMAIN others)

(* The transaction fails: nothing of it stays. *)
MailRollback(p) ==
    /\ mailCall[p] # NoCall
    /\ mailCall' = [mailCall EXCEPT ![p] = NoCall]
    /\ UNCHANGED <<mail, served, work, mailLeft>>

MailStep(p) ==
    \/ \E a \in Accounts, kind \in Kinds \ {"CATCHALL"}, list \in Lists, quota \in Quotas :
          MailCreateCheck(p, a, kind, list, quota)
    \/ \E a \in Accounts, kind \in Kinds \ {"CATCHALL"}, list \in Lists \cup {None}, quota \in Quotas \cup {None} :
          MailUpdateCheck(p, a, kind, list, quota)
    \/ \E a \in Accounts, enabled \in BOOLEAN : AutoresponderCheck(p, a, enabled)
    \/ \E a \in Catchalls, list \in Lists : CatchallCreateCheck(p, a, list)
    \/ \E a \in Catchalls : CatchallDeleteCheck(p, a)
    \/ \E a \in Accounts : MailDeleteCheck(p, a)
    \/ MailCreateCommit(p) \/ MailUpdateCommit(p) \/ AutoresponderCommit(p) \/ CatchallDeleteCommit(p)
    \/ MailDeleteSelect(p) \/ MailDeleteCommit(p) \/ MailRollback(p)

---------------------------------------------------------------------------
(* The daemon reads a row, sets up the mail server, then writes how it     *)
(* went; others may write the row in between.                              *)

MailDaemonTake(a) ==
    /\ work = None
    /\ mail[a].status \in Waiting
    /\ work' = [at |-> a, row |-> mail[a]]
    /\ UNCHANGED <<mail, served, mailCall, mailLeft>>

Restrained(call, a) ==
    [call EXCEPT !.known = @ /\ call.own # a, !.stale = @ \cup {a},
                 !.others = [b \in DOMAIN call.others \ {a} |-> call.others[b]]]

MailDaemonDone ==
    /\ work # None
    /\ work' = None
    /\ LET a == work.at
       IN  \/ /\ mail' = [mail EXCEPT ![a].status = "error"]
              /\ mailCall' = [p \in Procs |-> IF mailCall[p] = NoCall THEN NoCall
                                             ELSE [mailCall[p] EXCEPT !.stale = @ \cup {a}]]
              /\ UNCHANGED served
           \/ /\ work.row.status # "todelete"
              /\ mail' = [mail EXCEPT ![a].status = "ok"]
              /\ served' = [served EXCEPT ![a] = work.row.data]
              /\ mailCall' = [p \in Procs |-> IF mailCall[p] = NoCall THEN NoCall
                                             ELSE [mailCall[p] EXCEPT !.stale = @ \cup {a}]]
           \/ /\ work.row.status = "todelete"
              /\ mail' = [mail EXCEPT ![a] = NoMail]
              /\ served' = [served EXCEPT ![a] = None]
              /\ mailCall' = [p \in Procs |-> IF mailCall[p] = NoCall THEN NoCall ELSE Restrained(mailCall[p], a)]
    /\ UNCHANGED mailLeft

MailNext == MailDaemonDone \/ (\E a \in Addresses : MailDaemonTake(a)) \/ \E p \in Procs : MailStep(p)

MailSpec == MailInit /\ [][MailNext]_mailVars

---------------------------------------------------------------------------
(* Properties. *)

(* p commits, on what it has read of a before another has written it. *)
Stale(p, a) == mailCall[p] # NoCall /\ mailCall'[p] = NoCall /\ a \in mailCall[p].stale

OkIsServed(a) == mail[a].status = "ok" => served[a] = mail[a].data

(* A row that says ok is what the mail server serves, and an account being *)
(* deleted stays so.  Either is broken only by a call that writes a row    *)
(* another has written since, or by the daemon, when it marks as done a    *)
(* row whose list mailAccountDelete has changed under its hands.           *)
MailLostByOverlap ==
    [][\A a \in Addresses :
          \/ /\ OkIsServed(a) => OkIsServed(a)'
             /\ mail[a].status = "todelete" => mail'[a].status \in {"todelete", "absent", "error"}
          \/ \E p \in Procs : Stale(p, a)
          \/ work # None /\ work' = None /\ work.at = a /\ mail[a] # work.row]_mailVars

(* Mailboxes together stay within the account's mail quota, and rows keep  *)
(* the lists and quotas their kind has, unless calls overlap.              *)
MailQuotaByOverlap ==
    [][\/ /\ PoolLimit > 0 /\ QuotaUse({}) <= PoolLimit => QuotaUse({})' <= PoolLimit
          /\ \A a \in Addresses : (There(a) => WellFormed(a, mail[a].data)) => (There(a)' => WellFormed(a, mail'[a].data))
       \/ \E p \in Procs, a \in Addresses : Stale(p, a)]_mailVars

(* Once an address is deleted, no other account of the customer lists it,  *)
(* whatever its status - but for rows written since the deletion read them. *)
DeletedIsUnlisted ==
    [][\A p \in Procs :
          mailCall[p].op = "delete" /\ mailCall[p].selected /\ mailCall[p].known /\ mail' # mail /\ mailCall'[p] = NoCall
          => \A b \in Addresses : LiveMail(b)' /\ mailCall[p].own \in mail'[b].data.list => Stale(p, b)]_mailVars

(* docs/API.md, line 309: mailAccountDelete deletes another account only   *)
(* when it is "left with nothing to deliver to"; one with a mailbox of its *)
(* own still delivers there.                                               *)
MailboxesStay ==
    [][\A a \in Addresses :
          LiveMail(a) /\ HasMailbox(mail[a].data.kind) /\ mail'[a].status = "todelete"
          => \E p \in Procs : mailCall[p].own = a /\ mailCall'[p] = NoCall]_mailVars
=============================================================================
