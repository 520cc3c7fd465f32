----------------------------- MODULE MCServices -----------------------------
(***************************************************************************)
(* Small instances, for TLC, of the services that share no state: SQL,     *)
(* FTP, mail, DNS and the transactions.  A behaviour is one of one of      *)
(* them, chosen at the start; the others stay as they are in one of their  *)
(* initial states.  So every behaviour of each is checked, and none of the *)
(* combinations, which differ in nothing.                                  *)
(***************************************************************************)
EXTENDS SqlAccounts, FtpAccounts, MailAccounts, DnsRecords, WriteTransactions, BatchedReads,
        ApiExtensions, TLC

VARIABLE service

services ==
    <<sqlVars, ftpVars, mailVars, dnsVars, txVars, readVars, extensionVars, service>>

(* One initial state is enough for a service that does not move, and one   *)
(* disk limit, which are all alike.  The customer goes by the domain's     *)
(* name: under another the change of the limit reaches no row, and the     *)
(* rest is the same.                                                       *)
Init ==
    /\ service \in {"sql", "ftp", "mail", "dns", "transactions", "reads", "extensions"}
    /\ service # "sql" => sqlDatabase = {} /\ sqlUser = {}
    /\ ownName = FALSE
    /\ diskLimit = CHOOSE limit \in DiskLimits : TRUE
    /\ service # "mail" => mail = [a \in Addresses |-> NoMail]
    /\ service # "dns" => customDns = TRUE
    /\ service # "reads" => table = [k \in Keys |-> Absent]
    /\ SqlInit /\ FtpInit /\ MailInit /\ DnsInit /\ TxInit /\ ReadInit /\ ExtensionInit

Next ==
    \/ service = "sql" /\ SqlNext
       /\ UNCHANGED <<ftpVars, mailVars, dnsVars, txVars, readVars, extensionVars, service>>
    \/ service = "ftp" /\ FtpNext
       /\ UNCHANGED <<sqlVars, mailVars, dnsVars, txVars, readVars, extensionVars, service>>
    \/ service = "mail" /\ MailNext
       /\ UNCHANGED <<sqlVars, ftpVars, dnsVars, txVars, readVars, extensionVars, service>>
    \/ service = "dns" /\ DnsNext
       /\ UNCHANGED <<sqlVars, ftpVars, mailVars, txVars, readVars, extensionVars, service>>
    \/ service = "transactions" /\ TxNext
       /\ UNCHANGED <<sqlVars, ftpVars, mailVars, dnsVars, readVars, extensionVars, service>>
    \/ service = "reads" /\ ReadNext
       /\ UNCHANGED <<sqlVars, ftpVars, mailVars, dnsVars, txVars, extensionVars, service>>
    \/ service = "extensions" /\ ExtensionNext
       /\ UNCHANGED <<sqlVars, ftpVars, mailVars, dnsVars, txVars, readVars, service>>

Spec == Init /\ [][Next]_services

(* Extensions that differ in what the loader tells apart: what they serve  *)
(* is all they add or nothing, they use one thing at most and then serve   *)
(* what they add, and one is not sound.                                    *)
Plugins ==
    {e \in Extension :
        \/ /\ ~e.throws /\ e.serves \in {{}, e.adds}
           /\ Cardinality(e.uses) <= 1
           /\ e.uses # {} => e.serves = e.adds
        \/ e = [adds |-> {}, uses |-> {}, serves |-> {}, throws |-> TRUE]}

(* Every variable of every service has its shape. *)
ServicesTypeOK ==
    /\ SqlTypeOK /\ FtpTypeOK /\ MailTypeOK /\ DnsTypeOK /\ TxTypeOK
    /\ ReadTypeOK /\ ExtensionTypeOK

(* The names of one service are no others' business: where the configuration *)
(* gives two services the same ones, one permutation serves both.            *)
Symmetry ==
    {p @@ c @@ n @@ d : p \in Permutations(Procs), c \in Permutations(SqlCustomers),
                        n \in Permutations(Databases), d \in Permutations(DiskLimits)}
=============================================================================
