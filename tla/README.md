# A verification project for the SGW_GraphQL plugin of i-MSCP

The repository is a plugin for the i-MSCP hosting panel: a GraphQL API that reads and writes what the
panel's own pages read and write. It runs inside the panel's PHP processes, one request per process,
over the panel's MariaDB. It keeps almost no state of its own; nearly all of it lives in the panel's
tables, which the panel's pages, other API requests and the i-MSCP backend daemon use at the same time.
That is where its hard behaviour comes from: there is no lock around a request, a mutation reads the
rows it decides on before the transaction that writes them, and the daemon works on the same rows.

The project models the hosts of a customer (`HostLifecycle`), what resellers and their customers may have
(`ResellerLedger`), the four services a customer has besides its hosts (`SqlAccounts`, `FtpAccounts`,
`MailAccounts`, `DnsRecords`), the write transactions all of them use (`WriteTransactions`), the rate
limiter (`RateLimiter`, an implementation of `FixedWindow`), the API's credentials (`ApiTokens`), the reads
of one document (`BatchedReads`) and the extensions of other plugins (`ApiExtensions`). The rest of the
system is in the inventory, with the reason.

## Inventory

| Component | State it keeps | Operations | Talks to |
| --- | --- | --- | --- |
| Virtual hosts (`Service/DomainAliasService`, `SubdomainService`, `DomainService`, `Repository/VirtualHosts`, `Support/Provisioning`) | `domain`, `domain_aliasses`, `subdomain`, `subdomain_alias`, `php_ini`: a status column per row, which is also the daemon's work queue | create, update, delete, approve, reject | writer, guards, counts, mail, daemon |
| Customers (`Service/CustomerService`) | `admin`, `domain` (limits), `quotalimits`, `api_perm` | create, update, setState, delete, setApiAccess | resellers' counters, hosts, tokens, daemon |
| Resellers and hosting plans (`Service/ResellerService`, `HostingPlanService`, `Support/LimitRules`, `Allowances`, `PlanProps`, `Quota`, `Repository/Counts`) | `reseller_props` with its `current_*` counters, `hosting_plans` | create, update, delete, setApiAccess; the rules that keep a customer within its reseller | customers |
| Mail (`Service/MailService`, `Support/MailType`, the MX checks) | `mail_users` | create, update, delete, autoresponder, catch-all | hosts, counts, daemon |
| DNS records (`Service/DnsService`) | `domain_dns` | create, update, delete | hosts, daemon |
| FTP (`Service/FtpService`, `Repository/FtpGroups`) | `ftp_users`, `ftp_group` (a list of members in one column), `quotalimits`, `quotatallies` | create, update, delete | customers, daemon |
| SQL (`Service/SqlService`, `MariaDbSqlServer`) | `sql_database`, `sql_user`, and the MariaDB server's own databases, accounts and grants | create and delete a database, a user; set a password | MariaDB (DDL is not transactional) |
| Write transactions (`Service/Writer`, `Repository/Db`) | the nesting depth of the panel's connection | begin, commit, roll back, as savepoints when nested | every service, the panel's own functions |
| Rate limiting (`Service/RateLimiter`, `ApcuStore`, `Http/RateLimitMiddleware`) | APCu counters, `api_rate` | charge, expire, prune | pipeline, tokenIssue |
| Tokens and access (`Auth/TokenService`, `AccessService`, `Resolver/TokenMutations`) | `api_token`, `api_perm` | issue, verify, stamp, revoke, revoke all, grant, withdraw | pipeline, executor, customers |
| Authentication (`Http/AuthenticateMiddleware`, `Auth/IdentityShim`) | the request's identity, mirrored in `$_SESSION` | authenticate, apply | tokens, pipeline |
| Ownership and guards (`Security/OwnershipResolver`, `Guard`) | a memo of owners per request | resolve, assert reachable, require state, require quota | every service |
| Request pipeline (`Http/GraphQLHandler`, `CorsMiddleware`, `TlsMiddleware`, `Api/Container`) | one request | parse, validate, execute, audit, answer | all of the above |
| In-process executor (`Api/Executor`) | the containers of one PHP process | execute, issue, revoke, ask | pipeline, tokens |
| Extensions (`Extension/*`) | the registry of a request | register, load, fall back | schema |
| Audit and error log (`Service/Audit`, `AuditContext`, `ErrorLog`) | `api_audit` | record, prune | pipeline |
| Batched reads (`Repository/BatchLoader`) | keys, answers and promises of one execution | `keyed`, flush, `reset` | resolvers |
| Resolvers and schema (`Resolver/*`, `Schema/*`) | none | project rows to GraphQL types | batched reads, services |
| Plugin lifecycle (`SGW_GraphQL`, `sql/*`) | the plugin's own tables and configuration | install, update, uninstall, clean up after an account | panel, tokens |
| Panel front end (`frontend/*`, `Http/DevToolPage`) | none | pages over tokens, access, audit and configuration | tokens, access, configuration |

### What is hard here, and what makes each part correct

* **Hosts.** A mutation reads (owner, feature, settled state, name, quota), then writes in a
  transaction, then pokes the daemon; the reads take no lock and the writes, one excepted, do not repeat
  the condition. Correct means: an order is an order until somebody decides; a provisioned host leaves
  only through the daemon; nothing pending is forgotten; `php_ini` and mail rows come and go with their
  host; names are unique.
* **Rate limiting.** The upsert and the SELECT are two statements, APCu may refuse or evict, and a
  prune of one request may meet the row of another. Correct means: nobody gets more than the window
  allows (or, with APCu, a bounded multiple of it), and a refusal can be waited out.
* **Tokens and access.** Checks, insertions, switches and sweeps are single statements of processes
  that may die between any two; a withdrawal is two of them, an issue three or four. Correct means: what
  was refused stays refused, what was withdrawn stays withdrawn, the limit is overrun by no more than
  the concurrency there is, and every place that asks whether a token works gives one answer.
* **Customers, resellers, plans.** A reseller's `current_*` counters repeat what the customers' rows
  say; the rules compare a limit with the counters, with what is in use and with the reseller's own
  limit, before the transaction. Correct means: no customer above its reseller, no limit below its use,
  counters that agree with the rows.
* **Mail, DNS, FTP, SQL.** Rows with the daemon's verbs again, and three shapes of their own: a group
  whose members are one string that is read, changed and written back; a quota keyed by the domain's
  name in one place and by the user's in another; databases and accounts of a server that knows no
  rollback. Correct means: no member lost, no account without its row and no row without its account.
* **Writer and transactions.** The panel's functions open transactions of their own inside the
  plugin's. Correct means: what was answered with success is kept and what failed leaves nothing.
* **Request pipeline, executor, audit.** One request has one identity, charges its limits once, answers
  once and is audited once, whatever throws on the way.
* **Extensions.** One that breaks the schema is left out. Correct means: the API comes up with a schema
  that builds, and whoever fits is in it; the order of registration decides between two that clash.
* **Batched reads.** One query answers many promises, and its answers are remembered. Correct means: all who ask for one row between two
  mutations are told one thing, one the table has said; a failed query is told as a failure.

The hazards, each at its line and with the properties that would catch it, are in `PROJECT.json`.

## The modules

| Module | Models | State | Actions |
| --- | --- | --- | --- |
| `HostLifecycle` | the mutations of aliases, subdomains, the main domain, and the two customer mutations that write the hosts' statuses; the daemon | `status`, `parent`, `name`, `phpIni`, `mail` are columns and rows of the panel's tables; `used` the AUTO_INCREMENT ids; `req` what each PHP process is doing; `poked`, `queue`, `work` the daemon | `<Mutation>Check` is everything before the transaction, `<Mutation>Commit` the transaction, `SendRequest` the poke, `RollBack` and `LosePoke` what goes wrong; `DaemonWake`, `DaemonRead`, `DaemonDone`, `DaemonFails` |
| `HostOverlap` | `HostLifecycle` with the history of which transactions others overtook | `overtaken` the workers that wait while another commits; `raced` the hosts such a transaction wrote, or one the daemon was at work on | those of `HostLifecycle`, in three groups: `OverlapCommit`, `OverlapOther`, and the daemon's |
| `HostLifecycleProofs` | theorems about `HostLifecycle` and `HostOverlap` | | |
| `ResellerLedger` | the mutations of resellers, hosting plans and customers with `LimitRules`, and any mutation that uses a service | `reseller`, `customer` and `plan` are rows with their statuses and limits; `max` and `current` the columns of `reseller_props`; `used` what a customer has of each service; `proc` what each process has decided on; `overtaken`, which is history, the processes whose reseller was written to since | `<Mutation>Check` is everything before the transaction, `<Mutation>Commit` the transaction, `RollBack` its failure; `ResellerCreate` and `HostingPlanDelete`, which decide on nothing that can change; `GiveUp`; `Settle`, the daemon, which may fail |
| `ResellerLedgerProofs` | theorems about it | | |
| `FixedWindow` | the promise of a fixed-window limiter, abstractly | `admitted`, by slot and class; `used`, by slot | `Admit` |
| `RateLimiter` | `RateLimiter::charge()` with `ApcuStore`, one statement at a time | `apcu`, `apiRate` the two stores; `req` each process's charge; `admitted`, `used` and `restarts` are history | `Charge`, `ApcuIncrement`, `ApcuRefuses`, `Upsert`, `Select`, `Prune`; `ApcuExpire`, `ApcuEvict`, `Tick` |
| `RateLimiterProofs` | theorems about it, the refinement of `FixedWindow` among them | | |
| `ApiTokens` | `TokenService`, `AccessService`, the bearer and session paths of `AuthenticateMiddleware`, `TokenMutations`, the two pages, the clean-up after an account | `row` and `perm` are `api_token` and `api_perm`; `account` the `admin` row's status; `proc` what each process is doing; `cache` the static array of `customerHasApiAccess()`; `seen` and `swept` are history | one per statement: see `Step` and `Request` |
| `ApiTokensProofs` | theorems about it | | |
| `PanelProcesses` | the PHP processes that serve requests side by side, of which the four services below have some | | |
| `SqlAccounts` | `SqlService` and `MariaDbSqlServer`, one statement at a time | `sqlDatabase`, `sqlUser` the panel's tables; `schema`, `account`, `password`, `grants` the server's; `sqlCall` what each process is at; `overtaken` and `leftover` are history | `<Operation>Check`, then one action per statement (`...Statement`, `...Row`, `...Undo`, `RemoveUser...`); `Interrupted` |
| `SqlAccountsProofs` | theorems about it | | |
| `FtpAccounts` | `FtpService`, `FtpGroups`, the deletion of an alias, the change of the disk limit and `CustomerService::setState()` | `login` the users' statuses, `members` the one column of `ftp_group`, `quota` the row of `quotalimits`; `misread` is history | `...Check`, `FtpSelect` (the list is read), `...Commit`; `FtpSetState`, the suspension; `FtpRollback`, `FtpDaemon` |
| `MailAccounts` | `MailService`, `MailType` | `mail` is `mail_users`, `served` what the mail server knows, `work` the daemon | `...Check`, `MailDeleteSelect` (the rows that list the address), `...Commit`; `MailRollback`, `MailDaemonTake`, `MailDaemonDone` |
| `DnsRecords` | `DnsService`, and `CustomerService::update()` as far as it withdraws and grants custom DNS, and `setState()` | `record` is `domain_dns`, `zone` what the name server knows, `customDns` the feature, `building` the daemon | `...Check`, `...Commit`; `DnsSetState`; `DnsRollback`, `DnsDaemonTake`, `DnsDaemonDone` |
| `AccountServicesProofs` | theorems about `FtpAccounts`, `MailAccounts` and `DnsRecords` | | |
| `WriteTransactions` | `Writer::run()` over `Db` | `depth` the counter; `open`, `pending`, `marks`, `kept` the connection; `frames`, `throwing` the PHP stack; `answer` what the caller is told | `Enter`, `Write`, `StatementFails`, `Return`, `UnwindWriter`, `UnwindHelper`, `Ddl`, `Start`, `Answer`, over the statements `BeginTransaction`, `CommitWorks`, `CommitFails`, `RollBackWorks`, `RollBackFails` |
| `BatchedReads` | `BatchLoader`, one bucket | `pendingKeys` and `results` are its fields, `promise` the Deferreds, `table` the rows; `valid` and `given` are history | `Keyed`, `Flush`, `FlushFails`, `Recall`, `Mutate` (which resets); `OthersWrite`, `GiveUp` |
| `ApiExtensions` | `ExtensionRegistry`, `ExtensionLoader`, `Container::loadExtensions()` | `registered` the registry; `candidates`, `claimed`, `keeping`, `built` the locals of `load()` | `Register`, `Registered`, `Read`, `AllRead`, `BuildAll`, `AddNext`, `AllAdded` |
| `ApiCoreProofs` | theorems about `WriteTransactions`, `BatchedReads` and `ApiExtensions`, and about `MCServices` | | |
| `FiniteSums` | no code: facts about the sums over finite sets by which the ledger and the mail quota are modelled, for their proofs | | |
| `MCHostLifecycle`, `MCHostOverlap`, `MCResellerLedger`, `MCRateLimiter`, `MCApiTokens`, `MCServices` | instances for TLC. `MCServices` runs the seven modules from `SqlAccounts` on side by side | | |

Every definition that models code has its lines in `PROJECT.json` under `map`. A definition marked
*mutant* is a plausible bug in the definition after it; each checked property fails when its mutant is
put in place.

### Where one step of the model is one step of the program

*Hosts.* A transaction is one step: InnoDB gives its writes to the others together, and the daemon
reads after the poke, which follows the commit. The checks before it are one step too, because only
their outcome is used later. Forwarding, document roots, certificates and PHP settings are data. The
`error` status stands for any text the backend leaves in a status column.

*Ledger.* A mutation is two steps, as with the hosts: it decides, and it writes. What it decided on is
in `proc`, and the transaction uses nothing else but the rows it reads again itself: the customer for its
reseller's id, and the rows the counters are computed from. That a rule compares with the counters while
the counters follow the rows is the point of the part, so the counters are state of their own and
`Totals` is what they should be. A limit is withheld (-1), unlimited (0) or a number, as in the columns.
The order of the tests of `LimitRules` decides only which error is reported and is not kept. Every
mutation that creates something under a limit is one action, `UseCheck` and `UseCommit`: a database,
whose check asks least of the customer's state. An update writes the rows it has reasons to: a password
the account's, limits or an address the domain's, an expiry neither (`writes`). The daemon may fail at
either of a customer's rows; a failed deletion is a customer that counts again and may be deleted again.

*Rate limiter.* `apcu_inc()` is atomic and one step; the upsert, the SELECT and the prune are three.
The clock is read once per charge. The address and the account behind a key are data.

*Tokens.* Every statement is a step, and a process may stop before any of them (`Restart`), which also
empties its static array. `deleteReseller()` runs in a transaction and is one step, `deleteCustomer()`
is followed by an event outside it and is three. An account's status changes under the requests: a change
of the password takes it away from `ok`, the daemon brings it back or fails (`ChangePassword`, `Settle`). A customer's page asks for API access before it
works, a reseller's does not, as in the code. `Present` remembers whether the bearer was any good
when it was shown, and as a refusal for the account's sake ends where the daemon makes the account `ok` again,
`BackFor` takes it back: what is left in `refused` is why the credential has been no good all the time,
which is what `RefusedStaysRefused` is about.

*SQL.* DDL commits what it does and there is no transaction, so every statement is a step, and after each
the process may be gone. Others come between any two. `leftover` remembers, by name, what an interrupted
or overlapped operation left, so that a property can speak of the names nobody has marked.

*FTP, mail, DNS.* A mutation decides and then writes in a transaction, as with the hosts. Two of these
transactions read rows without a lock before they write them back (the list of members, the accounts that
list a deleted address); their SELECT is a step of its own. The daemon takes a mail or DNS row and writes
its status later, and a mutation may come in between; an FTP row it works off in one step. In all of them it may fail, also at a
deletion. `switched` stands for the statuses of a suspension and its end.

*Transactions.* Every call of `Writer::run()` and of the panel's helper, each write and each way out is a
step; begins, commits and rollbacks may fail at every one, the outermost included; a transaction that could be
neither committed nor rolled back is `abandoned`. A write is known by its mutation and depth.

*Batched reads.* A query is one step and sees one state of the table. A mutation's `reset()` and its
service call are one step, because no promise is carried out between them.

*Extensions.* What can go wrong with an SDL is kept apart as the loader does: what an extension alone
shows (`Sound`), what the others have claimed (`Readable`), and what only the build finds out (`Builds`).

### The environment

* **The daemon** is not in this repository. It is modelled from how `Support/Provisioning`,
  `PanelCore::sendRequest()` and docs/SPECIFICATION.md section 2.1 use it: poked, it visits the pending
  rows, carries each verb out and writes `ok`, `disabled`, an error text, or deletes the row. A poke
  during a pass starts another.
* **`update_reseller_c_props()`** is a function of the panel. From docs/SPECIFICATION.md and from when the code
  calls it: it sums the limits of the reseller's customers whose domain is not being deleted, withheld
  and unlimited ones counting nothing, and writes all the counters.
* **The daemon and the services.** It sets up mail accounts and zones from the rows; `ok` on a row says that
  they are as the row stands, which is what the properties hold it to.
* **`createDefaultMailAccounts()`** is a function of the panel. docs/SPECIFICATION.md:2143 says how it treats the
  transaction counter: it begins, and leaves the counter one too high when it fails.
* **The SQL server** carries out one statement at a time, commits DDL at once, and refuses to create a
  database that is there.
* **graphql-php** carries promises out later, in an order of its own (the model allows every order), starts a mutation when
  the one before it is answered, and answers a field whose child failed without waiting for the others.
* **A customer's two rows**, in `admin` and in `domain`, are settled by the daemon one at a time and in
  either order, and it may fail at each (`Settle`).
* **The clock** is one clock for PHP and MariaDB; the code compares `time()` with `NOW()` in places.
* **A charge takes two windows at most** (`MaxStall`). The prune relies on it: a process that stalled
  longer could read a pruned row as a first hit.
* **Whoever administers an account** in `ApiTokens` is an account outside `Accounts`.
* **AUTO_INCREMENT ids and token ids are never used twice.**

## The runs

| Run | Instance | What it asks |
| --- | --- | --- |
| `host_overlap` | two workers and the daemon, two aliases, one subdomain, two names, an alias limit of one | Names that are unique (`NamesDoubledByOverlap`), `php_ini` and mail rows that follow their host and subdomains that do not outlive their alias (`HostTablesByOverlap`), a pending verb written over (`PendingWrittenByOverlap`), which the deletion of an alias does to its subdomains without having read them, the alias limit (`LimitPassedByOverlap`): each is broken only where a transaction was overtaken after its reads, or in the other way its property names. |
| `host_concurrent` | two workers, one alias, every mutation, one lost poke | Orders without mail (`OrdersHaveNoMail`), no forgotten verb (`NoStrandedWork`), no approved alias taken away by a late rejection (`BuiltAliasesLeaveThroughDaemon`), no order provisioned without a decision (`OrdersAwaitDecision`). |
| `host_settles` | one worker, one alias, one subdomain, fairness | Every pending row is eventually settled (`EventuallySettled`). |
| `host_suspended_order` | the smallest instance with the behaviour | Finding 1. |
| `ledger` | two processes, one reseller, one customer, two plans of one name, SQL databases, a daemon that may fail at either row | A use above its limit (`OverusedByOverlap`), a customer or a plan without its reseller (`OrphanedByOverlap`), two plans of one name (`NamesakesByOverlap`), a deletion undone (`DeletionStands`): each only where one request overtakes another. Counters that agree with the rows (`CountersFollow`), except where nobody computes them: a deletion that fails, an account taken while its domain counts, a suspension that a deletion overtook. |
| `ledger_customers` | two processes, one reseller, two customers, one service, the reseller's limits change too, deletions that fail | More sold than there is (`OversoldByOverlap`): by overlap, or in the three other ways the property names. |
| `rate_database` | two workers, a window of one second beside one of four, two classes | Counted in the database, the limiter implements `FixedWindow`: no class is let through more often than it may, nor the classes together more often than the more generous limit (`KeepsPromise`), though rows are pruned between the statements; and a wait suffices (`RetrySuffices`). |
| `rate_apcu` | three workers, an eviction, two refusals | Counted in APCu: at most once the limit for every time the counter was lost, once more with refusals (`AllowanceBounded`). |
| `tokens` | two processes, two tokens of one customer, every request but deletions; passwords change, and the daemon settles the account or fails | Refused credentials (`RefusedStaysRefused`), completed withdrawals (`WithdrawalSweeps`), the token limit (`OverrunBounded`), the five questions about a token (`LivenessAgrees`). |
| `tokens_accounts` | two processes, a customer and a reseller, one token, deletions of either, the clock standing still | What a process remembers of one account is no answer about another (`ServedWithinAccess`); only a request for the owner revokes (`RevokedByRight`). |
| `services` | two processes and the daemon; seven modules, one of them at a time | *SQL*: the panel's rows agree with the server on every name no unfinished or overlapping operation has marked (`RowsMatchServer`), an interrupted deletion can be asked for again (`DeletionRepeatable`), and nobody touches what is another customer's but by overlap (`ForeignOnlyByOverlap`). *FTP*: users, members, hosts and quota stay together (`TablesPartByOverlap`). *Mail*: `ok` rows are served as they stand and deletions stay (`MailLostByOverlap`), the quota holds (`MailQuotaByOverlap`), a deleted address is on no list (`DeletedIsUnlisted`). *DNS*: `ZonePartsByOverlap`. *Transactions*: `MutationsWhole`. *Reads*: `AnswersAgree`. *Extensions*: `OthersAreKept`. |
| `mail_mailbox` | one process, two accounts | Finding 2. |

The properties named `...ByOverlap` share a form: a step may break the promise only if its transaction read what
another has changed since, or in a way the property names. They say two things: one request after another,
the promise holds; and of concurrent ones, exactly what goes wrong.

### Bounds, and why they are enough

Two workers are enough for a check of one and a write of another to interleave, which is the only way
they meet; three in `rate_apcu`, because a loss of the counter has to come between two hits of others.
Two aliases and a subdomain give every relation between hosts there is: sibling, child of the main
domain, child of an alias, same name; `host_overlap` lets a behaviour use two of the three (`MaxHosts`).
One token more than the limit of one is what an overrun needs.
Two seconds of a token's life hold the second before, at and after its expiry. The two instances of the ledger share the work: what takes two customers needs
no plans, and what takes plans, suspensions and both rows failing needs one customer. Each has one service: that the two SQL
services are withheld together (`SqlTogether`) is exercised by no run, and the theorems hold with it.
Limits of -1 and 1 with a use of up to 2 let two uses race for the last place; limits of -1 and 2 let a
reseller have two customers of which one takes the whole of a service. Unlimited services are not in
these instances, all three values being too many; the theorems cover them. Each exception the properties
name (`Overtaken`, `Regrants`, `DeletionFails`, `BroughtBack`, `Resurfaces`, `misread`, `leaked` and so on) is reached in its run, and the mutants show that
nothing else is excused. One is not: `ownName`, a customer with a username of its own, stands only in the theorem, and
`services` starts without it, as with one disk limit of two that are alike. The modules in `services` share no state and `MCServices` runs
one of them per behaviour, so its states are their union and not their product. For SQL three calls
(`MaxCalls`) by two processes are two that overlap and one that finds what they left; for mail two calls
(`MailCalls`) and the daemon; three nested transactions (`MaxNesting`) are a level above and one below a savepoint.
Two keys, one of which waits while the other's query fails; three extensions, because an unrelated one
has to break the build for order to matter. Ids run out: an instance
stops there, and so does the program's interest in the run, hence `CHECK_DEADLOCK FALSE`.
Counters are bounded by `MaxCharges`, `MaxEvictions`, `MaxRefusals`, `MaxLostPokes`, `MaxTime`, `MaxRows`,
`MaxCalls`, `MailCalls`, `MaxNesting`, `MaxExtensions`, all in guards of the environment's actions or of the clients', and `MaxHosts`. Symmetry is over interchangeable ids, and not
used where liveness is checked.

### Fairness

`FairSpec` of `HostLifecycle` is the only fair specification. It assumes that the daemon keeps running
(the panel supervises it), and that a PHP process that has begun its transaction ends it and goes on to
the poke. It does not assume that clients send anything, nor, in `host_settles`, that pokes are lost:
with a lost poke rows do wait until somebody else's poke, which `NoStrandedWork` says exactly. The
daemon may answer a verb with an error for ever; settled means that it is no longer pending.

## Findings

Two places where a sentence of the documentation and the code differ, each with a run.

1. *Suspension provisions orders* (`host_suspended_order`). `setState()` writes every alias of the
   customer, orders included; enabled again, they are provisioned though nobody approved them.
2. *Deleting an address deletes another's mailbox* (`mail_mailbox`). `delete()` takes the address off the lists
   of the customer's other accounts and schedules for deletion those whose list is then empty
   (`MailService.php:282`), also one that keeps a mailbox beside its list; API.md:309 speaks of one "left with nothing to
   deliver to".

Seen on the way, without a run of their own. Most are the exceptions the properties name.

* Of one request alone. An update of a customer does not check a service that was withheld until now,
  also where the update gives it back (`CustomerService.php:415`; the comment above it means a form that
  resubmits it unchanged), so the reseller may be oversold; `OversoldByOverlap` names this exception
  (`Regrants`) and needs it. A suspension overwrites verbs the daemon has not consumed
  (`Provisioning.php:40` promises otherwise), `todelete` of hosts, FTP users and DNS records among them; the FTP users come back without
  a place in the list of members. The domain itself it finds settled beforehand, and writes over a deletion only when overtaken by it. `token_max_per_account` of zero is no limit to the mutation
  and no token at all to the page. The alias limit counts no orders and is not asked at their approval.
  The disk limit of a customer whose username is not the domain's name changes without the quota of the FTP
  group (`CustomerService.php:629`). A withdrawal of custom DNS clears rows whose deletion the daemon has still to
  carry out, and the zone keeps the records.
* Of a failure. A customer whose deletion fails counts again, but not in the reseller's counters before the next
  mutation of one of its customers (`DeletionFails`). An FTP user whose deletion fails is live and no member of its group. When `createDefaultMailAccounts()` fails and its caller goes on
  (`PanelCore.php:318`, called from `DomainAliasService`, `SubdomainService` and `CustomerService`), the counter stays one too high:
  later mutations of the same PHP process are answered with success and never committed. A commit that fails leaves its
  transaction open, and the next DDL commits what was answered as failed (`Db.php:182`). An account stays
  without a row when the process ends between CREATE USER and the row. A deletion of a database that stopped half
  way can be repeated; if the name was created anew in between, the repetition drops the new one.
* Of two requests. Two concurrent creates find a name free and both insert it; no table has a unique key
  on it, while SPECIFICATION.md:1300 counts on a CONFLICT. Two concurrent requests under a limit of one can both be
  refused; the comment at `RateLimiter.php:35` and API.md:502 say the error is always in the other direction. The
  compensating DROP of `SqlService.php:117` takes a database that a third call has made under the name
  in the meantime. A subdomain created under an alias whose deletion has just been scheduled stays
  behind; and one whose earlier verb the daemon is at work on has its `todelete` overwritten with `ok` and stays too.
  A reseller is deleted while a customer or a plan is being created for it, and the new one is
  left without a reseller. An update of a customer that was read before its deletion puts the `domain`
  row back to `tochange` while the account goes; from then on the counters may be wrong until the next
  mutation of that reseller's customers. Two plans of one reseller get one name. An issue that asked for
  the access before its withdrawal inserts its token after the sweep. An issue that races the deletion of
  its account leaves a row of `api_token` that serves nobody. A member added to the FTP group while another is removed is lost.
* Of other plugins. `ExtensionLoader.php:50` keeps "everything else", and docs/EXTENSIONS.md drops the later of two that clash. Once any
  extension breaks the build, one that uses a type of a later one is dropped with it; and one that
  serves a field an earlier one has claimed is dropped even when the earlier one is itself left out.

## What is proved

For every value of the constants that satisfies the modules' assumptions (`DistinctRows`, `Limits`,
`OperationsExist`; `Configured`, of the ledger, the tokens and the rate limiter each; `SqlConfigured`, `FtpConfigured`,
`MailConfigured`, `DnsConfigured`; `TxConfigured`, `ReadsConfigured`, `ExtensionsConfigured`), and checked by TLAPS:

* `HostLifecycleProofs`: `TypeCorrect`, `OrdersKeepNoMail` (`OrdersHaveNoMail`), `NothingStranded`
  (`NoStrandedWork`), `BuiltAliasesStay` (`BuiltAliasesLeaveThroughDaemon`), `OrdersAwait`
  (`OrdersAwaitDecision`), and `ApprovalAloneProvisions`: where customers are never suspended, only an
  approval provisions, which says that finding 1 is the only way around an approval.
  The inductive invariant is `IInv`: the type invariant, `Numbered` (an id not handed out has no row and no mail
  account, so that a new order begins without mail), `OrdersHaveNoMail`, and `NoStrandedWork`. The action properties also need
  `OrdersGuarded`: a worker that rejects, cancels or deletes carries the operation its check decided on.
  About `HostOverlap`: `NamesDoubleByOverlap` (`NamesDoubledByOverlap`), `PendingKeptFromWorkers` (`PendingWrittenByOverlap`), both
  whatever the clients send; `HostTablesPartByOverlap` (`HostTablesByOverlap`), `LimitsPassedByOverlap` (`LimitPassedByOverlap`), for
  instances that send what `OverlapOperations` lists, as the run does (`InsertsAndDeletes`). Beyond these are
  the updates of an alias and of the main domain, and the mutations of a customer, which write the
  statuses of all hosts at once, orders among them (finding 1). `ReadInv`: what a worker that nobody has
  overtaken has read still holds (`ReadStill`), because the daemon writes only pending rows and no mutation
  goes on with one. On it rest `TableInv`, which says of every host that is not in `raced` what belongs to it
  in each of its states, and `RoomInv`: a worker not overtaken that is about to insert an alias
  found room for it, unless an alias is in `raced` or in error (`Excess`).
* `ResellerLedgerProofs`: `TypeCorrect`; `OverusesOverlap` (`OverusedByOverlap`), `OrphansOverlap`
  (`OrphanedByOverlap`), `NamesakesOverlap` (`NamesakesByOverlap`), `DeletionsStand` (`DeletionStands`). The
  invariant `IInv` says what a decided request may rely on: `Facts`, which nobody can change under it
  (its customer keeps its reseller, its plan is still a row of that reseller or none), and `Promise`, what
  its check found, which still holds unless the process is in `overtaken`. `Promise` is not inductive
  without `Fresh`: a row that was never inserted has no use, no counters and no owner. Every commit then
  either keeps the promise or has been overtaken, and the four theorems follow action by action.
  `CountersAgree` (`CountersFollow`) adds the counters: a transaction that changes a customer counts anew for
  its reseller and leaves the totals of the others alone (`RecountFollows`); a verb written over a row that counts keeps it
  counting (`VerbsFollow`), and so does what the daemon makes of one, but in the cases the property names (`SettledStays`).
  `OversellsOverlap` (`OversoldByOverlap`) compares what the reseller has with a sum over its customers. Its checks do not
  take that sum but read the counters; where these say no less than the rows, as the property requires, `RoomInv` suffices: what a
  process that nobody has overtaken has found affordable still is (`Afforded`). A commit then adds to the sum no more
  than there was room for, and of the daemon's steps only a failed deletion adds to it (`SettleTakes`).
* `ApiTokensProofs`: `TypeCorrect`; `StampedOnce` (`RevokedOnce`) and `OnlyOwnersRevoke`
  (`RevokedByRight`), from what each action does to one row (`RowsEvolve`); `WithdrawalsSweep` (`WithdrawalSweeps`),
  whose invariant says that a withdrawal past its sweep holds only spent tokens, and that what is spent stays
  spent (`SpentStays`); `RefusalsHold` (`RefusedStaysRefused`): what was wrong with a credential that is still marked as refused is wrong still, a
  token spent or an account not `ok` (only `Settle` makes one `ok`, and takes the mark away from every process: `OnlySettledIsOk`), wherever
  its process stands before the execution; `AccessHolds` (`ServedWithinAccess`): whatever a
  process remembers as *on* it has seen *on* itself; `OverrunsBounded` (`OverrunBounded`): the
  invariant is the bound itself, and the argument counts: an insertion swaps a process for a token, and
  a process is admitted only while fewer tokens live than the limit allows; `QuestionsAgree` (`LivenessAgrees`): the questions
  that are asked about a row in five places come to one comparison, because a stamp is a
  moment and never mistaken for none, and the expiry a number.
* `RateLimiterProofs`: `TypeCorrect`; `RetriesSuffice` (`RetrySuffices`), which is arithmetic of windows (`WindowStart`);
  `AllowanceHolds` (`AllowanceBounded`); `PromiseKept` (`KeepsPromise`): the limiter with its two statements, its prunes
  and two limits on one key implements `FixedWindow`. The invariant counts charges: a row of `api_rate` is at least what was let
  through plus the charges that have counted in it and are not answered (`RowCovers`), and what was let through plus the
  charges that will be, because of the number they have read, stays within the limit (`Promised`). `RowCovers` ends where a prune
  may take the row; `Promised` does not, because a charge is answered before (`Timely`, by `MaxStall`). Of
  APCu, a counter has let through no more than it counts, once for each time it was lost (`ApcuBounded`).
* `SqlAccountsProofs`: `SqlTypeCorrect`, `TablesMatchServer` (`RowsMatchServer`), `DeletionsRepeatable` (`DeletionRepeatable`), `ForeignByOverlap`
  (`ForeignOnlyByOverlap`). None of the three properties is inductive: between two statements of an operation rows and server do
  disagree. The invariant `SqlInv` says how. Of a call that nobody has overtaken, what it has read and done is
  still there (`CallKept`). Of a name without marks, and of every pair of a user and a database (`DatabaseKept`, `UserKept`,
  `GrantKept`): it is as it should be, or in the hands of one operation that is half done and not overtaken. An operation may stop anywhere, and
  then marks the names it was half done with. Ids are given in order (`Numbered`), so a row known by its id is the
  one that was read. A statement owes only its own call and the names it touches: what keeps a name's rows and accounts
  and takes no mark away keeps the rest (`StepKeeps`).
* `AccountServicesProofs`, of the three services whose transactions read before they write. *FTP*: `FtpTypeCorrect`,
  `TablesPartOverlap` (`TablesPartByOverlap`). The invariant says what a transaction that is not in `misread` relies on (`FtpRelied`):
  the host and the limit of a create, the row of an update, the list of members once it is selected. A commit puts everybody
  else who has begun in `misread`, and the daemon touches none of it: it writes pending rows, and what a transaction relies on is `ok`.
  A deletion that fails and a suspension over one make a user count who is in no list, which the property names for that user alone (`Resurfaces`). *Mail*: `MailTypeCorrect`, `LostOnlyByOverlap` (`MailLostByOverlap`),
  `DeletionsUnlist` (`DeletedIsUnlisted`). `MailInv`: what a call has read of an address is in the table still, unless the call holds it
  for stale (`MailRelied`), and the row the daemon works on is there (`WorkThere`); the rows a deletion has not selected do not list its
  address. `MailQuotaOverlap` (`MailQuotaByOverlap`) needs, beyond that, what the checks have compared, as long as nobody has written
  a row since (`MailPromises`): a new mailbox fits beside the others, a changed one takes no more than it had or fits, and the lists
  a deletion has selected are those of the rows. A commit then changes one share of the sum
  (`OneRow`), or none (`SameQuotas`). *DNS*: `DnsTypeCorrect`, `ZonePartsOverlap` (`ZonePartsByOverlap`). `DnsRelied` is what a call may rely on of whatever is not
  in its `since`: a step that marks what it changes keeps it for all the others (`DnsMarkingKeeps`). `DnsFresh`,
  that an id not yet given has no row, is needed for a create not to revive what is being deleted.
* `ApiCoreProofs`. *Transactions*: `TxTypeCorrect`, `WholeOrNotAtAll` (`MutationsWhole`). Until the helper leaks, `Ordered`: the counter is
  the number of open calls; within a call the open transaction holds only the running mutation's writes, and all of
  them unless an exception is on its way out (`Within`); outside one, whatever is still open belongs to
  a mutation whose commit failed (`Outside`). Neither half is inductive without the other, nor without
  `Signed`, that every write of the connection, also one a savepoint remembers, was made by the mutation it
  is marked with. *Reads*: `OneAnswer` (`AnswersAgree`). Of every key, either nothing is remembered and nobody has been told
  anything but failures (`Open`), or an answer is remembered that the table has given since the last mutation,
  nobody has been told another, and it is not to be read again (`Closed`). `Served`: a promise somebody waits for
  has its key on the list or its answer remembered, which is why a failed query may not clear the list. *Extensions*: `OthersKept`
  (`OthersAreKept`). `Chosen`: what is kept builds, and whoever was tried and left out
  would fit only by what a later one adds (`Missed`). It stays so because what is kept already needs nothing more
  (`StillMissed`). `Claims`: whoever could not be read, though it answers, clashes with an earlier candidate, and does
  not fit with it if that one is kept. *All services*: `EachImplemented`, that a behaviour of `MCServices` is one of each of the
  modules it runs side by side, so that each theorem about one of them is one about what TLC runs;
  `ServicesTypeCorrect` (`ServicesTypeOK`) puts their types together.
* `FiniteSums`, on which the two theorems about sums rest. The library folds a set by a recursive function over its subsets,
  and says nothing of it that can be cited. That such a function exists, that every order of
  taking the elements gives the same sum, and that the sum grows with its terms, are shown by the least counterexample among
  the subsets, in place of an induction.

Only model-checked: the liveness property `EventuallySettled`, which is out of the prover's reach; the safety behind it,
`NoStrandedWork`, is proved. The two findings are runs in which TLC finds a violation.

## Not modelled

`PROJECT.json` names the reason for each component.

* *Request pipeline, audit and error log.* One request is a straight line of checks in one process; the parts
  of it that others can disturb are elsewhere: the charges in `RateLimiter`, the credential and the switch in
  `ApiTokens`, the mutations in their modules. An audit row is written once at the end and read by nobody
  but a page. `execute()` of the in-process executor is that line again.
* *Ownership.* One query per object, remembered for the request; each service's check includes it as a
  condition on its target.
* *Resolvers and schema* are projections of rows. Pages, translations, the development tool, tests and
  vendored JavaScript are not part of what the system decides.
* *Of customers*, what `setState()` writes into `mail_users` (`CustomerService.php:976-1000`) and `htaccess` (lines 1002-1004), the
  sessions that a mutation ends, the quotas of mailboxes the panel recalculates, and what its `deleteCustomer()` does
  beyond the two rows. The statuses of the hosts, of the FTP users, of the DNS records and of the domain that `setState()` writes are modelled,
  each in its module. The run `host_overlap` sends no suspensions and no updates of a customer; the theorems about
  names and pending verbs cover them, and `host_concurrent` sends them.
* *The panel and its daemon* are not in the repository. They are modelled from how this code uses
  them, as far as it does, and marked external in the map.

## Plan

*Done:* `HostLifecycle`, `HostOverlap`, `RateLimiter` with `FixedWindow`, `ApiTokens`, `ResellerLedger`, `SqlAccounts`, `FtpAccounts`,
`MailAccounts`, `DnsRecords`, `WriteTransactions`, `BatchedReads`, `ApiExtensions`, and theorems about all of them.

Next, of the model: the suspension of a customer over its mail accounts, whose statements differ with
`HARD_MAIL_SUSPENSION` and with the status of each row; then the theorems of `MailAccounts` with one more operation.
