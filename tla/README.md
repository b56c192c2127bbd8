# CSBA / TeleVault: specifications, model checking and proofs

TLA+ modules kept beside the code of CSBA (`televault/`), the TLC configurations that
check them on small instances, and proofs that TLAPS checks for every instance.

## 1. The system

One Python process (FastAPI and SQLite in WAL mode) with a few background threads, a set of
scheduled scripts, and the command line. They share the database and the disks and nothing
else: there is no message passing. A web request is one transaction that opens with its first
write and commits after the handler returns; everything it has read before that first write may
be out of date by then.

| Component | State | Operations | Hard behaviour | What makes it correct |
|---|---|---|---|---|
| Recording indexer `indexer.py` | `recordings`, `index_runs`, `customers.volume_serial`, `temp.walk` | index_customer, index_all | walks of hours, several at once, over disks that come and go, from a `customers` row read once | forgets only what a walk of the customer's folder lacked, reads the disk that answered, converges |
| Indexer schedule `indexer.py`, `main.py` | wake event | run, trigger, stop | a trigger before the commit it is about | no wake-up is lost, a committed change is read by a pass |
| Customers `admin.py`, `cli.py` | `customers` | create, update, rebind, remove | moves and removals under a running index; id reuse | bindings stand, no shared folder, removal is complete |
| Users, departments `admin.py`, `scope.py` | `users`, `user_customers`, `user_departments`, `departments` | create, update, reset, memberships | two administrators at once, stale principals | an active superadmin is always left |
| Sign-in, second factor, sessions `auth.py`, `mfa.py`, `security.py`, `deps.py` | `users`, `sessions`, the limiter's memory | login, verify, setup, change and reset password, reset MFA | requests that read before another request writes; codes at the edge of their step | one code one use; who is locked stays locked; a session is worth what was proven in it |
| Scope `scope.py` | none | scope_sql, effective_customer_id | agreement of two readings of the same rules | the clause selects exactly what the rules say |
| Recordings `recordings.py` | none | list, stream, download, zip | a row read, its disk asked for and its file opened one after the other | serves only what the scope allows, from the customer's own disk |
| Grants `grants.py`, `grant-worker.ps1` | `access_grants` | queue, take, finish | worker killed half-way, the same request offered twice | every request ends, the latest folder wins |
| PBX pull `pbxpull.py` | lock file, status file, `pbx_*` tables, partial files | tick, run, pull_source, test_source | stale locks, overlapping runs, settings edited under a run | one run at a time, a file is whole or absent |
| SFTP feed `sftp.py`, `admin.py`, `grant-worker.ps1` | `sftp_accounts`, `settings`, listener, connections, failures by address, cached trees, the firewall rule | connection callbacks, supervise, kick_stale, tree, open_recording, the worker's rule | accounts and settings edited under logins and open sessions; a cached tree over rows whose ids are given again; a pass or the worker that fails half-way | sessions, listener and rule come to what is saved; a path opens the recording it names, and the audit log says so |
| Staff access `access.py`, audit `audit.py`, MCP `mcp_server.py`, CLI `cli.py` | `staff_access`, `audit_log`, `mcp_tokens` | | actors of the above | |

## 2. Modules

| Module | Models | Checked by | Proved in |
|---|---|---|---|
| `Indexer` | indexer.py, the `customers` operations of admin.py and cli.py | `MCIndexer` | `IndexerProofs` |
| `Catalogue` | what the recordings table promises its readers; abstract | `Indexer` implements it, in `MCIndexer` | `IndexerProofs` |
| `Server` | the memory of the web process: the address limiter of security.py, the indexer's thread and its wake event | itself | `ProcessProofs` |
| `Serving` | the routes of recordings.py that read files; tree and open_recording of sftp.py | `MCServing` | `ServingProofs` |
| `SftpFeed` | sftp.py: accounts and settings, connections, supervise, kick_stale; the firewall half of scripts/grant-worker.ps1 | `MCSftpFeed` | `ProcessProofs` |
| `Auth` | auth.py, mfa.py, security.py, the resets of admin.py, cli.py and mcp_server.py | `MCAuth` | `AuthProofs` |
| `Credentials` | what sign-in promises, however requests interleave; abstract | `Auth` implements it, in `MCAuth` | `AuthProofs` |
| `Grants` | grants.py, scripts/grant-worker.ps1, those who queue in admin.py and mcp_server.py | `MCGrants` | `GrantsProofs` |
| `PbxPull` | pbxpull.py: `_lock`, `run`, `pull_source`, `_pull_file` | `MCPbxPull` | `PbxPullProofs` |
| `Archive` | what the archive drive promises, whatever pulls do; abstract | `PbxPull` implements it, in `MCPbxPull` | `PbxPullProofs` |
| `PbxSources` | pbxpull.py: `tick`, `test_source`, `seed_from_config`; the routes /pbx of admin.py | `MCPbxSources` | `PbxSourcesProofs` |
| `Scope` | scope.py's clauses, explain_access of mcp_server.py: operators without state | through `Accounts` | `AccountsProofs` |
| `Accounts` (extends `Scope`) | the routes /departments and /users of admin.py, the principal of security.py, create-superadmin and remove-customer of cli.py | `MCAccounts` | `AccountsProofs` |

How they fit. The modules with state (the abstract `Catalogue`, `Archive` and `Credentials` apart)
share no variable; where two have a table of the same name (`customers`, `recordings`,
`sftp_accounts`), each keeps what its own component asks of it.

- `Serving` reads the table that `Indexer` writes. What it may rely on is `Catalogue`: rows come
  and go for one living customer at a time. `IndexLearns` and `IndexForgets` are the catalogue's
  `Learn` and `Forget` one row at a time, with the row ids the catalogue leaves out. So the proof
  that `Indexer` implements `Catalogue` is what lets the two be checked apart.
- A pass of `Server` is two steps, `PassReads` and `PassEnds`; `Indexer` has what lies between,
  from `StartPass` on.
- `PbxSources` has a pull as the two steps `StartPull` and `EndPull`, and the lock as its outcome;
  `PbxPull` has what lies between.
- `SftpFeed` ends where a session begins to ask for files, `Serving` begins there: its `session` is
  the copy of the account that `AuthCompleted` made permanent.

In the code the components share the database's single writer and nothing else: `Indexer`,
`Grants`, `Accounts` and `SftpFeed` each model what a removal of a customer does to their own
tables, and in the code those effects are one transaction.

Conventions. A module's state is the tables, the files and the local variables of its processes.
An action is everything between two points where another actor may step in: a commit, the first
write of a transaction, a file-system call. Variables commented "history" (`hist`, `accepted`,
`behind`, `late`, `served`, `astray`, `theft`, `mixed`, `garbled`, `crossed`, `vouched`, `begun`,
`stale`, `late` of a connection, `lost`, `asked`, `swapped`, `unheard`) are written so that a property
can speak of the past; no guard reads them. Operators commented "planted fault" are wrong
variants of the operator that follows them, one plausible slip in the code each. `Next` uses none
of them: put in the place of the right operator, each must break the property it is there for,
which shows that the property depends on the code it is about.

### Indexer

`run[w]` is the local state of worker `w`'s call of `index_customer`: its program counter, the
`customers` row as first read (`id`, `root`, `serial`), volume_serial's answer, the folders and
files `os.walk` still has to visit, `temp.walk`, `walk_errors` and the batch loop's position.
Every statement that commits and every file-system call is one action, because another worker,
an administrator or a disk may act between any two:

| Action | Code |
|---|---|
| `StartPass`, `StartRun`, `OpenRun` | index_all's read, index_customer's read of the customer (90-95), INSERT into index_runs (97-100); a removed customer fails the foreign key and ends the thread's pass |
| `AskOnline` | root_online (102-110) |
| `AskSerial` | volume_serial and its comparison with the row (112-124): no answer lets the run go on |
| `Bind` | UPDATE customers SET volume_serial (125-128) |
| `ScanRoot` | the os.scandir probe (130-141) |
| `ListFolder`, `StatFile` | os.walk with onerror, os.stat (67-87) |
| `SelectBatch`, `UpsertBatch` | the batch loop (171-209) |
| `DeleteMissing` | the DELETE and the closing UPDATE (211-227) |
| `RunFails`, `Crash` | the exception handler (228-238); the process dies |
| `AddCustomer`, `UpdateCustomer`, `RebindDrive`, `RemoveCustomer` | POST and PUT customers, rebind-drive, add-customer and remove-customer, each one write transaction |
| `Plug`, `Unplug`, `ChangeFile`, `Upgrade` | disks, files on them, a release that parses more names |

`hist` is history only: no guard reads it. It records per call which files were off the disk at its
root at some moment of its walk (`missed`), which stats failed (`skipped`), whether another disk than
the one that answered came to the root (`swapped`), and whether anybody else changed anything
(`alone`). An `Entry` of the walk names the disk it was read from, likewise for the properties only.

`ForgetsOnlyTheGone` says what a deletion needs: a run of that very customer that closes, that could
list every folder, and whose walk found the file lacking or could not stat it. It speaks of the walk
and not of the present, because the code does: a run that walked before a file came deletes the row
that a faster run has made of it since (indexer.py:215), a run of the folder the customer had before
a move deletes the rows of the new one, and a run whose root was given to another disk deletes what
that disk lacks. None of these can be excluded; `Converges` shows that a later run restores the rows.

Abstractions. A file's size and mtime are one version number; the parsed fields are one bit,
"this release can parse the name". Disks are their own serials. `volume_serial` answers with the disk
at the root or, wherever it is asked, not at all (`SerialAnswers`); that the disk of a run does not
answer is a fault and counts against `MaxEvents`. On anything but Windows it never answers, so that
nothing is ever bound: the runs show two such answers at most. `index_runs` holds
status text only and is not kept. Nested roots are not distinguished from equal ones.
What triggers a pass is in `Server`. Disks are unplugged, come back and take each other's place at
any moment. The code does not ask for the serial again after the start of a run: one that accepted the
customer's disk goes on reading whatever disk got the drive letter, writes what it finds there and
deletes what it does not; so does one that had no answer. `RunInv` therefore says whose files a walk
has met only for a run that had an answer and was not `swapped`, and nothing here shows that a
foreign disk is never indexed. In the other runs it can be; `Converges` has it put right once the
customer's own disk is back.

### Auth

SQLite opens a request's transaction at its first write, so a request is two or more steps: what
it reads, and the rest, which holds the write lock until the commit. `req[r]` is what request `r`
in progress has read.

| Action | Code |
|---|---|
| `LoginRead` | POST /login up to the verdict on the password (auth.py): user looked up, lock and `active` tested, hash verified |
| `ReadFailures`, `WriteFailure` | register_failure's SELECT and its UPDATE (security.py) |
| `SignIn` | register_success and create_session, second factor pending |
| `Resolve` | resolve_session's SELECT, whose row becomes the request's principal |
| `Setup`, `Verify`, `VerifyFails` | POST /mfa/setup and /mfa/verify (mfa.py) |
| `ChangePassword` | POST /change-password: every session ends, a new one begins |
| `Answer` | any route that refuses or only reads, and the staff-network gate of a superadmin's sign-in |
| `EndSession` | logout, expiry and its purge, a change of role |
| `ResetPassword`, `ResetMfa`, `SetActive`, `Unlock` | the administrators' routes, `set-password` and `reset-mfa` of the command line, the MCP tool unlock_user: one write transaction each |
| `Tick` | the clock, in steps of the authenticator (30 s) |

`accepted` collects the steps whose codes were accepted for the present secret. `behind` holds the
requests that had read a user before a reset or a password change of that user was committed, and
`late` the sessions such a request made, so that the invariant can say exactly when a session is
not worth what it claims. One user is enough: no statement of these routes relates two users.

Abstractions. Passwords, secrets and tokens are values, and a code is the step it is good for
(two steps never share a code). A session may end at any time, which contains both expiry rules.
`must_change_password`, `last_login` and `mfa_verified_at` are not kept: the first only adds a
refusal, and so does the freshness of a step-up. The address limiter lives in the memory of the
process and is in `Server`.

### Credentials

What a reader of mfa.py and auth.py takes sign-in to be, if each request were one step: a session
opens with the present password and is worth one factor (`Enter`); a secret comes where there is
none (`Enrol`: "a stolen password alone can never replace it", mfa.py:135); a code later than all
before it makes one session of its user worth two (`Prove`); a change of password ends every session
of the user and opens one that is worth two (`Change`); a reset takes the password or the secret and
every session with it (`TakePassword`, `TakeSecret`); sessions end (`Leave`). There is no reading
beforehand in it, no lock and no counter.

The mapping, at the end of `Auth`, takes the columns of `users` as they are, `accepted` for the
codes used, and for the door the sessions outside `late`. A sign-in by an overtaken request
thereby is not seen, and a change of password by one is a `TakePassword`. `ImplementsCredentials`
says what `AuthInv` cannot, which is about one state: a session is worth two factors because of a
`Prove` or a `Change`, never from the start because its user has an authenticator.

### Grants

| Action | Code |
|---|---|
| `CreateCustomer`, `MoveCustomer`, `GrantAccess` | POST and PUT customers, POST grant-access; each already holds the write lock when queue_grant looks for an open request |
| `CallReads`, `CallQueues` | request_folder_access over MCP: looks first, and its INSERT opens the transaction |
| `RemoveCustomer` | remove-customer: the requests go by the cascade |
| `SelectDue`, `Claim` | take_pending: the SELECT, and the UPDATEs with the commit |
| `Check`, `Apply`, `Report` | the loop of grant-worker.ps1 over the requests: Test-GrantPath, grant-drive.ps1, `grant-queue finish` |
| `WorkerDies`, `ReportFails` | a restart or the task's time limit; `finish` fails and the script goes on |
| `Tick` | the time since started_at |

The scheduled task never runs twice at once (IgnoreNew, install-boot.ps1:100-113), so there is one
`worker`; with two, nothing in grants.py would keep a slow worker's request from being taken up
again. Row ids are reused as SQLite does without AUTOINCREMENT. `served` are the rows whose folder
was given access while they were open; `astray` the rows whose id was given to them while the
worker held it for an earlier row.

Abstractions. The tests of Test-GrantPath are one verdict either way. Ages saturate at the
staleness limit, which is the only thing asked of them. MCP's read of the customer and its look
for an open request are one step. `take` prints its list within the command that commits it.

### PbxPull

A pull is a process; two are kept apart by the file pbxpull.lock alone.

| Action | Code |
|---|---|
| `Start`, `Steal`, `Create`, `Release` | _lock: the age of the lock file, unlink, O_CREAT and O_EXCL; run's finally clause |
| `Connect`, `Stop` | the tests and the connection of pull_source; everything that ends it early |
| `ListLocal`, `ListRemote`, `DayDone` | the loop over the day folders, oldest first: _local_sizes, the PBX's listing, the wait for the folder's copies |
| `OpenPart`, `Receive`, `ClosePart` | sftp.get into the .part |
| `CheckSize`, `MoveAside`, `PutInPlace`, `CopyFails` | the rest of _pull_file with its exception handler |
| `Die` | the process is killed; lock and .part files stay |
| `Grow`, `Settle`, `Tick` | the PBX records, a file has been quiet for pbx_min_age_minutes, the lock ages |

Several copies of one pull go on at the same time, as asyncio.gather has them. `theft` says that
the lock of a pull that was still going on has been removed; what a pull may rely on holds until
then. `mixed` and `garbled` follow .part files that two pulls have written at once.

Abstractions. A recording on the PBX only grows, so its size is its content, and 1 is the empty
file. One PBX: a second one is pulled after the first, under the same lock, into a folder of its
own. A listing of a folder is one step. An open .part can be neither renamed nor deleted by
another process (Windows, where the program is deployed). A pull by the task ends before its lock
is stale (ExecutionTimeLimit 23 hours, install-boot.ps1:128-138, against 24 hours,
pbxpull.py:347); a pull by hand has no limit.

### PbxSources

A request of the page is one write transaction. The tick is a process that reads the list once,
tests over the network, and writes its results by row id; `tick` is its local state.

| Action | Code |
|---|---|
| `CreateSource`, `UpdateSource`, `DeleteSource`, `RequestTest`, `Trust`, `RunNow` | the routes of the PBX page (admin.py:949-1053); a removed customer's PBXs go by the cascade |
| `StartTick` | seed_from_config, the SELECT of the list, what is to be tested (pbxpull.py:431-472) |
| `TestSource`, `RecordTest` | test_source, and the UPDATE of its result |
| `ReadWish`, `ConsumeWish` | "run now": the SELECT, and the UPDATE that clears it before the pull |
| `MarkNight`, `NoNight` | the night's mark, or a pull of recent days, or nothing |
| `StartPull`, `EndPull` | run: the lock is had or not; its finally clause |
| `Die` | the tick is killed anywhere; its lock stays until it is stale |
| `OtherPull`, `OtherEnds`, `NightFalls`, `NightEnds` | pulls by hand and locks left behind; the clock |

`crossed` are the rows into which the result of a test of another address was written; `vouched`
the address for which a superadmin, or config.json, last trusted a row's key; `begun` the nights
whose pull has begun.

Abstractions. A machine is known by its address, which also names its host key: a machine that is
installed anew behind its address is not modelled. The window of the night stays as it is set. A
PBX's name is what a wish may ask for. Which PBXs a pull takes is `Connect` of `PbxPull`.

### Catalogue

Four actions: recordings of a living customer are learnt (`Learn`) or forgotten (`Forget`), a
customer of whom nothing is known comes (`Come`), a customer goes with all that is known of it
(`Go`). The mapping, at the end of `Indexer`, is `live` for the ids with a `customers` row and
`shown[c]` for the files with a row of `c`. A commit of the batch loop is a `Learn`, the closing
DELETE a `Forget`, remove-customer a `Go`, every other step of runs and disks a stutter. What makes
it more than a restatement: runs hold a customer's id through hours in which the id is freed and
given again, several run at once, and each of them writes under the id it read.

### Archive

Four actions: the PBX goes on recording (`Record`), a short copy makes place and stays a copy
(`SetAside`), what comes into the empty place is longer than any copy before it (`Deliver`), and the
promise ends because two pulls were at work at once (`Breach`, then anything). The mapping, at the end
of `PbxPull`, takes `remote` for what is offered, `local` for what is in place, and for the copies
those kept as .replaced-<date> together with the one in place; `MoveAside` is a `SetAside`,
`PutInPlace` a `Deliver`, `Steal` may be the `Breach`. It says what `OnlyTheShortGivesWay` does not:
nothing set aside by an earlier pull is lost to a later one, and a place left empty by a pull that
was killed between its two renames is not filled by less than was there.

### Server

What the web process keeps in memory and loses with its end. A request is one thread of the pool.

| Action | Code |
|---|---|
| `BeginAttempt`, `AttemptFails`, `AttemptEnds` | IpLimiter.allowed at the start of login and verify, IpLimiter.hit once a failure is known, the ends that are not counted (auth.py:77-130, mfa.py) |
| `HitsExpire` | _trim: the window has passed for the oldest |
| `Write`, `Trigger`, `Commit`, `RollBack` | a route that changes or reindexes a customer: its statements, `indexer.trigger()`, and get_conn after the handler (deps.py:25-44) |
| `ThreadStarts`, `ThreadTests`, `PassReads`, `PassEnds`, `WaitEnds`, `ThreadClears` | IndexerThread.run: the sleep, `while`, the SELECT of index_all, the end of the pass or its exception, wait, clear |
| `Stop`, `Restart` | the lifespan's end; the process is ended, in order or not, and started again |

A `quiet` change wakes nobody (a new name, `enabled` alone). `unheard` are the changes of which the
property promises less: those, and the ones whose wake-up was spent on a pass that read the
customers before the commit. Abstractions: a change is a number, and reindexing a customer counts as
one; a request that waits for the single writer has not begun.

### SftpFeed

All of sftp.py runs on one event loop, so a callback is one step unless it reads the database more
than once: the admin page's requests run in threads and commit between any two reads.

| Action | Code |
|---|---|
| `CreateSftp`, `UpdateSftp`, `DeleteSftp`, `UpdateSftpServer`, `RemoveFeedCustomer` | the routes /sftp (admin.py:769-860); the cascade of remove-customer |
| `Accept` | asyncio accepts; connection_made is a callback of its own, later |
| `ConnectionMade`, `ConnectionJudged` | connection_made up to its read of the mode, and from its read of the addresses on |
| `BeginAuth`, `WrongPassword`, `AuthCompleted`, `ConnectionLost` | the callbacks of _SSHServer; the row begin_auth read is what auth_completed installs |
| `FailsForgotten` | FAIL_WINDOW has passed |
| `SupLooks`, `SupCloses`, `SupKeeps`, `SupStarts`, `SupFails` | supervise: its read of the settings, close and close_all, `await start`, any exception of the pass |
| `KickByAccount`, `KickByMode` | kick_stale, one session: account() and then tunnel_mode() |
| `PlanSettings`, `PlanAddresses` | `sftp-firewall plan`: two SELECTs |
| `WorkerCloses`, `WorkerRemoves`, `WorkerOpens`, `WorkerFails` | grant-worker.ps1:88-117: no rule, or none to change; remove; add; `catch` or death |

`stale` holds the sessions that a test of kick_stale would have ended when the walk began and at
every moment since, with the test; `late` marks a connection whose listener closed before
connection_made.

Abstractions. Passwords and keys succeed or fail by chance. The state of the rule shown on the page
(sftp_fw_*) is not kept. A customer's id may be given again, and an account that was removed and
created again under its freed id, name and customer between two passes counts as never gone, as
kick_stale compares nothing else. Addresses are single. `Test-FwAddress` and the port test repeat what
the page has validated. Failures count up to the limit and no further, which is all that is asked.

### Serving

`reader[r]` is a web request, a zip, or an operation of an SFTP session; every statement and every
system call is a step.

| Action | Code |
|---|---|
| `WebSelect` | the SELECT of _resolve (one row) or zip_download (several), rows joined with their customers |
| `FeedOpens`, `BuildWindow`, `BuildRows`, `StoreTree`, `TreeExpires` | _entry and tree: a fresh cached tree, or _build in a thread of its own, however many build the same one; the last to return is kept |
| `FeedAccount`, `FeedLimit`, `FeedRow` | open_recording: the account as it is now, the window of the lesser days, the row by id, customer and window |
| `AskOnline`, `AskSerial` | drive_state, once for each customer |
| `OpenFile`, `FeedAudit`, `Close` | the file by name; the audit row, after whose commit the handle exists; the end |
| `IndexLearns`, `IndexForgets` | a commit of the indexer, one row of it |
| `Swap`, `ChangeFiles`, `PlaceCustomer`, `ChangeAccount`, `Login` | disks, files, update_customer and rebind-drive, update_sftp, a new session |

`asked` and `swapped` say which roots a reader has begun to ask for and which of those were given
another disk since; `lost` which ids left the index since a tree's rows were read.

Abstractions. Which rows a web route may name is the business of `Scope`. A day is the unit of
windows, and every recording is in the present or the past. The serial of a disk that is there can
be read, as on Windows; of one that has just gone it is None, which the code lets pass. A response
reads one file from one disk: a disk that goes in the middle of a file ends it. The file's bytes
are the disk and the path, so files that change under an open handle are not followed.

### Scope and Accounts

`Scope` states once what the clause of scope_sql selects (`ScopeSql`), for any principal, rules and
recording, and beside it what the second reading of the same rules says, the reasons of
explain_access (`Hits`, `Favourable`). `Accounts` has the tables the principal comes from.

| Action | Code |
|---|---|
| `Begin` | resolve_session's SELECT of the session and the account, before any lock (security.py:100-119) |
| `Answer` | a route that lists or serves recordings, refuses, or writes other tables |
| `CreateCustomer`, `CreateDepartment`, `UpdateDepartment`, `DeleteDepartment` | the routes of admin.py, with the cascades of the foreign keys |
| `CreateUser`, `UpdateUser` | _validate_user, _manageable, the guards of update_user, _save_memberships |
| `CreateSuperadmin`, `AddCustomer` | the command line |
| `ReadEmptied`, `RemoveCustomer`, `DryRun` | remove-customer: the list it prints, and the DELETEs that a `--confirm` adds |

Every action of a request but `Begin` ends it: the UPDATE of the session's expiry opens the
transaction, load_memberships and the route follow under the write lock, so a route works with the
role of before (`req[r].role`) and the memberships of now (`Of(r)`). Ids are given again as SQLite
does without AUTOINCREMENT: each is one more than the largest. A free id has an empty row (`NoDept`,
`NoUser`).

The rules are read twice, and not alike: SQLite's LIKE makes the capitals of ASCII small and leaves
other letters as they are, str.lower in explain_access makes all of them small. A folder is therefore
a spelling, `[word, ascii, beyond]`: the name in small letters, and which of its letters of either
kind are capitals. `SameToLike` and `SameToLower` are the two comparisons. `ExplainAgrees` says that
what scope_sql selects has a reason, and that what it hides has none but folders that only str.lower
finds. That those occur is in the instance: a recording under a folder that differs from the
department's by an umlaut's case has a reason and is hidden.

Abstractions. A folder's path is one name. A user keeps its name. The column
`users.customer_id`, which every edit clears, is taken as NULL. The statements of explain_access,
and the SELECTs by which remove-customer makes its list, are one step each. An account may see a
recording whether or not the index has it. Passwords, sessions, the second factor and step-ups are
in `Auth`.

## 3. What each run checks

The invariants and properties are stated in words above their definitions. A "pass" run ends with
all its properties satisfied over the complete state space of its instance; a "violation" run
checks one sentence that a comment or a document of the repository says, and TLC shows the steps
by which the code contradicts it.

| Run | Instance | Shows |
|---|---|---|
| `IndexerRuns` | one customer, two files in a folder each, one of them of a name the release can parse, the thread and the MCP tool, batches of one row, two events | two overlapping calls, of which either may fail or die at any step: `RunInv`, `ForgetsOnlyTheGone`, `ExactWhenAlone`; `Converges` under fairness of the thread alone |
| `IndexerDisks` | two customers, two roots and disks, two folders, two versions of a file, the thread, two events | moves, rebinds, removals, ids given again, disks that trade places, serials that cannot be read: `RunInv`, `ForgetsOnlyTheGone`, `Converges`, and `ImplementsCatalogue`, the refinement |
| `Server` | one address, a limit of two, three threads, two changes, one restart | `LimiterBound`, `TriggersAreNotLost`, `ChangesAreIndexed` |
| `SftpFeed` | two names, two customers, one connection, two addresses of which one is loopback, three states to start from, two edits, one fault | `FeedTypeOK`, `PassEndsStaleSessions`, `ClosedFeedKeepsLateOnly`, `SessionsSettle`, `ListenerSettles`, `FirewallSettles` |
| `Serving` | two readers, two customers, one of them bound to a disk, two roots and disks, two paths a day apart, ids 1 and 2, two events | `RightDisk`, `OpensWhatWasAsked`, `HandlesAreAudited` |
| `AuthRequests` | one user, two sessions, two requests, two passwords and secrets, limits of two, three steps of the clock | `AuthInv`, `CodeOnce`, and `ImplementsCredentials`, the refinement |
| `GrantsQueue` | one customer, two folders, two MCP calls, ids 1 and 2, two faults | `GrantsInv`, `OpenBound`, `OutcomeStays`, `EveryRequestEnds` |
| `PbxPull` | one recording on the first of two days, the task and a pull by hand, sizes up to 3, two events | `PullInv`, `OnlyTheShortGivesWay`, `EverythingArrives`, and `ImplementsArchive`, the refinement |
| `Indexer_OrphansWriteNothing` | as `IndexerRuns`: one customer, whose id is the only one and is given again, the thread and the MCP tool, two events | section 6 |
| `PbxSources` | room for one PBX, two addresses, one of them in config.json, a wish for all and one by name, two nights, one death | `SourcesInv`, `OncePerNight`, `RequestsAreTaken` |
| `Accounts` | two requests, two customers, departments and users at most, two rules, a recording of each customer, a folder in two spellings of either kind | `AccountsInv`, `ExplainAgrees`, `BrowsingNarrows`, `AnswersDoNotWiden`, `AccessChangesByAuthority`, `SuperadminStays` |
| `Auth_FailuresKeepLocks` | as `AuthRequests` | section 6 |

Why the bounds are enough. Every property relates at most two processes to one row, file or
session, so two processes and one or two data are the smallest instance in which it can fail, and
no guard of the code compares more than two of them. In particular:

- `Batch` 1 puts a commit, hence an interruption, between the two rows of a walk. `MaxVer` 1 is
  a file that comes and goes, 2 one that also changes. `Known` is one of the two files: the other's
  name becomes parseable with an `Upgrade`, when its row may be there already.
- `MaxEvents` of the indexer counts faults, changes of files and disks, and administrators'
  actions together; a mounted disk whose serial a run cannot read is a fault. Two are enough for the
  shapes that matter: unplug and plug again, move and plug, remove and add, a serial not read and a
  rebind; a file that comes between the walks of two overlapping runs needs one. The steps of runs
  are not bounded.
- `MaxFailures` and `MaxWrong` 2 leave one failure below the limit. `LockSteps` 1 and three steps
  of the clock let a lock begin and end while a request is in progress, and let a code be
  presented before, in and after its own step.
- `MaxId` 2 has an id freed by a removal and given again while the worker holds it. `MaxFaults` 2
  is a death and a second fault while what the first left behind is being repaired.
- Two events of `PbxPull` are a pull by hand and its death or failure, or two failures of the
  task's; the second, empty day lets a pull move on, and end, while the other copies. With sizes up
  to 3 a copy can give way twice, the second time to a copy longer than one already set aside. Other
  instances (three events; two files over two days with one event) satisfy the same properties.
- `MaxId` 1 of `PbxSources` has the id of a deleted PBX given to the next while the tick holds a
  test of the first. Two ids, without nights and deaths, satisfy the same properties. Two nights
  let a tick that began in one mark it in the next.
- `Accounts` needs no bound on events: two ids of each kind make the state space finite, and let
  each id be freed and given again while a request or a removal holds it. Two requests are what it
  takes for two superadmins to demote each other. Both customers have an extension 436, so that a
  rule that was not confined to its customer would show.
- `Server`: three threads let two attempts be in progress while a third is refused at the limit.
  One address suffices, since no statement relates two. One change may wait for its commit while the
  pass that it woke reads, and another wake it again; a restart falls anywhere.
- `SftpFeed` follows one connection: kick_stale and close_all judge each on its own, and the walk
  over several is the same step repeated. The proofs have any number. Two edits are what it takes to
  take an account away and give it back, to change mode and switch, or to take an id and name for
  another customer. `FailLimit` 1 has the limit reached by the first failure; `MaxIps` 1 lets two
  addresses be too many for the worker.
- `Serving`: two readers are two builds of one tree that return in either order, or a zip beside an
  SFTP operation. Two events are: a row forgotten and its id given to another; a disk unplugged and
  another put in its place; a customer moved and an account changed.

Symmetry is used only in runs without liveness properties: tokens, requests, passwords and secrets in
`AuthRequests`, requests in `Accounts`, readers in `Serving`. Deadlock is checked in every run.

## 4. Fairness

- `Indexer`: weak fairness of the thread's next step (`StartPass` or a step of its run). The
  thread loops for ever, waking at least every interval, and catches what a pass raises
  (indexer.py:270-280). Nothing is assumed of the MCP tool's worker: it may stall for ever in the
  middle of a run, and `Converges` holds nevertheless.
- `Grants`: weak fairness of the worker's next step, because the task starts it every minute
  (install-boot.ps1:100-113) and the loop goes on; and of `Tick`, since time passes. Deaths and
  failed reports are bounded: a worker that always dies ends no request. Nothing is assumed of
  those who ask.
- `PbxPull`: weak fairness of the steps of every pull that goes on (the SSH connection is kept
  alive and so ends when the PBX is gone, pbxpull.py), of `Settle` and of `Tick`. Strong fairness
  of `Start(Task, 1)`: the nightly pull of all days is tried again and again, and the pulls
  between, of recent days only, make it possible only now and then.
- `PbxSources`: weak fairness of the tick's next step: the task starts it every five minutes
  (install-boot.ps1:128-138), and every wait in it has a timeout. Deaths are bounded. Nothing is
  assumed of the page, of pulls by hand or of the night.
- `SftpFeed`: strong fairness of the supervisor's step. An event loop runs what is ready in the order
  in which it became ready, so a stream of connections that takes the loop again and again does not
  keep the supervisor from its turn. Weak fairness of each connection_made and of the rest of it
  once begun, and of the worker's next step, which the task starts every minute
  (install-boot.ps1:100-113). Nothing is assumed of clients, who may never send a password, nor of
  superadmins. Edits and faults are bounded; "once nothing is edited any more" is the `<>[]`.
- `Server`: weak fairness of the thread's next step: a pass ends, and wait returns when woken or when
  the interval has passed (indexer.py:270-280). `ChangesAreIndexed` therefore rests on the interval
  where a wake-up was spent too early; `TriggersAreNotLost` says where it need not. Nothing is
  assumed of requests, which may never commit.
- `Auth`, `Accounts` and `Serving` promise no liveness.

## 5. Proofs

Every theorem holds for all values of the constants that satisfy the module's named assumption
(`IndexerAssumption`, `AuthAssumption`, `GrantsAssumption`, `PbxPullAssumption`,
`PbxSourcesAssumption`, `AccountsAssumption`, `FeedAssumption`, `ServerAssumption`,
`ServingAssumption`): types, finiteness of the threads, connections and addresses, that limits are
positive, and that recordings belong to customers there may be. Where runs are given bounds
(`MaxEvents`, `MaxFaults`, `MaxNow`, `MaxId`, `MaxSize`, `MaxNight`, `MaxDeaths`, `MaxCustomer`,
`MaxDept`, `MaxUser`, `MaxAccount`, `MaxEdits`, `MaxChanges`, `MaxRestarts`, `MaxRow`) the theorems
hold for every bound.

**IndexerProofs.** `TypeCorrect`: `TypeOK` is inductive. `RunInvHolds`: so is `RunInv`, which is
`TypeOK /\ WalkInv`. `WalkInv` speaks of one worker at a time (`WalkInvSplits`), so the proof
shows that a worker's own steps keep its part and that nobody else's step disturbs it
(`BystandersKeepIt`). Its heart is `UnmetIsAccountedFor`: a file that the walk of an error-free run
has not met lies in a folder still to be listed, or among the names still to be looked at, or was
off the disk at the root at some moment of the walk (`LacksAreMissed` keeps that through unplugging,
plugging and changes of files), or its stat failed. With nothing left to list, the last two remain,
and `ForgetsOnlyTheGoneHolds` follows at the DELETE, which names its customer and leaves a run with
unread folders out. `MetOnOwnDisk` rests on `RootIsSteady`: from volume_serial's answer to the end of
the walk the root shows the disk that answered, or nothing, or the run is `swapped`.

`ExactWhenAloneHolds` needs an invariant of its own, `AloneInv`, which only the proofs use. Its first
half, `TidyOf`, holds of every call: nothing is left of a call that is over, and only files the walk
has met are to be written. The second speaks of a call that nobody has disturbed: the customer and
the drive are those it began with (`CustomerStays`); what it met is on the drive as it was met, and
what it has not met is not there, or still ahead, or was passed over (`WalkIsExact`); and a row that
the SELECT has gone past agrees with the walk (`SettledRowsAgree`). The last is the delicate one: a
row is settled by the UPSERT, or because the SELECT passed it as fresh, or because it was taken and
then left alone as unchanged and still unparseable (`WritingStaysAlone`). A step of anybody else
either changes nothing the call looks at or takes `alone` from it (`BystandersStayAlone`). At the
DELETE nothing is ahead and nothing unsettled, so table and drive are equal.

`ImplementsCatalogueHolds` is the refinement: the initial states map to initial states, and
`StepOfTheCatalogue` gives for each action the catalogue's action or a stutter. It adds one
invariant, `NoOrphanRows`: an id without a customer has no row, so that who is given the id starts
with none. A batch keeps it because the foreign key refuses rows of a customer that is gone
(`UpsertIsLearn`), a removal because the rows go in the same transaction (`RemoveIsGo`). That a batch
holds only files of the walk comes from `TidyOf`.

**ServingProofs.** `ServingTypeCorrect`, and one inductive invariant for each property, each about
one reader at a time. `RightDiskHolds`: between the answer of drive_state and the open, the disk of
every place that was asked for is the place's own, or the root is among the `swapped`; `Swap` is the
only step that can disturb it and records just that. `OpensWhatWasAskedHolds`: a tree's id names the
path it was listed under, or the id is among the `lost`, and this must be kept through the cache,
through builds that return out of order, and in the reader's copy. `HandlesAreAuditedHolds`
follows from what `FeedAudit` writes and that the log only grows.

**ProcessProofs.** `LimiterBoundHolds` counts: attempts in progress are threads, so hits and
attempts of an address together stay below the limit and the number of threads; `BeginAttempt`
raises the sum while hits are below the limit, `AttemptFails` leaves it. `TriggersAreNotLostHolds`:
the strengthening `TriggersStand` lets a change that is triggered count like one that is committed:
unless it is `unheard`, `wake` is set or the thread has still to read. `PassEndsStaleSessionsHolds`:
while kick_stale walks, a session that is `stale` by a test is in the rest of the list, or is the
one being judged and stale by the mode (`StaleIsListed`); so with the list empty none is left.
`ClosedFeedKeepsLateOnlyHolds`, with `StartsFromNone`: close_all leaves what is accepted and not
made, and nothing is accepted while nothing listens.

**AuthProofs.** `AuthInvHolds`: `TypeOK /\ AuthInv` is inductive. `SessionsAreWorthIt`, the point
of it, is not inductive alone: a session made from what a request read is worth as much as that
reading (`ReadingsHold`), and a request that marks "its" session must not mark another user's
(`TokensAreOnesOwn`, from the freshness of tokens). `CodeOnceHolds` rests on `CodesAreBehind`: the
step remembered is at least every step accepted, and a code must be later. That bound is on the
row, not on the session or the request, which is why two requests cannot share a code.
`ConfirmedSecretStaysHolds` rests on the same part: `Setup` acts only when there is no secret, and
a confirmed authenticator has one, however old the request's belief that it is not confirmed. (It
has no run of its own: it follows from `ImplementsCredentials`.)
`ImplementsCredentialsHolds` needs all of `AuthInv`: `SignInEnters` and `ChangePasswordChanges` take
from `ReadingsHold` that the password read is the present one and that the factor read is still
confirmed, unless the request is in `behind`; `VerifyProves` takes from `CodesAreBehind` that
the code is new, and from `TokensAreOnesOwn` whose session it passes. The other steps are `Quiet`:
they leave the credentials and end sessions at most (`QuietLeaves`).

**GrantsProofs.** `GrantsInvHolds`: `DoneIsServed` follows back through the worker: what it is
about to report (`ReportsAreTrue`), that it holds the row's own folder (`JobsKeepTheirFolder`), that
it holds nothing which has ended (`JobsAreOpen`). The last is also what `OutcomeStaysHolds` needs.
`OpenBoundHolds` counts: an INSERT by a call turns one waiting call into one open request, and any
other INSERT finds no open request; finite sets and their cardinalities are those of
FiniteSetTheorems.

**PbxPullProofs.** `PullInvHolds`: `TypeOK`, `LockIsHeld` and `CopyInv` together. As long as no
lock was stolen, a pull inside holds the lock, so nobody else lists, writes or renames, and what
it `Knows` (the archive as listed, the .part as received) stays true until it uses it.
`OnlyTheShortGivesWayHolds` follows at `MoveAside` and `PutInPlace`. `ImplementsArchiveHolds` needs
`AsideInv` besides: a copy set aside is shorter than what the PBX has, and than what a pull under way
is bringing. It is kept because a pull lists the PBX after whatever was set aside before it, and
because no other pull sets anything aside meanwhile (`CopyStepKeepsAside`); while no copy is in place,
as between the two renames or after a death there, it is all that is known of the copy to come.
`SeenByTheArchive` names the four kinds of step that the mapping does not send to a stutter.

**PbxSourcesProofs.** `SourcesInvHolds`: what the invariant asks of a row concerns that row and
what history says of its id, so each action is shown to leave one row in order. `RecordTest` needs
`FindingIsOfTheJob`; with it a result is either of the row's address or makes the row `crossed`.
`OncePerNightHolds` rests on `NightsAreMarked`: the guard compares the mark with `!=`, so it must
also be known that the mark is never later than the night a tick holds.

**AccountsProofs.** `ExplainAgreesHolds` and `BrowsingNarrowsHolds` are facts of `Scope`, for every
principal at all: each disjunct of the clause that selects is among the reasons of explain_access
(`ClausesAreHits`), and a reason without a disjunct is a folder in a spelling that LIKE tells apart
(`HitsWithoutClauses`, `ExplanationIsRight`). `AccountsInvHolds`: `TypeOK /\ RoleFits /\ NothingDangles`
is inductive; `RoleFits` is why memberships read for a role that is not the account's own entitle to
nothing (`MixedReadings`), which gives `AnswersDoNotWidenHolds`. `SuperadminStaysHolds`: a change
that takes a superadmin away counts the *other active* ones in its own transaction, however old
the role of the request. `AccessChangesByAuthorityHolds` has one lemma per action; where a customer's
administrator acts on another account, `_manageable` keeps all of that account's recordings within
the administrator's customers before the change (`ManagedAreTheirs`), and `_validate_user` after it
(`GrantsAreTheirs`).

Only model-checked: the liveness properties (`Converges`, `EveryRequestEnds`,
`EverythingArrives`, `RequestsAreTaken`, `SessionsSettle`, `ListenerSettles`, `FirewallSettles`,
`ChangesAreIndexed`), since the prover handles neither fairness nor ENABLED in them.

## 6. Where the code differs from what is said of it

Each of these is a run that TLC finds violated:

| Run | What happens |
|---|---|
| `Indexer_OrphansWriteNothing` | a run begun before a customer was removed writes that customer's rows under the id when it is given to a new one (db.py:16, indexer.py:200) |
| `Auth_FailuresKeepLocks` | a failure below the limit writes NULL to `locked_until` (security.py:178), so a sign-in that was already past the lock test, or a wrong authenticator code, lifts the lock |

Seen while modelling, and no run of their own: a file that is listed but cannot be stat'ed is passed
over without an entry in `walk_errors` (indexer.py:84), so a drive unplugged at that moment costs
its rows, although db.py:4-5 keeps them for "files that no longer exist on an *online* drive" (the
exception in `ForgetsOnlyTheGone`); the result of a connection test is recorded by id alone
(pbxpull.py:476), so when the address was changed meanwhile it withdraws the test that the change
asked for and offers the old machine's key for trust under the new address, although admin.py:1011
says "another machine: its key must be trusted again" (`crossed`); a login that began before the
supervisor's pass may complete after it with an account that has since been disabled, and lasts
until the next pass (sftp.py:326-361); a connection accepted and not yet handed over outlives
close_all (`late`); a customer that is changed by a request which is slow to commit is left to the
interval (`unheard`); the disk of a zip is compared once before thousands of files are read
(`swapped`); a cached tree can serve another recording under an old path (`lost`), of the same
customer and window always; update_sftp writes back the password hash it read before its
transaction, so a password generated by another request meanwhile is lost (admin.py:828-841); the
audit row of a zip names the first customer of its rows only (recordings.py:346); a run that read an
unbound customer writes its serial over the binding that a move made meanwhile, and later runs
refuse the right disk (indexer.py:127); remove-customer deletes the accounts it listed before its
transaction by their names, so that one promoted or moved to another customer in between goes with
the others, the last superadmin not excepted (cli.py:287-303, the exception in `SuperadminStays`);
department_predicate calls its folders "case-insensitive, like Windows paths" (scope.py:107), which
LIKE is for ASCII letters only, so that explain_access gives a reason for seeing what is hidden (the
exception in `ExplainAgrees`); the note of parse_filename that "only customer admins see" an
unrecognised name (mcp_server.py:375) overlooks rules by folder, which select it whatever its name;
the disk is compared once per run, at its beginning, and a serial that cannot be read passes as the
right one (indexer.py:114-115), although indexer.py:112-113 says that "a different disk at this path
is refused"; a sign-in in progress makes a
session after the password was reset (auth.py:119, the `late` sessions of `AuthInv`), and a password
change that read its session before the user's second factor was reset makes one past the second
factor (auth.py:193, likewise `late`); a pull by hand that lasts longer than a day is joined by
another, and each removes the other's lock (pbxpull.py:347, `theft`), although pbxpull.py:24
promises one run at a time; a "run now" and the night's mark are spent before a pull that may find
the lock taken (pbxpull.py:485, 500), and a wish made between the tick's SELECT and its UPDATE goes
with the one that was read; trust is in the key seen when the request arrives, whatever the page
showed (admin.py:1050); `add-customer` accepts a folder that another customer has (cli.py:331),
which the web page refuses; concurrent failures overwrite each other's count (security.py:176);
`finish` reports by id alone, so it can mark a new customer's request with the outcome of a removed
one's (grants.py:85, `astray`); two MCP calls can queue the same request twice (`OpenBound` says how
often).

## 7. Not modelled, and what is left

In the order of what it would add:

1. Step-up freshness and `must_change_password` in `Auth`.
2. The lists of staff networks and staff identities, as guards of a superadmin's every request: they are
   looked up once per request, and only their refusal matters to `Auth`, where it is `Answer`.
3. Credentials of the feed's accounts, with the lost update named in section 6.
4. The composition of `Indexer` with `Server` in one module, so that
   `Converges` could be stated from the commit on.
5. MCP tokens and their scopes.
6. An abstract specification of the requests for folders, which `Grants` would implement as `Auth` does
   `Credentials`: `OutcomeStays` and the part of `GrantsInv` about outcomes would follow from it.

Not modelled, and why: the rest of the audit log (written inside the others' transactions, read by
one view), rendering, the web page's JavaScript, certificates, backup and configuration (wiring and
I/O), the verification of Cloudflare's tokens (cryptography), the field extraction of file names
(formatting; whether a name is recognised at all is in `Indexer`), filters and search of the
recordings' list (one SELECT over `Scope`'s clause), byte ranges (arithmetic of one request), the
read-only SFTP protocol handler's refusals, the installation scripts (run once; the schedules they
install are what section 4 relies on).
