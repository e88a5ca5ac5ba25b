# A verification project for GINIAN (gbwebV2)

GINIAN is a Java web application (Spring MVC, MyBatis, Quartz) that runs backups and restores of
MySQL and MariaDB servers. It does almost nothing itself: it sends shell commands over SSH to
*management servers*, which stream the data of *target servers* into directories, and it reads log
files back. Its own logic is to keep four kinds of state in step: tables in its database, jobs and
sessions in memory, files and crontabs on machines it only reaches over SSH, and pages in browsers.
The models here are about that.

## 1. Inventory

| Component | State | Operations | Interacts with |
|---|---|---|---|
| Immediate backup: `SetupController.bak_run_exe`, `bak_run_endChk`; `BackupScheduler`; `BackupFullExcute`, `BackupIncreExcute` | field `svcParamMap` with the map it refers to, Quartz jobs (in memory), backup directory, `ginian.log`, pointer files | make the directory, hand over the parameters, register the job; run it; poll and record | SSH; tables BAKRUNTB and WRKLOGTB |
| Catalogue of restore points: `ClientTask`, `ScheduleServiceImpl`, `SetupServiceImpl.insertBakRun/insertLog/deleteRun` | tables SCDIPETB, WRKLOGTB, BAKRUNTB | record the runs the crontab scripts report; delete what has expired | SSH; `bak_run_endChk`, which writes the same tables |
| Restore: `rsr_run_exe`, `RestoreExcute`, `rsr_run_endChk` | job, restore log, data directory of the target | choose the base, prepare, replace the data directory, replay binary logs | catalogue, SSH, Quartz |
| Schedules: `insertBakScd`, `updateBakScd`, `deleteBakScd`, and the removal of a server | table BAKSCDTB, crontab of the management server, the file `cron_maria` | add, change, remove a line | SSH, registry |
| Server registry: `insertSvr`, `deleteSvr`, `updateMngSvr`, `updateTgtSvr`, `deleteMngSvr`, `deleteTgtSvr`; `backup_mng_status.jsp` | tables of servers and the tree, hidden inputs of the page | allocate an id as MAX + 1; delete with all dependent rows and directories | all of the above |
| Login: `LoginController`, `LoginManager`, `Interceptor` | `loginUsers`, a table from session to user | log in and out, expire | every request |
| Page of a running backup or restore: the two `exe_run.jsp`, `common.js`, `modal.js` | tasks, timeouts and dialogues of one window, the global `fv_ajaxCallback` | start the run, poll for its end, show its status | backup, restore, login |
| Pages that only read: status pages, logs, summaries; user administration | none of their own | queries | tables, SSH |

What is hard, and where (PROJECT.json, `hazards`, has every item with its line):

- **Interleaving.** Web threads share one unsynchronised field (`svcParamMap`); web threads and the
  `@Scheduled` thread insert into the same tree of restore points, with ids read beforehand; shells
  edit one temporary crontab; logins enumerate a table that others change; a page has one global for
  the handlers of all its requests.
- **Partial failure.** Every SSH call can succeed, return nothing (`Ssh2Agent` swallows
  `IOException`) or throw (authentication), and each caller treats the three differently. Rows roll
  back, remote commands do not.
- **Crash and restart.** Quartz jobs live in memory, directories and rows survive.
- **Ordering.** A log line that ends a run is written before the job deletes itself; the poll that
  sees it may come in between. Answers reach a page late or not at all.
- **Stale pages.** What a page deletes or registers is what it showed when it was loaded.
- **Boundaries.** Times are whole seconds and serve as keys; ids are decimal prefixes.

What makes each part correct:

- *Immediate backup*: an answered request is scheduled; an execution works with its own parameters;
  a full job always leaves the scheduler; results are recorded after the run, and success means the
  files are complete.
- *Catalogue*: every reported run is recorded, exactly once, at its place in the tree; expiry takes
  what depends on the expired backup, no more and no less.
- *Restore*: the chosen restore point is what is restored, and a failing step leaves a state that
  can be told from success.
- *Schedules*: what is listed is what cron starts. *Registry*: ids are unique and lead to the right
  host, and what is stored under them belongs to their holder. *Login*: one entry per user. *Page*:
  it asks for the end of its run until it knows, and says what it knows.

## 2. Modules

| Module | Models | Checked by | Proved in |
|---|---|---|---|
| `BackupRun` | immediate backup, from the click to the rows | `MCBackupRun`: `BackupRunServers`, `BackupRunRepeat` | `BackupRun_proof`, `BackupResult_proof` |
| `RunCatalogue` | the three writers of BAKRUNTB | `MCRunCatalogue`: `RunCatalogue`, `RunCatalogueLiveness` | `RunCatalogue_proof` |
| `Restore` | a restore, from the chosen point to the work log | `MCRestore`: `RestoreWindows`, `RestoreFaults`, `RestoreChosen` | `Restore_proof` |
| `Schedules` | schedules: rows, transactions, the remote crontab | `MCSchedules`: `Schedules` | `Schedules_proof`, refinement included |
| `Timetable` | what the schedule pages promise | as the property `PromiseKept` of `Schedules` | |
| `Login` | login, logout, expiry, the table of `LoginManager` | `MCLogin`: `Login` | `Login_proof` |
| `SessionBook` | a book in which nobody stands twice | as the property `BookKept` of `Login` | refinement in `Login_proof` |
| `Registry` | servers, instances, ids, deletions, page inputs | `MCRegistry`: `RegistryPages`, `RegistryIds` | `Registry_proof` |
| `RunPage` | the page of a running backup or restore | `RunPage` | `RunPage_proof` |

The parts meet in the state each module keeps of the others: `BackupRun` ends with the rows
`RunCatalogue` starts from; `Restore` reads the rows and directories that expire in `RunCatalogue`;
the removal of a server is the rows and directories of `Registry` and the lines of `Schedules`;
`RunPage` sees of a run its job and its log, and of a session whether it is logged in.

### BackupRun

One process per *request* (a browser window and the web thread that serves it), one per *execution*
(a Quartz thread), and the environment: clock, daily repetition, restart.

- `pc[r]` walks through `bak_run_exe`: `MakeDir` (up to the creation of the directory), `FindBase`
  (the query and SSH calls of an incremental run), `DropOldJob`, then the three steps on the shared
  field: `NewParamMap` (`svcParamMap = new HashMap()`), `PutParams` (`putAll`) and `RegiScheduler`.
  They are separate because another thread can run between them; a Java reference is modelled by the
  request whose map it is, so that a write through the field may land in another request's map, also
  after that was handed to a job.
- `exec[x].stage` walks through `BackupFullExcute` or `BackupIncreExcute`, one action per SSH
  command, each with all outcomes the code distinguishes. A full job catches every exception of its
  commands and reaches `schedulekill`; an incremental job does not (`crashed`). Neither do jobs
  whose map lacks a command they start with (`Unusable`). That is so in two ways: two requests mixed
  up their maps, or the server has no path of mariabackup (`Bny`), for then `bak_run_exe` puts no
  `xtrarunCmd` (`Runnable`). The job of such a server fails and stays registered, every day, and the
  properties of full jobs that leave have `Runnable` as their hypothesis.
- `data[d]` abstracts the files in a directory to five contents; `Tested` says for which of them the
  command that decides on success answers `ok` although the backup is not complete.
- `PollEnd`, `PollJob`, `ReadLog`, `InsertLog` are the steps of `bak_run_endChk`; the two insertions
  are two transactions.
- `clash` and `lost` are history variables: requests that were between `startScheduler` and
  `regiScheduler...` together with another one, and requests whose job a restart forgot. The
  properties say that *nothing else* can go wrong.

### RunCatalogue

`Start`, `EndScheduled` and `Tick` are the environment: backups begin and end. The rest is code:
`CronSelect`, `ReadGinianLog`, `CronJob`, `CronJobFails` are a pass of `clientTaskShell`, where ids
are read at the start of the transaction and written at its commit; `WebReadIds`, `WebInsertBakRun`,
`WebInsertLog`, `WebFails` are the same for a browser window; `ListDelSchTarget`, `DelBackup`,
`ListSchPidTarget`, `DeleteIDRun`, `CascadeCommit`, or `ListUnlisted` and `DelUnlisted` when there
is no row, are a pass of `clientTaskBackup`. The `@Scheduled` methods share one thread
(`ThreadFree`), the windows do not. Ids follow the SQL (`findRunFllMaxId`, `findRunIncMaxId1`,
`findRunIncMaxId2`). A transaction is one action at its commit; what it did over SSH before stays
when it rolls back. Two runs of one server in one second are left to `BackupRun`.

`DeleteTgtSvr` and `DeleteSvr` take the names of a server and its management server away while runs,
windows and passes are under way. `clientTaskShell` passes over what waits for such a server
(`Reachable`), in every pass. `clientTaskBackup` looks up the names of all rows first, and the row
of a server without one, inserted after the deletion, ends every pass (`Nameless`): only the rows
before it are `Reached`.

`Placed` is a row's place in the tree: an id of its own, in the range the queries number (11 to 999
for full backups, three more digits below a full backup for its incremental ones), under the newest
full backup before it. `NewRowIsPlaced` says that a new row gets it when the tree is in order, its
number ranges have room (`Room`), and nothing was committed between the reading of the ids and their
insertion (`overtaken`). Rows that `clientTaskBackup` deletes in between count as such a commit: the
base that was read may be gone.

### Restore

One process per request (window), one per execution of `RestoreExcute`, and the expiry of backups,
which works on the same directories.

- `pc[r]` walks through the choice in `run.jsp`, the look-up of the full backup in `rsr_run_exe`
  (`FindBakRunLst`), `DropOldJob` and `RegiSchedulerRestore`. A job is named after the server and
  the chosen time, so requests for one point share it (`Named`).
- `exec[x].stage` walks through the commands. `RestoreExcute` writes the same steps out four times
  for mariabackup (full or incremental, compressed or not; `jobXProcess`) and once for mysqldump
  (`jobMProcess`). The model has each step once, and `AfterCopy`, `AfterBase` and `AfterStart`
  choose the next one: check the environment; stop the server; empty the data directory and copy the
  full backup; decompress and prepare, each with its check; collect the binary logs up to the chosen
  time in a `.sql` file; start the server; replay the file; look for errors in the logs; write the
  result; `ScheduleKill`.
- `data` is the database: its base, the form of its files, and how often each binary log was
  replayed. `log[r]` is the set of line kinds the code greps for. `sql` is the temporary file, which
  survives an aborted restore.
- `Lost` is a command that does not run and is not noticed (`getData` swallows the exception);
  `Abort` is an exception that ends the execution before `schedulekill`.
- `mishap` is a history variable that records what happened to a request. `SuccessIsRestored` says
  that a success is true unless one of the named mishaps got past all checks; each name is needed:
  without any one of them TLC finds a counterexample. They are therefore also the list of what these
  checks do not see.

Left out: the hand-over of parameters and restarts (the same code as in `BackupRun`); the safety
copy of the old data directory; the copy of `next_bin.log` a dump restore makes, which nothing
reads; the name of the log file, which holds the second of the click, so that each request has its
own.

### Schedules and Timetable

One process per request (a web thread) and one per script (a remote shell, which outlives a broken
connection). A request is one of four kinds: `insert`, `update`, `delete`, or `drop`, the removal of
a target server or a backup server with all its schedules.

- `Find`, `WriteRow`, `LockFails`, `Commit` are the queries and the transaction. `txContext` puts a
  transaction around every method of a service, so the row stays locked (`Held`) until the SSH call
  inside that method has returned; `Blocked` and `LockFails` are waiting for a lock and giving up.
- `Exec`, `ReadEnd`, `Unreachable`, `Refuse`, `Break` are the outcomes of `Ssh2Agent.getData`. A
  refused login rolls the transaction back, everything else lets it commit.
- `ShellStep` runs one command of a script: `crontab -l > cron_maria` (the shell empties the file
  first, so it is two), `perl`, `echo`, `crontab -i cron_maria`. The file is the same for all.
  `NamedIn` is the regular expression of `perl`, which is not anchored.
- `mishap` names what happened to a schedule: a lost script, two scripts at one time, a name inside
  another name, and three ways in which the removal of a server can miss it.

`Timetable` is the abstract specification: what is listed is on duty, and every change of one
becomes a change of the other. `PromiseKept` is the refinement, in stretches where one request at a
time is at work and nothing has befallen a schedule.

### Login and SessionBook

The processes are web threads that serve one login each, browsers, and the container, which ends
sessions. `LoginManager` binds itself to a session under the name of the user, and its callbacks
`valueBound` and `valueUnbound` keep the table: `bound[s]` is what it is bound for, `loginUsers` is
the table. `Count`, `Get`, `ScanEnd`, `Kill`, `End` and `Ended` are `removeSession`: the enumeration
of a `Hashtable` that others change, element by element. `SetSession` and `SetRights` each ask the
request for its session anew, which creates one when it has ended.

The container holds no lock across its steps. It looks whether a session is valid and calls
`valueBound`, which puts the entry (`ValueBound`), and only then stores the attribute
(`SetAttribute`). A session ends by becoming invalid (`Invalidate`) and then has its attributes
unbound (`Unbind`), those that are stored by then. So a session that ends while it is being bound
(`torn`) can stay in the table for good: `valueUnbound` is not called for it, and from then on every
login of its user fails in `invalidate()`. `TableIsAlive` and `LoginFailsOnlyDisturbed` say that
this is the only way to either.

`SessionBook` lets a user into one session at a time. The table implements it except for
`SecondEntry`: a user of whom two logins ran at the same time.

### Registry

The processes are pages, and a page is the hidden inputs it holds (`page[p]`): what is clicked,
saved or deleted is found by them, however old. `ClickHost`, `ClickServer`, `ClickTarget`,
`AddServer`, `AddTarget` change inputs the way the functions of `backup_mng_status.jsp` do, with
those they forget. A handler that reads before it writes is two steps (`FindMngSvrMaxId` and
`InsertMngSvr`). `Radix` and `Span` are the 10 and the 100 of the ids: `Lead` is the first digit, by
which the code finds the backup server, `Right` the digits that number the instances of a server.
`StartWork` and `EndWork` are a backup of an instance: what it creates at its start and records at
its end.

### RunPage

A browser runs one task at a time: `todo` is what the running task has yet to call. A synchronous
request is one step (`Call`): sent, served and handled before anything else runs. A status request
is two, `fn_status` and `StatusAnswer`, and in between the global `fv_ajaxCallback` may name any
handler. `Serve` is what the server does and answers: what the handler of the request does, an
answer without data or an error when something fails, or an answer that is lost after the work was
done. `modals` are the dialogues in the order of the document, with the two classes that
`closeModal` and `closeModal2` remove. When the start of a run answers without success, `fn_exeload`
opens the result and leaves the notice under it open; the end check the same task makes next,
without the parameters it needs, fails, and its error handler closes both.

## 3. Runs

| Run | Instance | Shows |
|---|---|---|
| `BackupRunServers` | 2 windows, 2 servers (one whole, mysqldump; one partial, mariabackup), 1 second | types; answered requests are scheduled; own parameters across engines; a logged success is a restore point; a recorded dump is complete |
| `BackupRunRepeat` | 1 window, 2 servers of which one has no path of mariabackup, uncompressed, 2 executions, 1 repetition, 1 restart, fair | full jobs with a backup command leave the scheduler, are not left behind, and are recorded only then |
| `RunCatalogue` | 1 server that may be deleted, 3 seconds, 1 window, 1 fault | no run twice; new rows at their place; a reported run is waiting or logged, or was lost for a named reason; the cascade spares what does not depend on the expired backup |
| `RunCatalogueLiveness` | 1 server that may be deleted, 2 seconds, 1 window, 2 faults, fair | waiting rows of servers that stay are handled, rows without directory go, unless a row without names stops the pass |
| `RestoreWindows` | 2 windows, 2 executions, 2 backups that may expire, no failing command | a recorded restore is over; answered restores run; a success is true or one of the mishaps occurred |
| `RestoreFaults` | 1 window, 2 executions, 3 backups, 1 repetition, 1 failing command, fair | the same under faults; data are replaced once; the window gets its answer |
| `RestoreChosen` | 1 window, 2 backups, no fault | **violation**: an older restore point is chosen, the newest full backup is restored |
| `Schedules` | 2 requests of every kind, 1 server, 3 schedules of which one name is in another, 1 failing call, fair | one edit per schedule; list and crontab agree but for the named mishaps; a failure leaves the crontab alone; refinement of `Timetable`; every request is answered |
| `Login` | 3 logins, 2 at a time, 2 users, 2 browsers, 3 sessions | the table holds what is alive, and a dead session only after a torn binding; logins fail only when disturbed or because of one; sessions are ended by their users; refinement of `SessionBook` |
| `RegistryPages` | 2 windows, 1 backup server, 3 registrations, license of 1, radix 2, span 4 | instances are under their server; tree and tables agree, ids are unique; license; registrations fail only when raced |
| `RegistryIds` | 1 window, 2 backup servers of which 1 may go, 3 registrations, 1 backup, radix 3, span 3 | commands reach their host; what is stored is about its instance and stays with it |
| `RunPage` | a page of each kind, 4 slow status answers, 3 faults, fair | late answers meet their handler; one record; the notice is true; the page settles |

*Bounds.* Two requests are enough for every pairwise mix-up of maps, names, locks, files and inputs,
and the proofs extend what they prove to any number. Three seconds of `RunCatalogue` give the
shortest histories in which a cascade can take too much: a full backup, a second one, an incremental
one below the second. One fault is the failure of any one SSH call or transaction at any point, or a
restart. Three backups of `Restore`, each full or incremental in every combination, give a chain of
two incremental backups and a full backup after the chosen point; every combination of engine and
compression is an initial state. One failing call of `Schedules` lets a script outlive its
connection while the other request runs its own. Three logins, two at a time, are the shortest
history in which a user ends a session of an earlier login while another login runs. The ids of
`Registry` are written in base 2 or 3 instead of 10, so that few servers and registrations come
close to the digits of the next one; three registrations give an id that is given out again. One
window of `RunCatalogue` is an immediate run that can read its ids while a task commits, which is
the overtaking the exception is about; two windows overtake each other in the same way and are
covered by the proofs, which hold for any number. A second server in `RunCatalogueLiveness` exceeds
what TLC can do in reasonable time: that the rows of one server can stop those of another is in the
exceptions of the two properties (`Poisoned`, `Nameless`), which speak of all servers. Four slow
answers let the page go through four polls before the first one comes. `MaxClock`, `MaxTime`,
`MaxRepeat`, `MaxRestart`, `MaxFault`, `MaxExpire`, `MaxOpen`, `MaxLogin`, `MaxReg`, `MaxWork`,
`MaxDrop`, `Hosts` and `MaxStatus`, and the sets of requests, threads, sessions and executions, are
the only bounds. Deadlock is not checked: once all windows are done and the bounded clock stands
still the system rightly stops.

*Symmetry* is used where no liveness property is checked.

*Fairness.* `BackupRun`: Quartz fires due triggers and runs its threads (weak fairness of `Fire` and
of each execution's step), which includes the assumption that SSH calls return; that they return
something useful is not assumed. Nothing is assumed of browsers. `RunCatalogue`: a pass of a task
runs to its end (weak), and both timers get the common thread again and again (strong, because
either can find it busy; Spring queues them). `Restore`: as for `BackupRun`, and an open window
polls (weak fairness of `RsrRunEndChk`), since `fn_endChkload` sets a timer after every answer that
is not `ok`; `RestoreIsAnswered` is about windows that stay open. `Schedules`: web threads and
remote shells run (weak), and the database ends every wait for a lock, by granting it or by its
timeout. `RunPage`: the browser runs its tasks, timers elapse and requests are answered, possibly
with an error (weak), and the run itself goes on (`Work`). Faults are bounded, hence stop.

*Type invariants.* Every module has a `TypeOK`; TLC checks that of `BackupRun`, whose proof is the
base of the others. The remaining ones are part of the invariants that are proved, or kept as
documentation of the state.

## 4. Findings

`RestoreChosen` finds a statement of the page violated by the code (PROJECT.json quotes the lines):
the page asks for a restore point, and `rsr_run_exe` restores the newest full backup.

Other behaviour of this kind is named in the properties as the exception without which TLC refutes
them:

- *Backups.* A full job of a server without the path of mariabackup (the form lets it be empty)
  fails before its first command and before `schedulekill`: it stays registered and fires every day
  (`Runnable`). The success of a mariabackup run is the existence of one file that is written before
  the stream is complete (`Tested`); a truncated backup becomes a restore point. The property is
  therefore stated for mysqldump, whose last line is tested.
- *Catalogue.* A log that cannot be read looks like an empty one, and the row of a good run is
  discarded (`shell.stage = "shell"` in `ReportedRunIsLogged`). `cronDelete` names only the second,
  so the row of another server goes with it. A row that waits when its server is deleted waits for
  ever, and a row inserted for a deleted server ends every pass of `clientTaskBackup`, so that no
  later row expires (`Reachable`, `Nameless`). When the answer to the deletion of a full backup is
  lost its incremental backups stay without their base. An immediate run reads its ids before it
  inserts: a commit in between, by a task or another window, leaves it with the id of another row or
  with a base that is gone (`overtaken`).
- *Schedules.* The page says the schedule has been saved when the script did not run (`lost`), and
  when two scripts overwrote each other's `cron_maria` (`overlap`); the substitution takes out the
  lines of other schedules whose name begins alike (`prefix`).
- *Login.* A session that ends while it is being bound stays in the table, and no later login of its
  user succeeds (`torn`). Two logins of one user at the same time both stay, although `isUsing`,
  which is never called, says it is there to prevent that (`SecondEntry`). When A, B and A log in in
  one session the table keeps B while the rights are those of A.
- *Registry.* A target server without instances cannot be saved (`UpdateMngSvr`); `fn_bts_add` takes
  the backup server from an input that another form has emptied; `deleteSvr` does not look for
  target servers again; a run that is going on while its instance is deleted leaves its row to the
  next holder of the id (`busy`); an instance with an empty name takes the directory of its server
  along when it is deleted (`OfTarget`).

## 5. Proofs

TLAPS proves the following for every value of the constants, from the `ASSUME`s of the modules only.
Each `Spec => []Inv` is an inductive invariant and three facts: the initial states have it, every
action keeps it, it implies the property. Each of these invariants was first checked by TLC.

**`BackupRun_proof`.** `IInv` = `TypeOK`, `StampInv` (a stamp is given once, at the start),
`FieldInv` (which request the shared field can point to), `HeapInv` (a map holds the parameters of
its request unless that request is in `clash`), `JobInv` and `ExecInv` (jobs and executions carry
the map of a request that has registered). What matters is that a request which is alone between
`startScheduler` and `regiScheduler...` finds its own map in the field; the rest says where the map
goes from there. It gives `TypeCorrect`, `OwnParameters`, `AnsweredIsScheduled` and
`FullJobLeavesScheduler`, for jobs whose map has the backup command of the server (`Runnable`; the
shared keys and each engine's command are tracked separately); `LoggedIsOffered` adds `LogInv`, the
order of the two insertions.

**`BackupResult_proof`.** What a result is worth. Jobs, logs and files go by server and second, so
the first part of `RInv` says who writes where: an undisturbed request is the only one whose
execution logs to its directory (`WriterInv`). Its execution keeps the job registered until
`schedulekill` (`KeptInv`); hence a window that finds no job finds no execution either (`GoneInv`),
also when a restart has forgotten the job. The files are then those the last command looked at
(`SuccessInv`, `DumpInv`), and the rows say what the log said when the run was over (`RowInv`).
`RecordedIsOver` and `DumpsAreComplete`.

**`RunCatalogue_proof`.** `RecordedOnce` is inductive once it is known where a run can be: under
way, reported, or with a window, and these are different runs (`Apart`); a waiting row has no row in
the catalogue yet (`Waiting`); a run that starts is younger than any that is known (`Known`).
`OneRowPerRun` and, by the step in which a waiting row goes, `ReportsAreLogged`.

The tree needs three more invariants. `Numbers`: ids are numbers and the rows of a target finitely
many, so that MAX exists. `Seconds`: one run of a target in a second, so that "the newest before" is
one run. `Cascade`: what a pass of `clientTaskBackup` is about to delete below an expired full
backup are the rows that pointed to its id. `NewRowsArePlaced` follows: nothing was committed since
the ids were read, so MAX + 1 is free and the base is the newest. So does `CascadeIsBounded`: in a
tree in order, an incremental run has the expired backup as its base only when no full backup that
stays is newer.

**`Restore_proof`.** The four ways in which commands change the shared state are `Moves`, `Leaves`,
`Walks` and `Fire`; the 17 commands of `RestoreExcute` are one lemma (`StepMoves`). `OverlapInv`,
`RegisteredInv`, `EndInv` say what a request can rely on although jobs go by name: its job is there
until its execution leaves, unless it overlapped or a twin dropped the job, and its log has an end
only when its execution is about to leave. It gives `AnsweredRuns`, `RecordedIsOver` and
`DataReplacedOnce`.

`SuccessMeansRestored` needs `DataInv`, which follows one execution through its commands. A request
to which nothing has happened but an abort is alone on the server (`OverlapInv`), so nobody else
writes its data, its log and its `.sql` file. `Halfway` says for every stage what the commands
before it have left: the base and the form of the data, whether the server is up, what the file
holds; or a line in the log that the check at the end will find (`Told`). It also shows why each
mishap has to be named: it is where the step from one stage to the next would fail. `HostInv` says
that full restore points have no file of binary logs, which a dump restore relies on when it replays
whatever file it finds.

**`Schedules_proof`.** `LInv` is about who works on what: locked rows are disjoint, a script that
runs is waited for or its connection is broken. It gives `OneEdit` and `FailedLeaves`. `CInv` is
about what that work does: for a schedule that nothing has befallen, `LineInv` says what crontab and
`cron_maria` hold after each command of each script (`Follows`), in terms of `On`, the value crontab
has to reach. `ListedOnDuty` follows, and `ImplementsTimetable`: the step of the abstract
specification is the commit that ends a calm stretch, everything else is a stutter.

**`Login_proof`.** `SessInv` is about sessions and the table: a live session stands in it exactly
while somebody is bound to it or is about to be (`Alive`), a session that ends keeps its entry until
its attributes are unbound, and a dead one has an entry only if it is torn (`Dead`). `WebInv` is
about logins: those entries of a user that are still in the table are ahead of the enumeration of
his login until two logins of his meet (`Clearing`), and a session a login is about to end has been
logged into by its user until its attributes are gone (`Killing`). It gives `TableAlive`,
`EndedByUser` and the refinement `ImplementsBook`. `FailsOnlyDisturbed` adds `Calm`: for an
undisturbed login no session is ending but the one it ends itself, what its enumeration has still to
visit is in the table, and the session it is about to end is alive, or torn and still in the table.

**`Registry_proof`.** Two invariants, because two kinds of argument meet. `RegInv` needs nothing to
be known about ids: types, finitely many rows, the license (`Licensed`: a checked form leaves room
until the next registration), and which server an instance was meant for. It gives `TypeCorrect`,
`InstancesKeepServers` and `LicenseHolds` without any hypothesis. `IdInv` is about the digits of
ids: every id lies in the range of its parent (`Digits`), also those a form holds, however old it is
(`Forms`); the tree is the tables (`Tree`); what is stored is about an instance that is there or was
written by a run that was under way at its deletion (`AllPresent`). Ranges of different parents
overlap when there are ten backup servers or more than a hundred registrations, and then a deletion
by id reaches into another server. That is a limit of the code, not of the model, so the five
theorems that rest on `IdInv` have it as their hypothesis `Few` (`Hosts < Radix`, `MaxReg <= Span`):
`TreeIsAlwaysRegistry`, `InfoIsAlwaysOfItsInstance`, `DeletionsSpareInstances`,
`CommandsAlwaysReachTheirHost` and `OnlyRacedRegistrationsFail` (the last with `MaxReg < Span`). The
instances TLC checks satisfy it. `CommandsAlwaysReachTheirHost` needs the first digit of every id,
which is the recursive function `First`. No induction rule can be used here, so both of its lemmas
are proved without one: `FirstIs` (`First` satisfies its equation) gives a function that does,
"the last number of the chain of quotients", which is a set and needs no recursion; `FirstOfAll`
(numbers that begin with the same digits have the same first one) takes a least power of `Radix`
for which it fails and finds a smaller one. `DigitAssumption` therefore says that `Span` is a power
of `Radix` by the powers below it, not with `^`, about which the provers know nothing.

**`RunPage_proof`.** There is one chain of polls: a timeout is set, or the running task will ask, or
nobody asks any more; after a record nobody does. It gives `StatusHandled` and `RecordedByItsPage`.
`NoticeIsTrue` adds `PollInv`: the page shows one dialogue at most, and whatever ends the chain,
result or error, closes the notice or opens another dialogue in its place. The one state with two
dialogues (`NotStarted`) lies between the failed start and the end check of the same task, which
closes them (`NotStartedEnds`).

The theorems use only the assumptions on constants the modules state (`NoneAssumption`,
`TargetAssumption`, `BoundAssumption`, `OccursAssumption`, `SomeAssumption`, `DigitAssumption`,
`NameAssumption`), which TLC evaluates in every run, and `Few` where it is named.

*Only model-checked*: the liveness properties (`FullJobEndsEventually`, `ReportedRunIsHandled`,
`RowOfDeletedRunGoes`, `RestoreIsAnswered`, `RequestIsAnswered`, `RunSettles`), since neither
fairness nor `ENABLED` can be proved about here.

## 6. Not modelled

- *Vendored scripts.* About 23,600 of the 25,000 lines of JavaScript are jQuery UI, zTree, blockUI,
  barIndicator and easing, unchanged. None of the state of GINIAN is in them. Measured in JavaScript
  lines the covered share is therefore small; the program itself is the Java, SQL and JSP code, and
  what the models translate is there and in `common.js` and `modal.js`.
- *Text*: command texts, log viewers, formats, paging, charts, encryption of passwords. The status
  pages read remote state and change none; `RunPage` has when their answers arrive, not what they
  hold.
- *SSH*: the callers' view (an answer, none, an exception) is modelled, the buffering of the streams
  is not.
- *Unused code*: the Quartz jobs for manual schedules, which nothing registers, and the session
  listener.
- *User administration*: single statements on single rows. Passwords are taken to be right in
  `Login`.
- *Restore*: the safety copy of the old data directory. *RunPage*: a login in another window of the
  same browser while a run is shown.

Assumptions of the models that are not in the code of this repository: ids are primary keys and
`bts_pid` is not null (the schema is not part of it; the statements are written for that); what a
transaction writes becomes visible at its commit; the database locks the rows a statement changes
until then; a synchronous Ajax request is one step of its page. Copies of names and addresses into
dependent tables are taken to succeed with the statement they belong to.
