------------------------------ MODULE Restore ------------------------------
(***************************************************************************)
(* A restore, from the restore point chosen in the browser to the row in   *)
(* WRKLOGTB, for one target server.  These actors interleave:              *)
(*   - the web threads of /rsr_run_exe (SetupController), which look up    *)
(*     the base of the restore and register a job named after the chosen   *)
(*     time only;                                                          *)
(*   - the Quartz threads that run RestoreExcute: a chain of SSH commands  *)
(*     that stop the database server, replace its data directory, replay   *)
(*     binary logs and start the server again, most of them unchecked; the *)
(*     result comes from two log files at the end;                         *)
(*   - the browsers that poll /rsr_run_endChk;                             *)
(*   - the expiry of backups, which deletes directories and later rows.    *)
(* How parameters travel through svcParamMap, and what a restart forgets,  *)
(* is the subject of BackupRun and left out here.                          *)
(***************************************************************************)
EXTENDS Naturals, FiniteSets

CONSTANTS
    Request,     \* browser windows that start one restore each
    Exec,        \* Quartz executions
    MaxTime,     \* bound: backups in the catalogue, made at times 1 .. MaxTime
    MaxRepeat,   \* bound: how often a one-day repeat interval elapses
    MaxFault,    \* bound: SSH commands that do not run
    MaxExpire    \* bound: backups that expire

ASSUME ExecAssumption  == Exec \subseteq Nat
ASSUME BoundAssumption == /\ MaxTime \in Nat \ {0}
                          /\ MaxRepeat \in Nat /\ MaxFault \in Nat /\ MaxExpire \in Nat

VARIABLES
    set,              \* how this server is backed up and restored, see Setting
    bakruntb,         \* the times of the restore points in the catalogue
    dirs,             \* the times of the backup directories that exist
    pc,               \* progress of each window and of the request it waits for
    wrk_dt,           \* the time of the restore point that was chosen
    lst_full_wrk_dt,  \* the time of the full backup the restore starts from
    jobs,             \* the restore jobs registered with Quartz
    exec,             \* the executions of those jobs
    log,              \* the log files of each request
    data,             \* the database of the target server
    up,               \* is the database server running
    sql,              \* the file restore_tmpdir/wrk_dt.sql of each wrk_dt
    wrklogtb,         \* the work log
    repeats, faults,
    mishap,           \* history: what happened to a request, see Mishap
    wiped             \* history: requests that have replaced the data once

catVars  == <<bakruntb, dirs>>
webVars  == <<pc, wrk_dt, lst_full_wrk_dt>>
hostVars == <<data, up, sql>>
histVars == <<mishap, wiped>>
vars     == <<set, catVars, webVars, jobs, exec, log, hostVars, wrklogtb, repeats, faults, histVars>>

Time   == 1 .. MaxTime
None   == 0
\* avt_nam (M01 mariabackup, M02 mysqldump); restore_decompress_yn; are the
\* backups compressed, which is another setting; lvl of each backup.
Setting == [mtd : {"M01", "M02"}, cpr : BOOLEAN, packed : BOOLEAN,
            lvl : [Time -> {"L01", "L02"}]]
Form    == {"ready", "raw", "packed", "broken"}
\* The lines of the logs that are read back.  "completed": one of the last five
\* lines of the log says "completed OK"; "error": some line contains that word;
\* "errfile": a line of the error log, which is never emptied, does.
Line    == {"START", "completed", "error", "errfile", "SUCCESS", "FAIL", "END"}
Mishap  == {"lost",      \* a command of it did not run, and nobody was told
            "aborted",   \* an exception ended an execution before schedulekill
            "overlap",   \* an execution ran at the same time as another one
            "hot",       \* the data were replaced under a running server
            "leftover",  \* its .sql file was there already
            "expired",   \* an incremental backup was gone when it was needed
            "load"}      \* mysql failed to load the dump
Times   == 0 .. 2        \* how often a binary log was replayed: 2 is "more than once"
Database == [base : Time \cup {None}, form : Form, inc : [Time -> Times]]
PC      == {"idle", "chosen", "drop", "regi", "polling", "endseen", "readlog", "done"}
Active  == {"start", "env", "stop", "copy", "decompress", "chkdec", "prepare", "chkpre", "load",
            "incre", "startdb", "status", "dbchk", "apply", "errchk", "success", "fail", "kill"}
Stage   == Active \cup {"free", "ended", "crashed"}

Own(x)       == exec[x].own
Lvl(r)       == set.lvl[wrk_dt[r]]
Running(r)   == {x \in Exec : exec[x].stage \in Active /\ exec[x].own = r}
NamedByServer(r) == jobs                                    \* mutant: wrk_dt left out
Named(r)     == {j \in jobs : wrk_dt[j.own] = wrk_dt[r]}    \* the job name holds wrk_dt only
Goto(r, p)   == pc' = [pc EXCEPT ![r] = p]
Step(x, s)   == exec' = [exec EXCEPT ![x].stage = s]
Befalls(R, m) == mishap' = [q \in Request |-> mishap[q] \cup IF q \in R THEN {m} ELSE {}]
NoReplay     == [i \in Time |-> 0]
Capped(n)    == IF n > 2 THEN 2 ELSE n

-----------------------------------------------------------------------------
(***************************************************************************)
(* The page and /rsr_run_exe.                                              *)
(***************************************************************************)

\* A click on a restore point of the tree.
Choose(r) ==
    /\ pc[r] = "idle"
    /\ \E t \in bakruntb : wrk_dt' = [wrk_dt EXCEPT ![r] = t]
    /\ Goto(r, "chosen")
    /\ UNCHANGED <<set, catVars, lst_full_wrk_dt, jobs, exec, log, hostVars, wrklogtb, repeats, faults, histVars>>

\* findBakRunLst: the newest full backup of the server, whatever was chosen.
\* The log directory is made before (failures of that only cost lines of the log).
Fulls == {t \in bakruntb : set.lvl[t] = "L01"}
FindBakRunLst(r) ==
    /\ pc[r] = "chosen"
    /\ \/ Fulls = {} /\ lst_full_wrk_dt' = lst_full_wrk_dt
       \/ \E t \in Fulls : /\ \A u \in Fulls : u <= t
                           /\ lst_full_wrk_dt' = [lst_full_wrk_dt EXCEPT ![r] = t]
    /\ Goto(r, "drop")
    /\ UNCHANGED <<set, catVars, wrk_dt, jobs, exec, log, hostVars, wrklogtb, repeats, faults, histVars>>

\* isScheduleRegJob, deleteJob: a running execution of the job goes on.
DropOldJob(r) ==
    /\ pc[r] = "drop"
    /\ jobs' = jobs \ Named(r)
    /\ Goto(r, "regi")
    /\ UNCHANGED <<set, catVars, wrk_dt, lst_full_wrk_dt, exec, log, hostVars, wrklogtb, repeats, faults, histVars>>

\* startScheduler, regiSchedulerRestore: a duplicate name is only logged.
RegiSchedulerRestore(r) ==
    /\ pc[r] = "regi"
    /\ jobs' = IF Named(r) # {} THEN jobs ELSE jobs \cup {[own |-> r, due |-> TRUE]}
    /\ Goto(r, "polling")
    /\ UNCHANGED <<set, catVars, wrk_dt, lst_full_wrk_dt, exec, log, hostVars, wrklogtb, repeats, faults, histVars>>

RsrRunExe(r) == Choose(r) \/ FindBakRunLst(r) \/ DropOldJob(r) \/ RegiSchedulerRestore(r)

-----------------------------------------------------------------------------
(***************************************************************************)
(* Quartz: a due trigger fires once, and again after a day for as long as  *)
(* the job is registered.                                                  *)
(***************************************************************************)
Fire(x, j) ==
    /\ exec[x].stage = "free"
    /\ \A y \in Exec : exec[y].stage = "free" => x <= y
    /\ j.due
    /\ jobs' = (jobs \ {j}) \cup {[j EXCEPT !.due = FALSE]}
    /\ exec' = [exec EXCEPT ![x] = [stage |-> "start", own |-> j.own]]
    /\ LET others == {q \in Request : Running(q) # {}} IN
          IF others = {} THEN UNCHANGED mishap ELSE Befalls(others \cup {j.own}, "overlap")
    /\ UNCHANGED <<set, catVars, webVars, log, hostVars, wrklogtb, repeats, faults, wiped>>

Repeat(j) ==
    /\ repeats < MaxRepeat
    /\ ~j.due
    /\ jobs' = (jobs \ {j}) \cup {[j EXCEPT !.due = TRUE]}
    /\ repeats' = repeats + 1
    /\ UNCHANGED <<set, catVars, webVars, exec, log, hostVars, wrklogtb, faults, histVars>>

-----------------------------------------------------------------------------
(***************************************************************************)
(* RestoreExcute.  A command can fail to run: an IOException is swallowed  *)
(* (Lost), a refused login or a missing answer that is dereferenced ends   *)
(* the execution without schedulekill (Abort).                             *)
(***************************************************************************)
At(x, s)  == exec[x].stage = s
Quiet     == UNCHANGED <<set, catVars, webVars, wrklogtb, repeats>>
\* A command that ran: no fault, the job goes on to stage s.
Ran(x, s) == Step(x, s) /\ Quiet /\ UNCHANGED <<jobs, faults>>
Fault     == faults < MaxFault /\ faults' = faults + 1
Lost(x, from, to) ==
    /\ At(x, from) /\ Fault
    /\ Befalls({Own(x)}, "lost")
    /\ Step(x, to)
    /\ Quiet /\ UNCHANGED <<jobs, log, hostVars, wiped>>
Put(x, L) == log' = [log EXCEPT ![Own(x)] = L]

Abort(x) ==
    /\ exec[x].stage \in Active \ {"start", "kill"}
    /\ Fault
    /\ Befalls({Own(x)}, "aborted")
    /\ Step(x, "crashed")
    /\ Quiet /\ UNCHANGED <<jobs, log, hostVars, wiped>>

\* "RESTORE START" empties the log of the previous execution, not its error log.
StartLog(x) ==
    \/ /\ At(x, "start")
       /\ Put(x, {"START"} \cup (log[Own(x)] \cap {"errfile"}))
       /\ Ran(x, "env") /\ UNCHANGED <<hostVars, histVars>>
    \/ Lost(x, "start", "env")

\* sshpass, data directory, mysqlbinlog, mariabackup and init script are looked
\* for one by one, each with a FAIL of its own; a dump also needs the server.
CheckEnvironment(x) ==
    /\ At(x, "env")
    /\ \/ set.mtd = "M01" /\ Ran(x, "stop")
       \/ set.mtd = "M02" /\ up /\ Ran(x, "load")
       \/ Ran(x, "fail")
    /\ UNCHANGED <<log, hostVars, histVars>>

\* Stopped if the status command says it runs; the answer to stop is only logged.
StopServer(x) ==
    \/ /\ At(x, "stop")
       /\ up' \in {FALSE, up}
       /\ Ran(x, "copy") /\ UNCHANGED <<log, data, sql, histVars>>
    \/ Lost(x, "stop", "copy")

\* rm -rf data_dir/* and rsync lst_full_dir/*, in one unchecked command.  Without
\* a full backup lst_full_dir is "", and rsync copies "/*", with errors; a part of the
\* backup with errors is what it copies of a directory that goes meanwhile.
Copied(t) == [base |-> t, form |-> IF set.packed THEN "packed" ELSE "ready", inc |-> NoReplay]
Broken    == [base |-> None, form |-> "broken", inc |-> NoReplay]
AfterCopy == IF set.cpr THEN "decompress" ELSE "startdb"
AfterBase(x, s) == IF s = "startdb" /\ Lvl(Own(x)) = "L02" THEN "incre" ELSE s
CopyFull(x) ==
    \/ /\ At(x, "copy")
       /\ \/ /\ lst_full_wrk_dt[Own(x)] \in dirs
             /\ data' = IF up THEN Broken ELSE Copied(lst_full_wrk_dt[Own(x)])
             /\ Put(x, log[Own(x)] \ {"completed"})
          \/ /\ data' = Broken
             /\ Put(x, (log[Own(x)] \ {"completed"}) \cup {"error"})
       /\ IF up THEN Befalls({Own(x)}, "hot") ELSE UNCHANGED mishap
       /\ wiped' = wiped \cup {Own(x)}
       /\ Ran(x, AfterBase(x, AfterCopy)) /\ UNCHANGED <<up, sql>>
    \/ Lost(x, "copy", AfterBase(x, AfterCopy))

\* mariabackup --decompress, then (removing *.qp) --prepare.  Without .qp files,
\* or with data that are prepared already, there is nothing to do.
Mariabackup(x, from, to, form) ==
    \/ /\ At(x, from)
       /\ \/ /\ data.form \in {form, "ready"} \cup (IF form = "packed" THEN {"raw"} ELSE {})
             /\ data' = [data EXCEPT !.form = CASE @ = "packed" -> "raw"
                                                [] @ = "raw" /\ form = "raw" -> "ready"
                                                [] OTHER -> @]
             /\ Put(x, log[Own(x)] \cup {"completed"})
          \/ /\ data' = [data EXCEPT !.form = "broken"]
             /\ Put(x, log[Own(x)] \ {"completed"})
       /\ Ran(x, to) /\ UNCHANGED <<up, sql, histVars>>
    \/ Lost(x, from, to)
Decompress(x) == Mariabackup(x, "decompress", "chkdec", "packed")
Prepare(x)    == Mariabackup(x, "prepare", "chkpre", "raw")

\* tail -5 log | grep "completed OK"; otherwise "An error occurred ..." is logged.
TailCheck(x, from, to) ==
    /\ At(x, from)
    /\ \/ "completed" \in log[Own(x)] /\ Ran(x, to) /\ UNCHANGED log
       \/ "completed" \notin log[Own(x)] /\ Ran(x, "fail") /\ Put(x, log[Own(x)] \cup {"error"})
    /\ UNCHANGED <<hostVars, histVars>>
CompletedCheck(x) == \/ TailCheck(x, "chkdec", "prepare")
                     \/ TailCheck(x, "chkpre", AfterBase(x, "startdb"))

\* mysql < lst_full_wrk_dt.sql >> log: the messages of mysql, and of a missing
\* file, go to stderr and not to a log.  (The command also writes next_bin.log
\* of the chosen directory, which nothing here reads.)
LoadDump(x) ==
    LET next == IF Lvl(Own(x)) = "L02" THEN "incre" ELSE "dbchk" IN
    \/ /\ At(x, "load")
       /\ \/ /\ lst_full_wrk_dt[Own(x)] \in dirs /\ up
             /\ data' = [base |-> lst_full_wrk_dt[Own(x)], form |-> "ready", inc |-> NoReplay]
             /\ UNCHANGED mishap
          \/ /\ data' \in {data, Broken}
             /\ Befalls({Own(x)}, "load")
       /\ wiped' = wiped \cup {Own(x)}
       /\ Ran(x, next) /\ UNCHANGED <<log, up, sql>>
    \/ Lost(x, "load", next)

\* The incremental backups between the full backup and the chosen time; their
\* binary logs are appended to the .sql file, those of directories that are gone
\* are not missed.
Points(r)  == {t \in Time : lst_full_wrk_dt[r] # None /\ lst_full_wrk_dt[r] < t /\ t <= wrk_dt[r]}
Logged(r)  == Points(r) \cap dirs
IncreFile(x) ==
    LET r == Own(x)
        s == wrk_dt[r]
        next == IF set.mtd = "M01" THEN "startdb" ELSE "dbchk"
    IN
    \/ /\ At(x, "incre")
       /\ sql' = [sql EXCEPT ![s] = [t \in Time |-> IF t \in Logged(r) THEN Capped(@[t] + 1) ELSE @[t]]]
       /\ \/ UNCHANGED log
          \/ /\ Logged(r) # {}                                      \* mysqlbinlog complains
             /\ Put(x, log[r] \cup {IF set.mtd = "M01" THEN "error" ELSE "errfile"})
       /\ mishap' = [mishap EXCEPT ![r] = @ \cup (IF sql[s] # NoReplay THEN {"leftover"} ELSE {})
                                           \cup (IF Points(r) \ dirs # {} THEN {"expired"} ELSE {})]
       /\ Ran(x, next) /\ UNCHANGED <<data, up, wiped>>
    \/ Lost(x, "incre", next)

\* A directory with compressed or without any data files does not start; after
\* the command the job sleeps for ten seconds.
StartServer(x) ==
    \/ /\ At(x, "startdb")
       /\ up' \in {up} \cup (IF data.form = "packed" THEN {} ELSE {TRUE})
       /\ Ran(x, "status") /\ UNCHANGED <<log, data, sql, histVars>>
    \/ Lost(x, "startdb", "status")

\* Without an answer to the status command no result is written at all.
AfterStart(x) == IF Lvl(Own(x)) = "L02" THEN "apply" ELSE "errchk"
SilentStatusCheck(x) ==                \* mutant: no FAIL when the server does not start
    \/ /\ At(x, "status")
       /\ Ran(x, IF up THEN AfterStart(x) ELSE "kill")
       /\ UNCHANGED <<log, hostVars, histVars>>
    \/ Lost(x, "status", "kill")
StatusCheck(x) ==
    \/ /\ At(x, "status")
       /\ Ran(x, IF up THEN AfterStart(x) ELSE "fail")
       /\ UNCHANGED <<log, hostVars, histVars>>
    \/ Lost(x, "status", "kill")
DbCheck(x) ==
    /\ At(x, "dbchk")
    /\ Ran(x, IF up THEN "apply" ELSE "fail")
    /\ UNCHANGED <<log, hostVars, histVars>>

\* if [ -f wrk_dt.sql ]: mysql < wrk_dt.sql, errors to the log; rm wrk_dt.sql.
ApplyIncre(x) ==
    LET s == wrk_dt[Own(x)] IN
    \/ /\ At(x, "apply")
       /\ \/ /\ up
             /\ data' = [data EXCEPT !.inc = [t \in Time |-> Capped(@[t] + sql[s][t])]]
             /\ UNCHANGED log
          \/ /\ sql[s] # NoReplay
             /\ Put(x, log[Own(x)] \cup {"error"})
             /\ UNCHANGED data
          \/ /\ sql[s] = NoReplay
             /\ UNCHANGED <<data, log>>
       /\ sql' = [sql EXCEPT ![s] = NoReplay]
       /\ Ran(x, "errchk") /\ UNCHANGED <<up, histVars>>
    \/ Lost(x, "apply", "errchk")

\* grep -i error in both logs; without an answer no result is written.
ErrorFileCheck(x) ==                   \* mutant: only the error log is read
    \/ /\ At(x, "errchk")
       /\ Ran(x, IF "errfile" \in log[Own(x)] THEN "fail" ELSE "success")
       /\ UNCHANGED <<log, hostVars, histVars>>
    \/ Lost(x, "errchk", "kill")
ErrorLogCheck(x) ==
    \/ /\ At(x, "errchk")
       /\ Ran(x, IF log[Own(x)] \cap {"error", "errfile"} # {} THEN "fail" ELSE "success")
       /\ UNCHANGED <<log, hostVars, histVars>>
    \/ Lost(x, "errchk", "kill")

\* "Result : ..." and "RESTORE END", and a copy of the complaints to the error
\* log, in one command.
LogResult(x, s, result) ==
    \/ /\ At(x, s)
       /\ Put(x, (log[Own(x)] \ {"completed"}) \cup {result, "END"}
                    \cup IF "error" \in log[Own(x)] THEN {"errfile"} ELSE {})
       /\ Ran(x, "kill") /\ UNCHANGED <<hostVars, histVars>>
    \/ Lost(x, s, "kill")
LogSuccess(x) == LogResult(x, "success", "SUCCESS")
LogFail(x)    == LogResult(x, "fail", "FAIL")

NoScheduleKill(x) ==                   \* mutant: the job stays registered
    /\ At(x, "kill")
    /\ Step(x, "ended")
    /\ Quiet /\ UNCHANGED <<jobs, faults, log, hostVars, histVars>>
ScheduleKill(x) ==
    /\ At(x, "kill")
    /\ jobs' = jobs \ Named(Own(x))
    /\ Step(x, "ended")
    /\ Quiet /\ UNCHANGED <<faults, log, hostVars, histVars>>

JobStep(x) ==
    \/ StartLog(x) \/ CheckEnvironment(x) \/ StopServer(x) \/ CopyFull(x)
    \/ Decompress(x) \/ Prepare(x) \/ CompletedCheck(x) \/ LoadDump(x)
    \/ IncreFile(x) \/ StartServer(x) \/ StatusCheck(x) \/ DbCheck(x)
    \/ ApplyIncre(x) \/ ErrorLogCheck(x) \/ LogSuccess(x) \/ LogFail(x) \/ ScheduleKill(x)

-----------------------------------------------------------------------------
(***************************************************************************)
(* The browser polls /rsr_run_endChk every five seconds until the answer   *)
(* says complete = "ok" (exe_run.jsp, fn_endChkload).                      *)
(***************************************************************************)
WebOnly == UNCHANGED <<set, catVars, wrk_dt, lst_full_wrk_dt, jobs, exec, log, hostVars, repeats, faults, histVars>>

PollEnd(r) ==
    /\ pc[r] = "polling"
    /\ "END" \in log[r]
    /\ Goto(r, "endseen")
    /\ WebOnly /\ UNCHANGED wrklogtb

\* While a restore job of that name is registered the answer goes out, and the
\* polling stops, without a record.
PollLog(r) ==                          \* mutant: the registry is not asked
    /\ pc[r] = "endseen"
    /\ Goto(r, "readlog")
    /\ WebOnly /\ UNCHANGED wrklogtb
PollJob(r) ==
    /\ pc[r] = "endseen"
    /\ Goto(r, IF Named(r) # {} THEN "done" ELSE "readlog")
    /\ WebOnly /\ UNCHANGED wrklogtb

\* cat of the log and insertLog; without a list there is no record.
InsertLog(r) ==
    /\ pc[r] = "readlog"
    /\ \/ UNCHANGED wrklogtb
       \/ wrklogtb' = wrklogtb \cup
             {[req |-> r, suc |-> IF "SUCCESS" \in log[r] THEN "S01" ELSE "S02"]}
    /\ Goto(r, "done")
    /\ WebOnly

RsrRunEndChk(r) == PollEnd(r) \/ PollJob(r) \/ InsertLog(r)

-----------------------------------------------------------------------------
(***************************************************************************)
(* Expiry (RunCatalogue): the oldest directory goes, its row some time     *)
(* later.                                                                  *)
(***************************************************************************)
DelBackup(t) ==
    /\ t \in dirs
    /\ Cardinality(Time \ dirs) < MaxExpire
    /\ \A u \in dirs : t <= u
    /\ dirs' = dirs \ {t}
    /\ UNCHANGED <<set, bakruntb, webVars, jobs, exec, log, hostVars, wrklogtb, repeats, faults, histVars>>
DeleteRun(t) ==
    /\ t \in bakruntb \ dirs
    /\ bakruntb' = bakruntb \ {t}
    /\ UNCHANGED <<set, dirs, webVars, jobs, exec, log, hostVars, wrklogtb, repeats, faults, histVars>>

-----------------------------------------------------------------------------
Init ==
    /\ set \in {s \in Setting : s.lvl[1] = "L01" /\ (s.mtd = "M02" => ~s.cpr /\ ~s.packed)}
    /\ bakruntb = Time /\ dirs = Time
    /\ pc = [r \in Request |-> "idle"]
    /\ wrk_dt = [r \in Request |-> 1] /\ lst_full_wrk_dt = [r \in Request |-> None]
    /\ jobs = {}
    /\ exec = [x \in Exec |-> [stage |-> "free", own |-> None]]
    /\ log = [r \in Request |-> {}]
    /\ data = [base |-> None, form |-> "ready", inc |-> NoReplay]
    /\ up \in BOOLEAN
    /\ sql = [t \in Time |-> NoReplay]
    /\ wrklogtb = {}
    /\ repeats = 0 /\ faults = 0
    /\ mishap = [r \in Request |-> {}] /\ wiped = {}

Next ==
    \/ \E r \in Request : RsrRunExe(r) \/ RsrRunEndChk(r)
    \/ \E j \in jobs : Repeat(j) \/ \E x \in Exec : Fire(x, j)
    \/ \E x \in Exec : JobStep(x) \/ Abort(x)
    \/ \E t \in Time : DelBackup(t) \/ DeleteRun(t)

Spec == Init /\ [][Next]_vars

\* Quartz fires and runs its threads, SSH calls return, and an open window polls.
Fairness ==
    /\ WF_vars(\E x \in Exec, j \in jobs : Fire(x, j))
    /\ \A x \in Exec : WF_vars(JobStep(x))
    /\ \A r \in Request : WF_vars(RsrRunEndChk(r))

FairSpec == Spec /\ Fairness

-----------------------------------------------------------------------------
\* Another request for the same restore point has got past DropOldJob.
Twin(r) == \E q \in Request \ {r} : wrk_dt[q] = wrk_dt[r] /\ pc[q] \notin {"idle", "chosen", "drop"}

\* Types, and that an execution only takes the steps of its engine: jobXProcess
\* for mariabackup, jobMProcess for mysqldump.
TypeOK ==
    /\ set \in Setting /\ bakruntb \subseteq Time /\ dirs \subseteq Time
    /\ pc \in [Request -> PC]
    /\ wrk_dt \in [Request -> Time]
    /\ lst_full_wrk_dt \in [Request -> Time \cup {None}]
    /\ jobs \subseteq [own : Request, due : BOOLEAN]
    /\ exec \in [Exec -> [stage : Stage, own : Request \cup {None}]]
    /\ \A x \in Exec : exec[x].stage # "free" => exec[x].own \in Request
    /\ \A x \in Exec : exec[x].stage \in {"stop", "copy", "decompress", "chkdec", "prepare",
                                          "chkpre", "startdb", "status"} => set.mtd = "M01"
    /\ \A x \in Exec : exec[x].stage \in {"load", "dbchk"} => set.mtd = "M02"
    /\ log \in [Request -> SUBSET Line]
    /\ data \in Database /\ up \in BOOLEAN
    /\ sql \in [Time -> [Time -> Times]]
    /\ wrklogtb \subseteq [req : Request, suc : {"S01", "S02"}]
    /\ repeats \in 0 .. MaxRepeat /\ faults \in 0 .. MaxFault
    /\ mishap \in [Request -> SUBSET Mishap]
    /\ wiped \subseteq Request

\* A restore reports success only over its base, prepared, with every binary log
\* after it replayed once.  Whatever step fails has to be caught by a check of
\* RestoreExcute, or by the "grep error" at the end; the mishaps are what gets past
\* all checks, and there is nothing else.
Expected(r) == IF Lvl(r) = "L02" THEN Points(r) ELSE {}
Restored(r) == data = [base |-> lst_full_wrk_dt[r], form |-> "ready",
                       inc  |-> [t \in Time |-> IF t \in Expected(r) THEN 1 ELSE 0]]
Reports(x)  == At(x, "success") /\ log'[Own(x)] # log[Own(x)] /\ exec'[x].stage = "kill"
SuccessIsRestored ==
    [][\A x \in Exec : Reports(x) =>
          Restored(Own(x)) \/ mishap[Own(x)] \cap (Mishap \ {"aborted"}) # {}]_vars

\* The page asks for a restore point, and that is the state of the database when
\* success is reported, if nothing went wrong on the way: the newest full backup
\* up to it and what came in between.
ChosenBase(r) == CHOOSE t \in Time : /\ set.lvl[t] = "L01" /\ t <= wrk_dt[r]
                                     /\ \A u \in Time : set.lvl[u] = "L01" /\ u <= wrk_dt[r] => u <= t
RestoredPointIsChosen ==
    [][\A x \in Exec : Reports(x) /\ mishap[Own(x)] = {} =>
          /\ data.base = ChosenBase(Own(x))
          /\ {t \in Time : data.inc[t] > 0} = {t \in Time : ChosenBase(Own(x)) < t /\ t <= wrk_dt[Own(x)]}]_vars

\* A restore is recorded in WRKLOGTB only when no execution of it is under way,
\* unless two of them overlapped.  (Another window that asks for the same restore
\* point may drop the job before schedulekill does: only that is then to come.)
RecordedRestoreIsOver ==
    \A row \in wrklogtb : \A x \in Running(row.req) :
        "overlap" \in mishap[row.req] \/ (At(x, "kill") /\ Twin(row.req))

\* An answered request has its job in the scheduler or has been executed, unless
\* another window asked for the same restore point, whose job has the same name.
AnsweredRestoreRuns ==
    \A r \in Request : pc[r] \in {"polling", "endseen", "readlog", "done"} =>
        \/ \E j \in jobs : j.own = r
        \/ \E x \in Exec : exec[x].own = r
        \/ Twin(r)

\* The data of the target are replaced a second time for the same request only
\* when its first execution was aborted, so that the job stayed for the next
\* day, or was still running a day later.
ReplacedOnce ==
    [][\A x \in Exec : /\ exec[x].stage \in {"copy", "load"} /\ exec'[x].stage # exec[x].stage
                       /\ data' # data /\ Own(x) \in wiped
          => mishap[Own(x)] \cap {"aborted", "overlap"} # {}]_vars

\* A window that waits gets its answer, unless a command did not run, an exception
\* ended the execution, or another window asked for the same restore point.
RestoreIsAnswered ==
    \A r \in Request : pc[r] = "polling" ~>
        pc[r] = "done" \/ mishap[r] \cap {"lost", "aborted"} # {} \/ Twin(r)
=============================================================================
