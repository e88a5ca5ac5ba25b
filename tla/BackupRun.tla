----------------------------- MODULE BackupRun -----------------------------
(***************************************************************************)
(* An immediate backup, from the click in the browser to the rows in the   *)
(* catalogue.  Four kinds of actors interleave:                            *)
(*   - the web threads that serve /bak_run_exe (SetupController), which    *)
(*     hand the parameters to Quartz through the one unsynchronised field  *)
(*     BackupScheduler.svcParamMap;                                        *)
(*   - the Quartz threads that run BackupFullExcute / BackupIncreExcute,   *)
(*     a chain of SSH commands each of which can answer, answer nothing    *)
(*     or fail to authenticate, and that delete their own job at the end;  *)
(*   - the browsers that poll /bak_run_endChk and so cause the result to   *)
(*     be written to WRKLOGTB and BAKRUNTB;                                *)
(*   - the clock, which only counts whole seconds (wrk_dt is               *)
(*     yyyyMMddHHmmss), and a restart of the web application.              *)
(***************************************************************************)
EXTENDS Naturals, FiniteSets

CONSTANTS
    Request,     \* browser windows that start one backup each
    Target,      \* database servers
    Exec,        \* Quartz executions: each firing of a trigger uses one
    Nam,         \* Nam[t]: the string bms_nam + bts_nam of a target
    Avt,         \* Avt[t]: avt_nam, "M01" mariabackup or "M02" mysqldump
    Bny,         \* Bny[t]: the path of mariabackup on the server is set (bny_pth is not NULL)
    Cpr,         \* Cpr[t]: is the mariabackup output compressed (cpr # "N")
    Whole,       \* Whole[t]: bak_typ is BT01, the whole server
    None,        \* Java null
    MaxClock,    \* bound: seconds that pass
    MaxRepeat,   \* bound: how often a one-day repeat interval elapses
    MaxRestart   \* bound: restarts of the web application

ASSUME TargetAssumption ==
    /\ Avt \in [Target -> {"M01", "M02"}]
    /\ Bny \in [Target -> BOOLEAN]
    /\ Cpr \in [Target -> BOOLEAN]
    /\ Whole \in [Target -> BOOLEAN]
    /\ DOMAIN Nam = Target
    /\ Target # {}
ASSUME BoundAssumption == MaxClock \in Nat \ {0} /\ MaxRepeat \in Nat /\ MaxRestart \in Nat
ASSUME NoneAssumption == None \notin Request

VARIABLES
    clock,            \* the current second
    pc,               \* progress of each window and of the request it waits for
    bts, lvl, wrk_dt, \* the run a request asked for
    exit_flag,        \* "1": the incremental run is known to be impossible
    suc_yon,          \* the result bak_run_endChk read from the log
    svcParamMap,      \* the shared field: the request whose HashMap it refers to
    heap,             \* the contents of the HashMap each request created
    jobs,             \* the jobs registered with Quartz
    exec,             \* the executions of those jobs
    log,              \* ginian.log of each backup directory
    data,             \* the backup files of each directory
    last_fullbackup, last_backup,  \* the two pointer files of each target
    wrklogtb, bakruntb,            \* the work-log and the restore-point tables
    repeats, restarts,
    clash,            \* history: requests that were between startScheduler and
                      \* regiScheduler... at the same time as another one
    lost              \* history: requests whose job a restart forgot

webVars  == <<pc, bts, lvl, wrk_dt, exit_flag, suc_yon>>
mapVars  == <<svcParamMap, heap>>
jobVars  == <<jobs, exec>>
fileVars == <<log, data, last_fullbackup, last_backup>>
tabVars  == <<wrklogtb, bakruntb>>
envVars  == <<clock, repeats, restarts>>
histVars == <<clash, lost>>
vars     == <<webVars, mapVars, jobVars, fileVars, tabVars, envVars, histVars>>

Level == {"L01", "L02"}                       \* full, incremental
Stamp == 0 .. MaxClock
Dir   == Target \X Stamp
Line  == {"START", "SUCCESS", "FAIL", "END"}  \* the lines of ginian.log that are read back
\* What lies in a backup directory.  "partial": the stream stopped early;
\* "streamed": all files arrived; "applying": --prepare was cut off;
\* "ready": prepared, or a dump with its last line, or all binary logs copied.
Content == {"none", "partial", "streamed", "applying", "ready"}

Prep   == {"prepare", "check", "new", "put", "regi"}
Window == {"put", "regi"}                      \* startScheduler entered, job not yet registered
Polls  == {"polling", "endseen", "readlog", "inslog"}
PC     == {"idle", "done", "error"} \cup Prep \cup Polls
Full   == {"rpmchk", "run", "apply", "complete"}
Incre  == {"errchk", "tail", "copy", "cdc"}
Active == {"start", "success", "fail", "kill"} \cup Full \cup Incre
Stage  == {"free", "ended", "crashed", "dead"} \cup Active

\* The contents of a parameter map: who wrote the keys every run has, who last
\* wrote the backup command of each engine (xtrarunCmd, meCmd), and who last
\* wrote the keys only a full (completeCmd...) or only an incremental run has
\* (exit_flag, flushCmd...).
Engine   == {"M01", "M02"}
Params   == [own : Request \cup {None}, run : [Engine -> Request \cup {None}],
             full : Request \cup {None}, incre : Request \cup {None}]
NoParams == [own |-> None, run |-> [m \in Engine |-> None], full |-> None, incre |-> None]
FreeExec == [stage |-> "free", cls |-> "L01", own |-> None, run |-> None, cmd |-> None, by |-> None]

DirOf(r)        == <<bts[r], wrk_dt[r]>>
\* The job a registration, a deletion or schedulekill means: name and group are
\* the class and bms_nam + bts_nam + wrk_dt.
NamedBySecond(c, r) == {j \in jobs : j.cls = c /\ j.dt = wrk_dt[r]}    \* mutant: the names of the server left out
Named(c, r)     == {j \in jobs : j.cls = c /\ j.nam = Nam[bts[r]] /\ j.dt = wrk_dt[r]}
Goto(r, p)      == pc' = [pc EXCEPT ![r] = p]
Step(x, s)      == exec' = [exec EXCEPT ![x].stage = s]

-----------------------------------------------------------------------------
(***************************************************************************)
(* /bak_run_exe: the web thread of request r.                              *)
(***************************************************************************)

\* wrk_dt is the current second; the directory is created over SSH, and any
\* failure of that ends the request with an exception.
MakeDir(r) ==
    /\ pc[r] = "idle"
    /\ \E t \in Target, l \in Level, ok \in BOOLEAN :
          /\ bts' = [bts EXCEPT ![r] = t]
          /\ lvl' = [lvl EXCEPT ![r] = l]
          /\ wrk_dt' = [wrk_dt EXCEPT ![r] = clock]
          /\ Goto(r, IF ~ok THEN "error" ELSE IF l = "L02" THEN "prepare" ELSE "check")
    /\ UNCHANGED <<exit_flag, suc_yon, mapVars, jobVars, fileVars, tabVars, envVars, histVars>>

\* An incremental run needs the binary log position of the newest row of
\* BAKRUNTB; without such a row, or when SSH does not deliver it, exit_flag is "1".
\* A connection that cannot be opened ends the request with an exception.
HasBase(t) == \E row \in bakruntb : row.dir[1] = t
FindBaseUnset(r) ==                    \* mutant: exit_flag stays null without a row
    /\ pc[r] = "prepare"
    /\ exit_flag' = [exit_flag EXCEPT ![r] = IF HasBase(bts[r]) THEN "0" ELSE None]
    /\ Goto(r, "check")
    /\ UNCHANGED <<bts, lvl, wrk_dt, suc_yon, mapVars, jobVars, fileVars, tabVars, envVars, histVars>>
FindBase(r) ==
    /\ pc[r] = "prepare"
    /\ \/ /\ \E f \in {"0", "1"} :
                /\ f = "0" => HasBase(bts[r])
                /\ exit_flag' = [exit_flag EXCEPT ![r] = f]
          /\ Goto(r, "check")
       \/ Goto(r, "error") /\ UNCHANGED exit_flag
    /\ UNCHANGED <<bts, lvl, wrk_dt, suc_yon, mapVars, jobVars, fileVars, tabVars, envVars, histVars>>

\* isScheduleRegJob, then deleteJob: deleting a job that is not there is no
\* error, so both calls together only remove the job of that name.
DropOldJob(r) ==
    /\ pc[r] = "check"
    /\ jobs' = jobs \ Named(lvl[r], r)
    /\ Goto(r, "new")
    /\ UNCHANGED <<bts, lvl, wrk_dt, exit_flag, suc_yon, mapVars, exec, fileVars, tabVars, envVars, histVars>>

\* startScheduler, first statement: svcParamMap = new HashMap().
Inside(r) == {q \in Request \ {r} : pc[q] \in Window}
KeepParamMap(r) ==                     \* mutant: one map, filled again
    /\ pc[r] = "new"
    /\ svcParamMap' = IF svcParamMap = None THEN r ELSE svcParamMap
    /\ UNCHANGED heap
    /\ clash' = IF Inside(r) = {} THEN clash ELSE clash \cup Inside(r) \cup {r}
    /\ Goto(r, "put")
    /\ UNCHANGED <<bts, lvl, wrk_dt, exit_flag, suc_yon, jobVars, fileVars, tabVars, envVars, lost>>
NewParamMap(r) ==
    /\ pc[r] = "new"
    /\ svcParamMap' = r
    /\ heap' = [heap EXCEPT ![r] = NoParams]
    /\ clash' = IF Inside(r) = {} THEN clash ELSE clash \cup Inside(r) \cup {r}
    /\ Goto(r, "put")
    /\ UNCHANGED <<bts, lvl, wrk_dt, exit_flag, suc_yon, jobVars, fileVars, tabVars, envVars, lost>>

\* startScheduler, second statement: svcParamMap.putAll(cmd), into whatever map
\* the field refers to by now.  xtrarunCmd is among the parameters only when the
\* path of mariabackup is known (the form lets it be empty, which is stored as NULL).
Runnable(t) == Avt[t] = "M02" \/ Bny[t]
PutParams(r) ==
    /\ pc[r] = "put"
    /\ heap' = [heap EXCEPT ![svcParamMap] =
                   [own   |-> r,
                    run   |-> IF lvl[r] = "L01" /\ Runnable(bts[r])
                              THEN [@.run EXCEPT ![Avt[bts[r]]] = r] ELSE @.run,
                    full  |-> IF lvl[r] = "L01" THEN r ELSE @.full,
                    incre |-> IF lvl[r] = "L02" THEN r ELSE @.incre]]
    /\ Goto(r, "regi")
    /\ UNCHANGED <<bts, lvl, wrk_dt, exit_flag, suc_yon, svcParamMap, jobVars, fileVars, tabVars, envVars, histVars>>

\* regiSchedulerFullBackup / regiSchedulerIncreBackup: the names come from the
\* field, the job keeps a reference to the map, a duplicate name raises a
\* SchedulerException that is only logged, an empty map a NullPointerException
\* that ends the request.
NewJob(r, c) == [cls |-> lvl[r], nam |-> Nam[bts[c.own]], dt |-> wrk_dt[c.own],
                 map |-> svcParamMap, by |-> r, due |-> TRUE]
RegiScheduler(r) ==
    /\ pc[r] = "regi"
    /\ LET c == heap[svcParamMap] IN
          \/ /\ c.own = None
             /\ Goto(r, "error")
             /\ UNCHANGED jobs
          \/ /\ c.own # None
             /\ jobs' = IF Named(lvl[r], c.own) # {} THEN jobs ELSE jobs \cup {NewJob(r, c)}
             /\ Goto(r, "polling")
    /\ UNCHANGED <<bts, lvl, wrk_dt, exit_flag, suc_yon, mapVars, exec, fileVars, tabVars, envVars, histVars>>

BakRunExe(r) ==
    MakeDir(r) \/ FindBase(r) \/ DropOldJob(r) \/ NewParamMap(r) \/ PutParams(r) \/ RegiScheduler(r)

-----------------------------------------------------------------------------
(***************************************************************************)
(* Quartz: a due trigger fires once; SimpleTrigger repeats it every day    *)
(* for as long as the job stays registered.                                *)
(***************************************************************************)

\* A full job whose map lacks the backup command of its engine, or an
\* incremental job whose map lacks exit_flag, dies of a NullPointerException
\* before its first command; execute logs it and leaves out schedulekill.
RunCmd(c) == c.run[Avt[bts[c.own]]]
Unusable(j, c) == IF j.cls = "L01" THEN RunCmd(c) = None ELSE c.incre = None

Fire(x, j) ==
    /\ exec[x].stage = "free"
    /\ j.due
    /\ jobs' = (jobs \ {j}) \cup {[j EXCEPT !.due = FALSE]}
    /\ LET c == heap[j.map] IN
          exec' = [exec EXCEPT ![x] =
             [stage |-> IF Unusable(j, c) THEN "crashed" ELSE "start",
              cls |-> j.cls, own |-> c.own, by |-> j.by, run |-> RunCmd(c),
              cmd |-> IF j.cls = "L01" THEN c.full ELSE c.incre]]
    /\ UNCHANGED <<webVars, mapVars, fileVars, tabVars, envVars, histVars>>

Repeat(j) ==
    /\ repeats < MaxRepeat
    /\ ~j.due
    /\ jobs' = (jobs \ {j}) \cup {[j EXCEPT !.due = TRUE]}
    /\ repeats' = repeats + 1
    /\ UNCHANGED <<webVars, mapVars, exec, fileVars, tabVars, clock, restarts, histVars>>

-----------------------------------------------------------------------------
(***************************************************************************)
(* The steps common to both jobs.  Every append to ginian.log is one SSH   *)
(* command that either reaches the server or does not.  An exception in an *)
(* incremental job ends it without schedulekill ("crashed"); a full job    *)
(* catches every exception of its commands and goes on to schedulekill.    *)
(***************************************************************************)
At(x, c, s)  == exec[x].stage = s /\ exec[x].cls = c
LogDir(x)    == DirOf(exec[x].own)
DataDir(x)   == DirOf(exec[x].cmd)
Append(d, L) == \/ log' = [log EXCEPT ![d] = @ \cup L]
                \/ UNCHANGED log
JobOnly      == UNCHANGED <<webVars, mapVars, jobs, tabVars, envVars, histVars>>
AnyAuthFails(x) == Step(x, "crashed")      \* mutant: the full job does not catch it either
AuthFails(x) == exec[x].cls = "L02" /\ Step(x, "crashed")

StartLog(x) ==
    /\ exec[x].stage = "start"
    /\ \/ /\ Append(LogDir(x), {"START"})
          /\ Step(x, IF exec[x].cls = "L01" THEN "rpmchk"
                     ELSE IF exit_flag[exec[x].cmd] = "1" THEN "fail" ELSE "errchk")
       \/ AuthFails(x) /\ UNCHANGED log
    /\ JobOnly /\ UNCHANGED <<data, last_fullbackup, last_backup>>

\* "Result : SUCCESS", "... BACKUP END" and the pointer files, in one command.
LogSuccess(x) ==
    /\ exec[x].stage = "success"
    /\ \/ /\ log' = [log EXCEPT ![LogDir(x)] = @ \cup {"SUCCESS", "END"}]
          /\ LET t == bts[exec[x].own] IN
                /\ last_backup' = [last_backup EXCEPT ![t] = wrk_dt[exec[x].own]]
                /\ last_fullbackup' = IF exec[x].cls = "L02" THEN last_fullbackup
                      ELSE [last_fullbackup EXCEPT ![t] = wrk_dt[exec[x].own]]
       \/ UNCHANGED <<log, last_backup, last_fullbackup>>
    /\ Step(x, "kill") \/ AuthFails(x)     \* a later command can fail though this one arrived
    /\ JobOnly /\ UNCHANGED data

LogFail(x) ==
    /\ exec[x].stage = "fail"
    /\ Append(LogDir(x), {"FAIL", "END"})
    /\ Step(x, "kill") \/ AuthFails(x)
    /\ JobOnly /\ UNCHANGED <<data, last_fullbackup, last_backup>>

ScheduleKill(x) ==
    /\ exec[x].stage = "kill"
    /\ jobs' = jobs \ Named(exec[x].cls, exec[x].own)
    /\ Step(x, "ended")
    /\ UNCHANGED <<webVars, mapVars, fileVars, tabVars, envVars, histVars>>

-----------------------------------------------------------------------------
(***************************************************************************)
(* BackupFullExcute                                                        *)
(***************************************************************************)

\* Is sshpass installed on the target?  No answer: the job ends without a result.
RpmCheckReturns(x) ==                  \* mutant: return instead of schedulekill
    /\ At(x, "L01", "rpmchk")
    /\ \E s \in {"run", "fail", "ended"} : Step(x, s)
    /\ JobOnly /\ UNCHANGED fileVars
RpmCheck(x) ==
    /\ At(x, "L01", "rpmchk")
    /\ \E s \in {"run", "fail", "kill"} : Step(x, s)
    /\ JobOnly /\ UNCHANGED fileVars

\* xtrarunCmd streams the files with mbstream, meCmd writes one dump file; the
\* exception of a connection that breaks half way is only logged.
RunBackup(x) ==
    /\ At(x, "L01", "run")
    /\ LET d == DirOf(exec[x].run)
           m == Avt[bts[exec[x].own]]
       IN  /\ \E c \in {data[d], "partial", IF m = "M01" THEN "streamed" ELSE "ready"} :
                 data' = [data EXCEPT ![d] = c]
           /\ Step(x, IF m = "M01" /\ ~Cpr[DataDir(x)[1]] THEN "apply" ELSE "complete")
    /\ JobOnly /\ UNCHANGED <<log, last_fullbackup, last_backup>>

\* chkpointCmd answers ok once xtrabackup_checkpoints, the last file of the
\* stream, is there; then appOptCmd prepares an uncompressed backup.
ApplyLog(x) ==
    /\ At(x, "L01", "apply")
    /\ LET d == DataDir(x) IN
          \E c \in {data[d]} \cup
                   (IF data[d] \in {"none", "partial"} THEN {} ELSE {"applying", "ready"}) :
             data' = [data EXCEPT ![d] = c]
    /\ Step(x, "complete")
    /\ JobOnly /\ UNCHANGED <<log, last_fullbackup, last_backup>>

\* completeCmd: ibdata1 (compressed), ib_logfile0 (prepared), or the last line
\* of the dump.  No answer, or no answer to cdcCmd: no result is written.
Sound(d)    == IF Avt[d[1]] = "M01" /\ Cpr[d[1]] THEN "streamed" ELSE "ready"
Complete(d) == data[d] = Sound(d)
FileTested(d) == data[d] \in {"partial", "applying"}   \* mutant: any file is good enough
Tested(d)   == \/ Avt[d[1]] = "M01" /\ Cpr[d[1]]  /\ data[d] = "partial"
               \/ Avt[d[1]] = "M01" /\ ~Cpr[d[1]] /\ data[d] = "applying"
CompleteCheck(x) ==
    /\ At(x, "L01", "complete")
    /\ \/ Step(x, "kill")
       \/ Complete(DataDir(x)) /\ Step(x, "success")
       \/ ~Complete(DataDir(x)) /\ Step(x, "fail")
       \/ Tested(DataDir(x)) /\ Step(x, "success")    \* the tested file may be there already
    /\ JobOnly /\ UNCHANGED fileVars

-----------------------------------------------------------------------------
(***************************************************************************)
(* BackupIncreExcute                                                       *)
(***************************************************************************)

\* Does the error log of the directory mention a failure?  Results of an earlier
\* execution in the same directory are copied there together with FAIL.
ErrorLogCheck(x) ==
    /\ At(x, "L02", "errchk")
    /\ \/ Step(x, IF "FAIL" \in log[LogDir(x)] THEN "fail" ELSE "tail")
       \/ AuthFails(x)
    /\ JobOnly /\ UNCHANGED fileVars

\* The name of the newest binary log; without it no result line is written.
TailIndex(x) ==
    /\ At(x, "L02", "tail")
    /\ \E s \in {"copy", "kill", "crashed"} : Step(x, s)
    /\ JobOnly /\ UNCHANGED fileVars

\* Flush, then rsync of every binary log since the base: the exit status of the
\* loop is not looked at.
CopyBinlogs(x) ==
    /\ At(x, "L02", "copy")
    /\ \/ \E c \in {data[LogDir(x)], "ready"} :
             data' = [data EXCEPT ![LogDir(x)] = c] /\ Step(x, "cdc")
       \/ AuthFails(x) /\ UNCHANGED data
    /\ JobOnly /\ UNCHANGED <<log, last_fullbackup, last_backup>>

\* next_bin.log must not be empty.
NextBin(x) ==
    /\ At(x, "L02", "cdc")
    /\ \E s \in {"success", "fail", "crashed"} : Step(x, s)
    /\ JobOnly /\ UNCHANGED fileVars

JobStep(x) ==
    \/ StartLog(x) \/ LogSuccess(x) \/ LogFail(x) \/ ScheduleKill(x)
    \/ RpmCheck(x) \/ RunBackup(x) \/ ApplyLog(x) \/ CompleteCheck(x)
    \/ ErrorLogCheck(x) \/ TailIndex(x) \/ CopyBinlogs(x) \/ NextBin(x)

-----------------------------------------------------------------------------
(***************************************************************************)
(* The browser polls /bak_run_endChk every five seconds until the answer   *)
(* says complete = "ok" (exe_run.jsp, fn_endChkload).                      *)
(***************************************************************************)
WebOnly == UNCHANGED <<bts, lvl, wrk_dt, exit_flag, mapVars, jobVars, fileVars, envVars, histVars>>

\* grep "BACKUP END" ginian.log; from here on the answer carries complete = "ok".
PollEnd(r) ==
    /\ pc[r] = "polling"
    /\ "END" \in log[DirOf(r)]
    /\ Goto(r, "endseen")
    /\ WebOnly /\ UNCHANGED <<suc_yon, tabVars>>

\* The result is only read when no full-backup job of that name is registered;
\* otherwise the answer is sent, and the browser stops polling, without it.
PollLog(r) ==                          \* mutant: the registry is not asked
    /\ pc[r] = "endseen"
    /\ Goto(r, "readlog")
    /\ WebOnly /\ UNCHANGED <<suc_yon, tabVars>>
PollJob(r) ==
    /\ pc[r] = "endseen"
    /\ Goto(r, IF Named("L01", r) # {} THEN "done" ELSE "readlog")
    /\ WebOnly /\ UNCHANGED <<suc_yon, tabVars>>

\* cat ginian.log, and insertBakRun in a transaction of its own when it says
\* SUCCESS.  insertBakRun of an incremental run needs an earlier successful row
\* of WRKLOGTB (findLstLog); a missing one is a NullPointerException.
HasLog(t) == \E row \in wrklogtb : row.dir[1] = t /\ row.suc = "S01"
FullCatalogued(r) == Whole[bts[r]] /\ lvl[r] = "L01"   \* mutant: only full backups are kept
Catalogued(r)     == Whole[bts[r]]                     \* bak_typ.equals("BT01")
ReadLog(r) ==
    /\ pc[r] = "readlog"
    /\ LET ok == "SUCCESS" \in log[DirOf(r)] IN
          \/ Goto(r, "done") /\ UNCHANGED <<bakruntb, suc_yon>>      \* no list: SSH failed
          \/ /\ ok /\ Catalogued(r)                                  \* the insert is refused
             /\ Goto(r, "error") /\ UNCHANGED <<bakruntb, suc_yon>>
          \/ /\ ok /\ Catalogued(r) => (lvl[r] = "L01" \/ HasLog(bts[r]))
             /\ suc_yon' = [suc_yon EXCEPT ![r] = IF ok THEN "S01" ELSE "S02"]
             /\ bakruntb' = IF ok /\ Catalogued(r)
                            THEN bakruntb \cup {[req |-> r, dir |-> DirOf(r), lvl |-> lvl[r]]}
                            ELSE bakruntb
             /\ Goto(r, "inslog")
    /\ WebOnly /\ UNCHANGED wrklogtb

\* insertLog: a second transaction.
InsertLog(r) ==
    /\ pc[r] = "inslog"
    /\ \/ /\ wrklogtb' = wrklogtb \cup
                {[req |-> r, dir |-> DirOf(r), lvl |-> lvl[r], suc |-> suc_yon[r]]}
          /\ Goto(r, "done")
       \/ Goto(r, "error") /\ UNCHANGED wrklogtb
    /\ WebOnly /\ UNCHANGED <<suc_yon, bakruntb>>

CloseWindow(r) ==
    /\ pc[r] = "polling"
    /\ Goto(r, "done")
    /\ WebOnly /\ UNCHANGED <<suc_yon, tabVars>>

BakRunEndChk(r) == PollEnd(r) \/ PollJob(r) \/ ReadLog(r) \/ InsertLog(r)

-----------------------------------------------------------------------------
Tick ==
    /\ clock < MaxClock
    /\ clock' = clock + 1
    /\ UNCHANGED <<webVars, mapVars, jobVars, fileVars, tabVars, repeats, restarts, histVars>>

\* Quartz keeps its jobs in memory: a restart forgets them, the field and the
\* executions, and breaks off the requests being served.  Files and tables stay.
Restart ==
    /\ restarts < MaxRestart
    /\ restarts' = restarts + 1
    /\ pc' = [r \in Request |-> IF pc[r] \in {"idle", "polling", "done"} THEN pc[r] ELSE "error"]
    /\ svcParamMap' = None
    /\ heap' = [r \in Request |-> NoParams]
    /\ lost' = lost \cup {j.by : j \in jobs}
    /\ jobs' = {}
    /\ exec' = [x \in Exec |-> IF exec[x].stage \in Active
                               THEN [exec[x] EXCEPT !.stage = "dead"] ELSE exec[x]]
    /\ UNCHANGED <<bts, lvl, wrk_dt, exit_flag, suc_yon, fileVars, tabVars, clock, repeats, clash>>

Init ==
    /\ clock = 1 /\ repeats = 0 /\ restarts = 0
    /\ pc = [r \in Request |-> "idle"]
    /\ bts = [r \in Request |-> CHOOSE t \in Target : TRUE]
    /\ lvl = [r \in Request |-> "L01"]
    /\ wrk_dt = [r \in Request |-> 0]
    /\ exit_flag = [r \in Request |-> "0"]
    /\ suc_yon = [r \in Request |-> "S02"]
    /\ svcParamMap = None
    /\ heap = [r \in Request |-> NoParams]
    /\ jobs = {}
    /\ exec = [x \in Exec |-> FreeExec]
    /\ \E old \in SUBSET Target :          \* targets with an earlier full backup, at 0
          LET ran(d) == d[1] \in old /\ d[2] = 0 IN
          /\ log = [d \in Dir |-> IF ran(d) THEN {"START", "SUCCESS", "END"} ELSE {}]
          /\ data = [d \in Dir |-> IF ran(d) THEN Sound(d) ELSE "none"]
          /\ wrklogtb = {[req |-> None, dir |-> <<t, 0>>, lvl |-> "L01", suc |-> "S01"] : t \in old}
          /\ bakruntb = {[req |-> None, dir |-> <<t, 0>>, lvl |-> "L01"] : t \in old}
          /\ last_fullbackup = [t \in Target |-> IF t \in old THEN 0 ELSE None]
          /\ last_backup = last_fullbackup
    /\ clash = {} /\ lost = {}

Next ==
    \/ \E r \in Request : BakRunExe(r) \/ BakRunEndChk(r) \/ CloseWindow(r)
    \/ \E x \in Exec : JobStep(x) \/ \E j \in jobs : Fire(x, j)
    \/ \E j \in jobs : Repeat(j)
    \/ Tick
    \/ Restart

Spec == Init /\ [][Next]_vars

\* Quartz fires what is due and every SSH call of a job returns; nothing is
\* assumed of the browsers, of the clock or of SSH answering usefully.
Fairness ==
    /\ WF_vars(\E x \in Exec : \E j \in jobs : Fire(x, j))
    /\ \A x \in Exec : WF_vars(JobStep(x))
FairSpec == Spec /\ Fairness

-----------------------------------------------------------------------------
(***************************************************************************)
(* Correctness                                                             *)
(***************************************************************************)
WebType ==
    /\ pc \in [Request -> PC]
    /\ bts \in [Request -> Target] /\ lvl \in [Request -> Level] /\ wrk_dt \in [Request -> Stamp]
    /\ exit_flag \in [Request -> {"0", "1"}] /\ suc_yon \in [Request -> {"S01", "S02"}]
MapType == svcParamMap \in Request \cup {None} /\ heap \in [Request -> Params]
JobType ==
    jobs \subseteq [cls : Level, nam : {Nam[t] : t \in Target}, dt : Stamp,
                    map : Request, by : Request, due : BOOLEAN]
ExecType ==
    exec \in [Exec -> [stage : Stage, cls : Level, own : Request \cup {None},
                       run : Request \cup {None}, cmd : Request \cup {None},
                       by : Request \cup {None}]]
FileType ==
    /\ log \in [Dir -> SUBSET Line] /\ data \in [Dir -> Content]
    /\ last_fullbackup \in [Target -> Stamp \cup {None}]
    /\ last_backup \in [Target -> Stamp \cup {None}]
TabType ==
    /\ wrklogtb \subseteq [req : Request \cup {None}, dir : Dir, lvl : Level, suc : {"S01", "S02"}]
    /\ bakruntb \subseteq [req : Request \cup {None}, dir : Dir, lvl : Level]
EnvType ==
    /\ clock \in Stamp /\ repeats \in 0 .. MaxRepeat /\ restarts \in 0 .. MaxRestart
    /\ clash \subseteq Request /\ lost \subseteq Request
TypeOK == WebType /\ MapType /\ JobType /\ ExecType /\ FileType /\ TabType /\ EnvType

\* Requests whose job names, or whose directories, cannot be told apart: the
\* same second and the same bms_nam + bts_nam.
Begun(r)       == wrk_dt[r] # 0
Twins(q, r)    == q # r /\ Begun(q) /\ wrk_dt[q] = wrk_dt[r] /\ Nam[bts[q]] = Nam[bts[r]]
Alone(r)       == ~ \E q \in Request : Twins(q, r)
Undisturbed(r) == r \notin clash /\ Alone(r)
Answered(r)    == pc[r] \in Polls \cup {"done"}
Runs(r)        == {x \in Exec : exec[x].by = r}
Running(x)     == exec[x].stage \in Active

\* A request that was answered with run_result = true has a job, or had an
\* execution, unless another request entered startScheduler meanwhile, used the
\* same names, or the application was restarted (BackupScheduler.svcParamMap).
AnsweredRunIsScheduled ==
    \A r \in Request :
        Answered(r) /\ Undisturbed(r) /\ r \notin lost =>
            Runs(r) # {} \/ \E j \in jobs : j.by = r

\* An execution works with the parameters of the request that registered it,
\* all of them, unless that request met another one inside startScheduler.
RunUsesItsOwnParameters ==
    \A x \in Exec :
        exec[x].stage # "free" /\ exec[x].by \notin clash =>
            exec[x].own = exec[x].by /\ exec[x].cmd = exec[x].by

\* An undisturbed full backup whose backup command exists stays registered only
\* while its trigger is due or one of its executions is still on its way to
\* schedulekill: it is not left behind to run again every day.  (Without the path
\* of mariabackup it is: every firing ends in the NullPointerException of
\* BackupFullExcute before schedulekill, and the job stays for the next day.)
FullJobIsNotLeftBehind ==
    \A j \in jobs :
        j.cls = "L01" /\ j.by \notin clash /\ Runnable(bts[j.by]) =>
            j.due \/ \E x \in Runs(j.by) : Running(x)

\* The result of an undisturbed full backup that fired once is recorded only
\* after that execution has ended and its job is gone (bak_run_endChk looks at
\* the job registry before it reads the log).
RecordedFullRunIsOver ==
    \A row \in wrklogtb :
        row.req # None /\ row.lvl = "L01" =>
            (Undisturbed(row.req) /\ Cardinality(Runs(row.req)) < 2 =>
                /\ \A j \in jobs : j.by # row.req
                /\ \A x \in Runs(row.req) : ~Running(x))

\* A whole-server run the work log calls successful is also offered as a restore
\* point: the row of BAKRUNTB is committed before the row of WRKLOGTB.
LoggedSuccessIsRestorePoint ==
    \A row \in wrklogtb :
        row.suc = "S01" /\ Whole[row.dir[1]] =>
            \E b \in bakruntb : b.req = row.req /\ b.dir = row.dir

\* A full restore point of mysqldump, where the last line of the dump is what is tested,
\* holds everything a restore needs.  The message of SetupController.bak_run_endChk
\* says the backup has been completed.
DumpRestorePointIsComplete ==
    \A b \in bakruntb :
        b.req # None /\ b.lvl = "L01" /\ Avt[b.dir[1]] = "M02" =>
            (Undisturbed(b.req) /\ Cardinality(Runs(b.req)) < 2 => Complete(b.dir))

\* Every undisturbed full job whose backup command exists eventually leaves the
\* scheduler: each path of BackupFullExcute.execute behind the look-up of its
\* parameters, whatever SSH answers, reaches schedulekill.
FullRegistered(r) == r \notin clash /\ Runnable(bts[r]) /\ \E j \in jobs : j.by = r /\ j.cls = "L01"
FullJobEndsEventually ==
    \A r \in Request : FullRegistered(r) ~> ~FullRegistered(r)

=============================================================================
