------------------------ MODULE BackupResult_proof ------------------------
(***************************************************************************)
(* What the results of a backup are worth: for any number of windows,      *)
(* servers, repetitions and restarts, the result of an undisturbed full    *)
(* backup is recorded when the run is over, and a restore point of         *)
(* mysqldump is the complete dump.                                         *)
(*                                                                         *)
(* Jobs, logs and files go by server and second.  A request that has       *)
(* neither a twin nor met another one in startScheduler is the only one to *)
(* write there (WriterInv); its execution keeps the job registered until   *)
(* schedulekill (KeptInv), so a window that finds no job finds no          *)
(* execution either (GoneInv); and the files are those that completeCmd    *)
(* has looked at (SuccessInv, DumpInv).                                    *)
(***************************************************************************)
EXTENDS BackupRun_proof, FiniteSetTheorems

Fired     == {x \in Exec : exec[x].stage # "free"}
Single(r) == \A x, y \in Runs(r) : x = y
\* An undisturbed full backup that fired at most once.
Fine(r)   == Undisturbed(r) /\ Single(r) /\ lvl[r] = "L01"
NoJob(r)  == \A j \in jobs : j.by # r
After     == {"kill", "ended", "dead"}
Dumped(r) == Avt[bts[r]] = "M02"
Logged(r) == "SUCCESS" \in log[DirOf(r)]

FiredInv == IsFiniteSet(Fired)

\* The maps and the executions whose commands are those of a request that met
\* no other one are its own; what a directory holds was logged by a request
\* that names it.
WriterInv ==
    /\ \A m \in Request : heap[m].full # None =>
          PastNew(heap[m].full) /\ (heap[m].full \notin clash => heap[m].full = m)
    /\ \A m \in Request, v \in Engine : heap[m].run[v] # None =>
          PastNew(heap[m].run[v]) /\ (heap[m].run[v] \notin clash => heap[m].run[v] = m)
    /\ \A x \in Fired : exec[x].cls = "L01" /\ exec[x].cmd # None =>
          PastNew(exec[x].cmd) /\ (exec[x].cmd \notin clash => exec[x].by = exec[x].cmd)
    /\ \A x \in Fired : exec[x].cls = "L01" /\ exec[x].run # None =>
          PastNew(exec[x].run) /\ (exec[x].run \notin clash => exec[x].by = exec[x].run)
    /\ \A d \in Dir : d[2] # 0 /\ log[d] # {} => \E o \in Request : Begun(o) /\ DirOf(o) = d

KeptInv ==
    \A x \in Exec : Running(x) /\ Fine(exec[x].by) => ~NoJob(exec[x].by)

GoneInv ==
    \A r \in Request :
        lvl[r] = "L01" /\ r \notin clash /\ pc[r] \in {"readlog", "inslog"} => NoJob(r)

\* A full dump whose success is about to be logged, or is, is complete.
SuccessInv ==
    \A x \in Exec :
        exec[x].stage = "success" /\ Fine(exec[x].by) /\ Dumped(exec[x].by)
            => Complete(DirOf(exec[x].by))
DumpInv ==
    \A r \in Request : Begun(r) /\ Logged(r) /\ Fine(r) /\ Dumped(r) =>
        /\ Complete(DirOf(r))
        /\ \E x \in Runs(r) : exec[x].stage \in After

\* The rows of the two tables.
RowInv ==
    /\ \A row \in wrklogtb : row.req # None =>
          /\ Settled(row.req) /\ row.lvl = lvl[row.req]
          /\ lvl[row.req] = "L01" /\ row.req \notin clash => NoJob(row.req)
    /\ \A b \in bakruntb : b.req # None =>
          /\ Settled(b.req) /\ b.lvl = lvl[b.req] /\ b.dir = DirOf(b.req)
          /\ Logged(b.req)

RInv == FiredInv /\ WriterInv /\ KeptInv /\ GoneInv /\ SuccessInv /\ DumpInv /\ RowInv

USE TargetAssumption, BoundAssumption, NoneAssumption

-----------------------------------------------------------------------------
(***************************************************************************)
(* What no step changes: the run a request asked for, who an execution     *)
(* works for, and the lines of a log.                                      *)
(***************************************************************************)
ExecSame  == \A x \in Fired : /\ exec'[x].stage # "free" /\ exec'[x].cls = exec[x].cls
                              /\ exec'[x].own = exec[x].own /\ exec'[x].cmd = exec[x].cmd
                              /\ exec'[x].run = exec[x].run
                              /\ exec'[x].by = exec[x].by
AskedSame == \A r \in Request : pc[r] # "idle" =>
                 /\ bts'[r] = bts[r] /\ lvl'[r] = lvl[r] /\ wrk_dt'[r] = wrk_dt[r]
                 /\ pc'[r] # "idle"
                 /\ PastNew(r) => PastNew(r)'
                 /\ Settled(r) => Settled(r)'

\* The five kinds of steps.
Quiet == UNCHANGED <<exec, log, data>>
Works(x) == JobStep(x) /\ ~ScheduleKill(x)

LEMMA Kinds ==
    ASSUME [Next]_vars
    PROVE  \/ Quiet
           \/ \E x \in Exec : Works(x) \/ ScheduleKill(x) \/ \E j \in jobs : Fire(x, j)
           \/ Restart
<1>1. ASSUME NEW r \in Request, BakRunExe(r) PROVE Quiet
  BY <1>1 DEF BakRunExe, MakeDir, FindBase, DropOldJob, NewParamMap, PutParams, RegiScheduler,
     Quiet, jobVars, fileVars
<1>2. ASSUME NEW r \in Request, BakRunEndChk(r) \/ CloseWindow(r) PROVE Quiet
  BY <1>2 DEF BakRunEndChk, PollEnd, PollJob, ReadLog, InsertLog, CloseWindow, WebOnly,
     Quiet, jobVars, fileVars
<1>3. ASSUME NEW j \in jobs, Repeat(j) PROVE Quiet
  BY <1>3 DEF Repeat, Quiet, fileVars
<1>4. CASE Tick \/ UNCHANGED vars
  BY <1>4 DEF Tick, Quiet, vars, jobVars, fileVars
<1> QED
  BY <1>1, <1>2, <1>3, <1>4 DEF Next, Works

LEMMA AskedStays == ASSUME IInv, [Next]_vars PROVE AskedSame /\ clash \subseteq clash'
<1> USE DEF AskedSame, PastNew, Settled
<1>0. pc \in [Request -> PC]
  BY DEF IInv, TypeOK, WebType
<1>1. ASSUME NEW q \in Request, NEW p \in PC \ {"idle"}, Goto(q, p), UNCHANGED <<bts, lvl, wrk_dt>>,
             pc[q] \in {"prepare", "check", "new"} \/ p \notin {"prepare", "check", "new"},
             pc[q] \in {"idle"} \cup Prep \/ p \notin Prep
      PROVE  AskedSame
  BY <1>0, <1>1 DEF Goto, Prep, PC
<1>2. ASSUME NEW q \in Request, BakRunExe(q), ~MakeDir(q) PROVE AskedSame
  <2>1. CASE FindBase(q)
    BY <1>1, <2>1 DEF FindBase, PC, Prep
  <2>2. CASE DropOldJob(q)
    BY <1>1, <2>2 DEF DropOldJob, PC, Prep
  <2>3. CASE NewParamMap(q)
    BY <1>1, <2>3 DEF NewParamMap, PC, Prep
  <2>4. CASE PutParams(q)
    BY <1>1, <2>4 DEF PutParams, PC, Prep
  <2>5. CASE RegiScheduler(q)
    BY <1>1, <2>5 DEF RegiScheduler, PC, Prep, Polls
  <2> QED
    BY <1>2, <2>1, <2>2, <2>3, <2>4, <2>5 DEF BakRunExe
<1>3. ASSUME NEW q \in Request, MakeDir(q) PROVE AskedSame
  <2>1. \A o \in Request \ {q} : /\ pc'[o] = pc[o] /\ bts'[o] = bts[o]
                                 /\ lvl'[o] = lvl[o] /\ wrk_dt'[o] = wrk_dt[o]
    BY <1>3 DEF MakeDir, Goto, IInv, TypeOK, WebType
  <2> QED
    BY <1>3, <2>1 DEF MakeDir
<1>4. ASSUME NEW q \in Request, BakRunEndChk(q) \/ CloseWindow(q) PROVE AskedSame
  <2>1. /\ UNCHANGED <<bts, lvl, wrk_dt>> /\ pc[q] \in Polls
        /\ \E p \in (Polls \ {"polling"}) \cup {"done", "error"} : Goto(q, p)
    BY <1>4 DEF BakRunEndChk, PollEnd, PollJob, ReadLog, InsertLog, CloseWindow, WebOnly, Polls
  <2> QED
    BY <1>1, <2>1 DEF PC, Prep, Polls
<1>5. ASSUME UNCHANGED <<pc, bts, lvl, wrk_dt>> PROVE AskedSame
  BY <1>5
<1>6. ASSUME Restart PROVE AskedSame
  BY <1>0, <1>6 DEF Restart, Prep, PC
<1>7. ASSUME NEW x \in Exec, JobStep(x) PROVE UNCHANGED <<webVars, histVars>>
  BY <1>7, StageStep DEF StageChange, JobOnly, ScheduleKill
<1>8. clash \subseteq clash'
  <2>1. ASSUME NEW q \in Request, BakRunExe(q) PROVE clash \subseteq clash'
    BY <2>1 DEF BakRunExe, MakeDir, FindBase, DropOldJob, NewParamMap, PutParams, RegiScheduler, histVars
  <2>2. ASSUME NEW q \in Request, BakRunEndChk(q) \/ CloseWindow(q) PROVE clash' = clash
    BY <2>2 DEF BakRunEndChk, PollEnd, PollJob, ReadLog, InsertLog, CloseWindow, WebOnly, histVars
  <2> QED
    BY <1>7, <2>1, <2>2 DEF Next, Fire, Repeat, Tick, Restart, vars, histVars
<1> QED
  BY <1>2, <1>3, <1>4, <1>5, <1>6, <1>7, <1>8 DEF Next, Fire, Repeat, Tick, vars, webVars

LEMMA ExecStays == ASSUME IInv, [Next]_vars PROVE ExecSame
<1> USE DEF ExecSame, Fired
<1>0. exec \in [Exec -> [stage : Stage, cls : Level, own : Request \cup {None},
                         run : Request \cup {None}, cmd : Request \cup {None},
                         by : Request \cup {None}]]
  BY DEF IInv, TypeOK, ExecType
<1>1. CASE Quiet
  BY <1>1 DEF Quiet
<1>2. ASSUME NEW x \in Exec, Works(x) \/ ScheduleKill(x) PROVE ExecSame
  <2>1. \E s \in Stage \ {"free"} : exec' = [exec EXCEPT ![x].stage = s]
    BY <1>2, StageStep DEF Works, StageChange, ScheduleKill, Step, Stage, Active, Full, Incre
  <2> QED
    BY <1>0, <2>1
<1>3. ASSUME NEW x \in Exec, NEW j \in jobs, Fire(x, j) PROVE ExecSame
  <2>1. exec[x].stage = "free" /\ \A y \in Exec \ {x} : exec'[y] = exec[y]
    BY <1>0, <1>3 DEF Fire
  <2> QED
    BY <2>1
<1>4. CASE Restart
  BY <1>0, <1>4 DEF Restart
<1> QED
  BY <1>1, <1>2, <1>3, <1>4, Kinds

LEMMA FiredStep == ASSUME IInv, FiredInv, [Next]_vars PROVE FiredInv'
<1>0. exec \in [Exec -> [stage : Stage, cls : Level, own : Request \cup {None},
                         run : Request \cup {None}, cmd : Request \cup {None},
                         by : Request \cup {None}]]
  BY DEF IInv, TypeOK, ExecType
<1>1. CASE Quiet
  BY <1>1 DEF Quiet, FiredInv, Fired
<1>2. ASSUME NEW x \in Exec, \A y \in Exec \ {x} : exec'[y] = exec[y] PROVE FiredInv'
  <2>1. Fired' \in SUBSET (Fired \cup {x})
    BY <1>2 DEF Fired
  <2>2. IsFiniteSet(Fired \cup {x})
    BY FS_AddElement DEF FiredInv
  <2>3. IsFiniteSet(Fired')
    BY <2>1, <2>2, FS_Subset
  <2> QED
    BY <2>3 DEF FiredInv
<1>3. ASSUME NEW x \in Exec, Works(x) \/ ScheduleKill(x) \/ \E j \in jobs : Fire(x, j)
      PROVE  \A y \in Exec \ {x} : exec'[y] = exec[y]
  BY <1>0, <1>3, StageStep DEF Works, StageChange, ScheduleKill, Step, Fire
<1>4. CASE Restart
  <2>1. Fired' \in SUBSET Fired
    BY <1>0, <1>4 DEF Restart, Fired, Active, Full, Incre
  <2>2. IsFiniteSet(Fired')
    BY <2>1, FS_Subset DEF FiredInv
  <2> QED
    BY <2>2 DEF FiredInv
<1> QED
  BY <1>1, <1>2, <1>3, <1>4, Kinds

\* Fewer than two executions are at most one.
LEMMA FewIsSingle ==
    ASSUME IInv, FiredInv, NEW r \in Request, Cardinality(Runs(r)) < 2
    PROVE  Single(r)
<1> SUFFICES ASSUME NEW x \in Runs(r), NEW y \in Runs(r), x # y PROVE FALSE
  BY DEF Single
<1>1. Runs(r) \in SUBSET Fired
  BY DEF Runs, Fired, IInv, ExecInv
<1>2. IsFiniteSet(Runs(r))
  BY <1>1, FS_Subset DEF FiredInv
<1>3. IsFiniteSet({x}) /\ Cardinality({x}) = 1
  BY FS_Singleton
<1>4. IsFiniteSet({x} \cup {y}) /\ Cardinality({x} \cup {y}) = 2
  BY <1>3, FS_AddElement
<1>5. {x} \cup {y} \in SUBSET Runs(r)
  OBVIOUS
<1>6. Cardinality({x} \cup {y}) <= Cardinality(Runs(r)) /\ Cardinality(Runs(r)) \in Nat
  BY <1>2, <1>5, FS_Subset, FS_CardinalityType
<1> QED
  BY <1>4, <1>6

\* A request that is undisturbed after a step was so before it.
LEMMA FineBefore ==
    ASSUME IInv, [Next]_vars, NEW r \in Request, Begun(r)
    PROVE  /\ Begun(r)' /\ DirOf(r)' = DirOf(r) /\ bts'[r] = bts[r] /\ lvl'[r] = lvl[r]
           /\ Undisturbed(r)' => Undisturbed(r)
           /\ Fine(r)' => Fine(r)
<1>1. \A q \in Request : Begun(q) => /\ pc[q] # "idle" /\ bts'[q] = bts[q]
                                     /\ lvl'[q] = lvl[q] /\ wrk_dt'[q] = wrk_dt[q]
  BY AskedStays DEF AskedSame, IInv, StampInv
<1>2. Begun(r)' /\ DirOf(r)' = DirOf(r) /\ bts'[r] = bts[r] /\ lvl'[r] = lvl[r]
  BY <1>1 DEF Begun, DirOf
<1>3. Undisturbed(r)' => Undisturbed(r)
  BY <1>1, AskedStays DEF Undisturbed, Alone, Twins, Begun
<1>4. Single(r)' => Single(r)
  <2>1. Runs(r) \subseteq Runs(r)'
    BY ExecStays, NoneAssumption DEF ExecSame, Fired, Runs, IInv, ExecInv
  <2> QED
    BY <2>1 DEF Single
<1> QED
  BY <1>2, <1>3, <1>4 DEF Fine

-----------------------------------------------------------------------------
(***************************************************************************)
(* Who writes where.                                                       *)
(***************************************************************************)

\* What one execution does to the files: it appends to its own log, a success
\* only from the stage of that name; and the data it changes are those it
\* backs up.
LogTouched(x) ==
    \A d \in Dir : \/ log'[d] = log[d]
                   \/ /\ d = LogDir(x) /\ log[d] \subseteq log'[d]
                      /\ "SUCCESS" \in log'[d] /\ "SUCCESS" \notin log[d] =>
                            /\ exec[x].stage = "success" /\ data' = data
                            /\ exec[x].cls = "L01" => exec'[x].stage = "kill"
DataTouched(x) ==
    \A d \in Dir : \/ data'[d] = data[d]
                   \/ /\ exec[x].cls = "L01" /\ d = DirOf(exec[x].run) /\ exec[x].stage = "run"
                   \/ /\ exec[x].cls = "L01" /\ d = DataDir(x) /\ exec[x].stage = "apply"
                   \/ /\ exec[x].cls = "L02" /\ d = LogDir(x)  /\ exec[x].stage = "copy"

LEMMA Touched ==
    ASSUME IInv, NEW x \in Exec, Works(x)
    PROVE  LogTouched(x) /\ DataTouched(x) /\ exec[x].stage \in Active \ {"kill"}
<1> USE DEF LogTouched, DataTouched, Active, Full, Incre, Works
<1>0. /\ log \in [Dir -> SUBSET Line] /\ data \in [Dir -> Content]
      /\ exec \in [Exec -> [stage : Stage, cls : Level, own : Request \cup {None},
                            run : Request \cup {None}, cmd : Request \cup {None},
                            by : Request \cup {None}]]
  BY DEF IInv, TypeOK, FileType, ExecType
<1>1. CASE StartLog(x)
  BY <1>0, <1>1 DEF StartLog, Append
<1>2. CASE LogFail(x)
  BY <1>0, <1>2 DEF LogFail, Append
<1>3. CASE LogSuccess(x)
  BY <1>0, <1>3 DEF LogSuccess, Step, AuthFails
<1>4. CASE RunBackup(x)
  BY <1>0, <1>4 DEF RunBackup, At
<1>5. CASE ApplyLog(x)
  BY <1>0, <1>5 DEF ApplyLog, At
<1>6. CASE CopyBinlogs(x)
  BY <1>0, <1>6 DEF CopyBinlogs, At
<1>7. CASE RpmCheck(x) \/ CompleteCheck(x) \/ ErrorLogCheck(x) \/ TailIndex(x) \/ NextBin(x)
  BY <1>7 DEF RpmCheck, CompleteCheck, ErrorLogCheck, TailIndex, NextBin, fileVars, At
<1> QED
  BY <1>1, <1>2, <1>3, <1>4, <1>5, <1>6, <1>7 DEF JobStep

\* The directories of an undisturbed request belong to its executions.
LEMMA OwnDir ==
    ASSUME IInv, WriterInv, NEW r \in Request, Begun(r), Undisturbed(r), NEW x \in Fired
    PROVE  /\ LogDir(x) = DirOf(r) => exec[x].by = r
           /\ exec[x].cls = "L01" /\ exec[x].cmd # None /\ DataDir(x) = DirOf(r) => exec[x].by = r
           /\ exec[x].cls = "L01" /\ exec[x].run # None /\ DirOf(exec[x].run) = DirOf(r)
                 => exec[x].by = r
<1>1. ASSUME NEW q \in Request, PastNew(q), DirOf(q) = DirOf(r) PROVE q = r
  <2>1. Begun(q)
    BY <1>1 DEF PastNew, IInv, StampInv
  <2> QED
    BY <1>1, <2>1 DEF DirOf, Undisturbed, Alone, Twins
<1>2. exec[x].own \in Request /\ PastNew(exec[x].own) /\ (exec[x].own \notin clash => exec[x].by = exec[x].own)
  BY DEF Fired, IInv, ExecInv, TypeOK, ExecType
<1>3. exec[x].cls = "L01" /\ exec[x].cmd # None =>
         /\ exec[x].cmd \in Request /\ PastNew(exec[x].cmd)
         /\ (exec[x].cmd \notin clash => exec[x].by = exec[x].cmd)
  BY DEF WriterInv, Fired, IInv, TypeOK, ExecType
<1>4. exec[x].cls = "L01" /\ exec[x].run # None =>
         /\ exec[x].run \in Request /\ PastNew(exec[x].run)
         /\ (exec[x].run \notin clash => exec[x].by = exec[x].run)
  BY DEF WriterInv, Fired, IInv, TypeOK, ExecType
<1> QED
  BY <1>1, <1>2, <1>3, <1>4 DEF LogDir, DataDir, Undisturbed

LEMMA WriterStep == ASSUME IInv, WriterInv, [Next]_vars PROVE WriterInv'
<1> USE DEF PastNew
<1>0. /\ exec \in [Exec -> [stage : Stage, cls : Level, own : Request \cup {None},
                            run : Request \cup {None}, cmd : Request \cup {None},
                            by : Request \cup {None}]]
      /\ heap \in [Request -> Params] /\ wrk_dt \in [Request -> Stamp] /\ bts \in [Request -> Target]
  BY DEF IInv, TypeOK, ExecType, MapType, WebType
<1>1. \A q \in Request : PastNew(q) => PastNew(q)' /\ Begun(q)
  BY AskedStays DEF AskedSame, IInv, StampInv, PastNew
<1>2. clash \subseteq clash'
  BY AskedStays
<1>3. ASSUME NEW m \in Request, heap'[m].full # None
      PROVE  PastNew(heap[m].full)' /\ (heap'[m].full \notin clash' => heap'[m].full = m)
  <2>1. CASE heap'[m] = heap[m]
    <3>1. heap[m].full \in Request
      BY <1>0, <1>3, <2>1 DEF Params
    <3> QED
      BY <1>1, <1>2, <1>3, <2>1, <3>1 DEF WriterInv
  <2>2. ASSUME NEW q \in Request, NewParamMap(q) PROVE heap'[m] = heap[m]
    BY <1>0, <1>3, <2>2, NoneAssumption DEF NewParamMap, NoParams
  <2>3. ASSUME NEW q \in Request, PutParams(q), heap'[m] # heap[m]
        PROVE  PastNew(heap[m].full)' /\ (heap'[m].full \notin clash' => heap'[m].full = m)
    <3>1. /\ m = svcParamMap /\ clash' = clash /\ pc[q] = "put" /\ pc'[q] = "regi"
          /\ heap'[m].full = IF lvl[q] = "L01" THEN q ELSE heap[m].full
      BY <1>0, <2>3 DEF PutParams, Goto, IInv, TypeOK, WebType, histVars
    <3>2. m = q \/ (q \in clash /\ m \in clash)
      BY <3>1 DEF IInv, FieldInv, Window
    <3>3. CASE lvl[q] = "L01"
      BY <3>1, <3>2, <3>3 DEF PastNew
    <3>4. CASE lvl[q] # "L01"
      <4>1. heap[m].full \in Request
        BY <1>0, <1>3, <3>1, <3>4 DEF Params
      <4> QED
        BY <1>1, <1>3, <3>1, <3>4, <4>1 DEF WriterInv
    <3> QED
      BY <3>3, <3>4
  <2>4. ASSUME NEW q \in Request, BakRunExe(q), ~NewParamMap(q), ~PutParams(q) PROVE heap' = heap
    BY <2>4 DEF BakRunExe, MakeDir, FindBase, DropOldJob, RegiScheduler, mapVars
  <2>5. ASSUME NEW q \in Request, BakRunEndChk(q) \/ CloseWindow(q) PROVE heap' = heap
    BY <2>5 DEF BakRunEndChk, PollEnd, PollJob, ReadLog, InsertLog, CloseWindow, WebOnly, mapVars
  <2>6. ASSUME NEW x \in Exec, JobStep(x) PROVE heap' = heap
    BY <2>6, StageStep DEF StageChange, JobOnly, ScheduleKill, mapVars
  <2>7. ~Restart
    BY <1>3, NoneAssumption DEF Restart, NoParams
  <2> QED
    BY <2>1, <2>2, <2>3, <2>4, <2>5, <2>6, <2>7 DEF Next, Fire, Repeat, Tick, vars, mapVars
<1>6. ASSUME NEW m \in Request, NEW v \in Engine, heap'[m].run[v] # None
      PROVE  PastNew(heap[m].run[v])' /\ (heap'[m].run[v] \notin clash' => heap'[m].run[v] = m)
  <2>1. CASE heap'[m].run[v] = heap[m].run[v]
    <3>1. heap[m].run[v] \in Request
      BY <1>0, <1>6, <2>1 DEF Params
    <3> QED
      BY <1>1, <1>2, <1>6, <2>1, <3>1 DEF WriterInv
  <2>2. ASSUME NEW q \in Request, NewParamMap(q) PROVE heap'[m] = heap[m]
    BY <1>0, <1>6, <2>2, NoneAssumption DEF NewParamMap, NoParams
  <2>3. ASSUME NEW q \in Request, PutParams(q), heap'[m].run[v] # heap[m].run[v]
        PROVE  PastNew(heap[m].run[v])' /\ (heap'[m].run[v] \notin clash' => heap'[m].run[v] = m)
    <3>1. /\ m = svcParamMap /\ clash' = clash /\ pc[q] = "put" /\ pc'[q] = "regi"
      BY <1>0, <2>3 DEF PutParams, Goto, IInv, TypeOK, WebType, histVars
    <3>2. m = q \/ (q \in clash /\ m \in clash)
      BY <3>1 DEF IInv, FieldInv, Window
    <3>3. heap'[m].run = [heap[m].run EXCEPT ![Avt[bts[q]]] = q]
      BY <1>0, <2>3, <3>1 DEF PutParams
    <3>4. heap[m].run \in [Engine -> Request \cup {None}]
      BY <1>0 DEF Params
    <3>5. heap'[m].run[v] = q
      BY <2>3, <3>3, <3>4
    <3> QED
      BY <3>1, <3>2, <3>5 DEF PastNew
  <2>4. ASSUME NEW q \in Request, BakRunExe(q), ~NewParamMap(q), ~PutParams(q) PROVE heap' = heap
    BY <2>4 DEF BakRunExe, MakeDir, FindBase, DropOldJob, RegiScheduler, mapVars
  <2>5. ASSUME NEW q \in Request, BakRunEndChk(q) \/ CloseWindow(q) PROVE heap' = heap
    BY <2>5 DEF BakRunEndChk, PollEnd, PollJob, ReadLog, InsertLog, CloseWindow, WebOnly, mapVars
  <2>6. ASSUME NEW x \in Exec, JobStep(x) PROVE heap' = heap
    BY <2>6, StageStep DEF StageChange, JobOnly, ScheduleKill, mapVars
  <2>7. ~Restart
    BY <1>6, NoneAssumption DEF Restart, NoParams
  <2> QED
    BY <2>1, <2>2, <2>3, <2>4, <2>5, <2>6, <2>7 DEF Next, Fire, Repeat, Tick, vars, mapVars
<1>7. ASSUME NEW x \in Exec
      PROVE  x \in Fired \/ x \notin Fired' \/ \E j \in jobs : Fire(x, j)
  <2>1. CASE Quiet
    BY <2>1 DEF Quiet, Fired
  <2>2. ASSUME NEW y \in Exec, Works(y) \/ ScheduleKill(y) PROVE x \in Fired \/ x \notin Fired'
    BY <1>0, <2>2, StageStep DEF Works, StageChange, ScheduleKill, Step, Fired, Active, Full, Incre
  <2>3. ASSUME NEW y \in Exec, NEW j \in jobs, Fire(y, j), y # x PROVE x \in Fired \/ x \notin Fired'
    BY <1>0, <2>3 DEF Fire, Fired
  <2>4. CASE Restart
    BY <1>0, <2>4 DEF Restart, Fired, Active, Full, Incre
  <2> QED
    BY <2>1, <2>2, <2>3, <2>4, Kinds
<1>8. ASSUME NEW x \in Fired', exec'[x].cls = "L01", exec'[x].run # None
      PROVE  PastNew(exec[x].run)' /\ (exec'[x].run \notin clash' => exec'[x].by = exec'[x].run)
  <2>1. CASE x \in Fired
    <3>1. exec'[x].cls = exec[x].cls /\ exec'[x].run = exec[x].run /\ exec'[x].by = exec[x].by
      BY <2>1, ExecStays DEF ExecSame
    <3>2. exec[x].run \in Request
      BY <1>0, <1>8, <3>1 DEF Fired
    <3> QED
      BY <1>1, <1>2, <1>8, <2>1, <3>1, <3>2 DEF WriterInv
  <2>2. ASSUME NEW j \in jobs, Fire(x, j)
        PROVE  PastNew(exec[x].run)' /\ (exec'[x].run \notin clash' => exec'[x].by = exec'[x].run)
    <3>1. /\ exec'[x].cls = j.cls /\ exec'[x].by = j.by /\ clash' = clash
          /\ exec'[x].run = RunCmd(heap[j.map])
      BY <1>0, <2>2 DEF Fire, Fired, histVars
    <3>2. j.map \in Request /\ (j.map \notin clash => j.by = j.map) /\ heap[j.map].own # None
      BY DEF IInv, JobInv, TypeOK, JobType
    <3>3. PICK v \in Engine : exec'[x].run = heap[j.map].run[v]
      BY <1>0, <3>1, <3>2 DEF RunCmd, Params, Engine
    <3>4. heap[j.map].run[v] \in Request
      BY <1>0, <1>8, <3>2, <3>3 DEF Params
    <3> QED
      BY <1>1, <1>8, <3>1, <3>2, <3>3, <3>4 DEF WriterInv
  <2> QED
    BY <1>7, <2>1, <2>2 DEF Fired
<1>4. ASSUME NEW x \in Fired', exec'[x].cls = "L01", exec'[x].cmd # None
      PROVE  PastNew(exec[x].cmd)' /\ (exec'[x].cmd \notin clash' => exec'[x].by = exec'[x].cmd)
  <2>1. CASE x \in Fired
    <3>1. exec'[x].cls = exec[x].cls /\ exec'[x].cmd = exec[x].cmd /\ exec'[x].by = exec[x].by
      BY <2>1, ExecStays DEF ExecSame
    <3>2. exec[x].cmd \in Request
      BY <1>0, <1>4, <3>1 DEF Fired
    <3> QED
      BY <1>1, <1>2, <1>4, <2>1, <3>1, <3>2 DEF WriterInv
  <2>2. ASSUME NEW j \in jobs, Fire(x, j)
        PROVE  PastNew(exec[x].cmd)' /\ (exec'[x].cmd \notin clash' => exec'[x].by = exec'[x].cmd)
    <3>1. /\ exec'[x].cls = j.cls /\ exec'[x].by = j.by /\ clash' = clash
          /\ exec'[x].cmd = IF j.cls = "L01" THEN heap[j.map].full ELSE heap[j.map].incre
      BY <1>0, <2>2 DEF Fire, Fired, histVars
    <3>2. j.map \in Request /\ (j.map \notin clash => j.by = j.map)
      BY DEF IInv, JobInv, TypeOK, JobType
    <3>3. heap[j.map].full \in Request /\ exec'[x].cmd = heap[j.map].full
      BY <1>0, <1>4, <3>1, <3>2 DEF Params
    <3> QED
      BY <1>1, <1>4, <3>1, <3>2, <3>3 DEF WriterInv
  <2> QED
    BY <1>7, <2>1, <2>2 DEF Fired
<1>5. ASSUME NEW d \in Dir, d[2] # 0, log'[d] # {}
      PROVE  \E o \in Request : Begun(o)' /\ DirOf(o)' = d
  <2>1. ASSUME NEW o \in Request, Begun(o), DirOf(o) = d PROVE \E q \in Request : Begun(q)' /\ DirOf(q)' = d
    BY <2>1, FineBefore
  <2>2. CASE log[d] # {}
    BY <1>5, <2>1, <2>2 DEF WriterInv
  <2>3. ASSUME NEW x \in Exec, Works(x), log'[d] # log[d] PROVE \E o \in Request : Begun(o) /\ DirOf(o) = d
    <3>1. d = LogDir(x) /\ exec[x].stage \in Active
      BY <2>3, Touched DEF LogTouched
    <3>2. exec[x].own \in Request /\ PastNew(exec[x].own)
      BY <1>0, <3>1 DEF IInv, ExecInv, Active, Full, Incre
    <3> QED
      BY <1>1, <3>1, <3>2 DEF LogDir
  <2>4. (log' # log) => \E x \in Exec : Works(x)
    BY Kinds DEF Quiet, ScheduleKill, Fire, Restart, fileVars
  <2> QED
    BY <1>5, <2>1, <2>2, <2>3, <2>4
<1> QED
  BY <1>3, <1>4, <1>5, <1>6, <1>8 DEF WriterInv, Fired

-----------------------------------------------------------------------------
(***************************************************************************)
(* The job of an undisturbed request.                                      *)
(***************************************************************************)

\* It is removed by a restart, or by schedulekill of an execution of the same
\* request: no other request knows its name.
LEMMA JobStays ==
    ASSUME IInv, [Next]_vars, NEW r \in Request, Undisturbed(r), Settled(r), ~NoJob(r)
    PROVE  \/ ~NoJob(r)'
           \/ \E x \in Exec : ScheduleKill(x) /\ exec[x].by = r
           \/ Restart
<1> PICK j \in jobs : j.by = r
  BY DEF NoJob
<1>1. j.nam = Nam[bts[r]] /\ j.dt = wrk_dt[r] /\ r \notin clash /\ Begun(r)
  BY DEF Undisturbed, IInv, JobInv, StampInv, Settled
<1>2. ASSUME NEW q \in Request, Begun(q), NEW c, j \in Named(c, q) PROVE q = r
  BY <1>1, <1>2 DEF Named, Undisturbed, Alone, Twins, Begun
<1>3. ASSUME j \in jobs' PROVE ~NoJob(r)'
  BY <1>3 DEF NoJob
<1>4. ASSUME NEW q \in Request, BakRunExe(q) PROVE j \in jobs'
  <2>1. CASE DropOldJob(q)
    <3>1. q # r /\ Begun(q) /\ jobs' = jobs \ Named(lvl[q], q)
      BY <2>1 DEF DropOldJob, Settled, Prep, IInv, StampInv
    <3> QED
      BY <1>2, <3>1
  <2>2. CASE RegiScheduler(q)
    BY <2>2 DEF RegiScheduler
  <2> QED
    BY <1>4, <2>1, <2>2 DEF BakRunExe, MakeDir, FindBase, NewParamMap, PutParams, jobVars
<1>5. ASSUME NEW q \in Request, BakRunEndChk(q) \/ CloseWindow(q) PROVE jobs' = jobs
  BY <1>5 DEF BakRunEndChk, PollEnd, PollJob, ReadLog, InsertLog, CloseWindow, WebOnly, jobVars
<1>6. ASSUME NEW x \in Exec, ScheduleKill(x), exec[x].by # r PROVE j \in jobs'
  <2>1. /\ exec[x].own \in Request /\ PastNew(exec[x].own)
        /\ exec[x].own \notin clash => exec[x].by = exec[x].own
        /\ jobs' = jobs \ Named(exec[x].cls, exec[x].own)
    BY <1>6 DEF ScheduleKill, IInv, ExecInv, TypeOK, ExecType
  <2>2. Begun(exec[x].own) /\ exec[x].own # r
    BY <1>1, <1>6, <2>1 DEF IInv, StampInv, PastNew
  <2> QED
    BY <1>2, <2>1, <2>2
<1>7. ASSUME NEW x \in Exec, Works(x) PROVE jobs' = jobs
  BY <1>7, StageStep DEF Works, StageChange, JobOnly
<1>8. ASSUME NEW i \in jobs, NEW v \in BOOLEAN, jobs' = (jobs \ {i}) \cup {[i EXCEPT !.due = v]}
      PROVE  ~NoJob(r)'
  <2>1. [i EXCEPT !.due = v].by = i.by
    BY DEF IInv, TypeOK, JobType
  <2> QED
    BY <1>8, <2>1 DEF NoJob
<1>9. CASE Tick \/ UNCHANGED vars
  BY <1>3, <1>9 DEF Tick, vars, jobVars
<1>10. ASSUME NEW i \in jobs, Repeat(i) PROVE ~NoJob(r)'
  BY <1>8, <1>10 DEF Repeat
<1>11. ASSUME NEW x \in Exec, NEW i \in jobs, Fire(x, i) PROVE ~NoJob(r)'
  BY <1>8, <1>11 DEF Fire
<1> QED
  BY <1>3, <1>4, <1>5, <1>6, <1>7, <1>9, <1>10, <1>11 DEF Next, Works

\* A request without a job gets one only while it registers.
LEMMA NoJobStays ==
    ASSUME IInv, [Next]_vars, NEW r \in Request, NoJob(r), pc[r] # "regi"
    PROVE  NoJob(r)'
<1> USE DEF NoJob
<1>1. CASE jobs' \subseteq jobs
  BY <1>1
<1>2. ASSUME NEW q \in Request, BakRunExe(q) PROVE NoJob(r)'
  <2>1. CASE RegiScheduler(q)
    <3>1. jobs' \subseteq jobs \cup {NewJob(q, heap[svcParamMap])} /\ q # r
      BY <2>1 DEF RegiScheduler
    <3>2. NewJob(q, heap[svcParamMap]).by = q
      BY DEF NewJob
    <3> QED
      BY <3>1, <3>2
  <2> QED
    BY <1>1, <1>2, <2>1 DEF BakRunExe, MakeDir, FindBase, DropOldJob, NewParamMap, PutParams, jobVars
<1>3. ASSUME NEW q \in Request, BakRunEndChk(q) \/ CloseWindow(q) PROVE jobs' = jobs
  BY <1>3 DEF BakRunEndChk, PollEnd, PollJob, ReadLog, InsertLog, CloseWindow, WebOnly, jobVars
<1>4. ASSUME NEW x \in Exec, JobStep(x) PROVE jobs' \subseteq jobs
  BY <1>4, StageStep DEF StageChange, JobOnly, ScheduleKill
<1>5. ASSUME NEW i \in jobs, NEW v \in BOOLEAN, jobs' = (jobs \ {i}) \cup {[i EXCEPT !.due = v]}
      PROVE  NoJob(r)'
  <2>1. [i EXCEPT !.due = v].by = i.by
    BY DEF IInv, TypeOK, JobType
  <2> QED
    BY <1>5, <2>1
<1>6. ASSUME NEW i \in jobs, Repeat(i) PROVE NoJob(r)'
  BY <1>5, <1>6 DEF Repeat
<1>7. ASSUME NEW x \in Exec, NEW i \in jobs, Fire(x, i) PROVE NoJob(r)'
  BY <1>5, <1>7 DEF Fire
<1> QED
  BY <1>1, <1>2, <1>3, <1>4, <1>6, <1>7 DEF Next, Tick, Restart, vars, jobVars

LEMMA KeptStep == ASSUME IInv, KeptInv, [Next]_vars PROVE KeptInv'
<1> SUFFICES ASSUME NEW x \in Exec, exec'[x].stage \in Active,
                    NEW r \in Request, exec'[x].by = r, Fine(r)', NoJob(r)'
             PROVE  FALSE
  <2>1. \A x \in Exec : exec'[x].stage \in Active => exec'[x].by \in Request
    BY NextInv DEF IInv, ExecInv, TypeOK, ExecType, Active, Full, Incre
  <2> QED
    BY <2>1 DEF KeptInv, Running, Fine, Undisturbed, Alone, Twins, Begun, Single, Runs, NoJob
<1>0. exec \in [Exec -> [stage : Stage, cls : Level, own : Request \cup {None},
                         run : Request \cup {None}, cmd : Request \cup {None},
                         by : Request \cup {None}]]
  BY DEF IInv, TypeOK, ExecType
<1>1. ASSUME NEW j \in jobs, Fire(x, j) PROVE FALSE
  <2>1. /\ j.by = r /\ [j EXCEPT !.due = FALSE].by = j.by
        /\ [j EXCEPT !.due = FALSE] \in jobs'
    BY <1>0, <1>1 DEF Fire, IInv, TypeOK, JobType
  <2> QED
    BY <2>1 DEF NoJob
<1>2. ASSUME exec[x].stage \in Active, exec[x].by = r PROVE FALSE
  <2>1. Settled(r) /\ Begun(r)
    BY <1>2 DEF IInv, ExecInv, StampInv, Settled, Active, Full, Incre
  <2>2. Fine(r)
    BY <2>1, FineBefore
  <2>3. ~NoJob(r)
    BY <1>2, <2>2 DEF KeptInv, Running
  <2>4. ASSUME NEW y \in Exec, ScheduleKill(y), exec[y].by = r PROVE FALSE
    <3>1. y = x
      BY <1>2, <2>2, <2>4 DEF Fine, Single, Runs
    <3> QED
      BY <1>0, <2>4, <3>1 DEF ScheduleKill, Step, Active, Full, Incre
  <2>5. ~Restart
    BY <1>0, <1>2 DEF Restart, Active, Full, Incre
  <2> QED
    BY <2>1, <2>2, <2>3, <2>4, <2>5, JobStays DEF Fine
<1>3. (exec[x].stage \in Active /\ exec[x].by = r) \/ \E j \in jobs : Fire(x, j)
  <2>1. CASE Quiet
    BY <2>1 DEF Quiet
  <2>2. ASSUME NEW y \in Exec, Works(y) \/ ScheduleKill(y) PROVE exec[x].stage \in Active /\ exec[x].by = r
    <3>1. exec[y].stage \in Active /\ \E s \in Stage : exec' = [exec EXCEPT ![y].stage = s]
      BY <2>2, StageStep DEF Works, StageChange, ScheduleKill, Step, Stage, Active, Full, Incre
    <3> QED
      BY <1>0, <3>1
  <2>3. ASSUME NEW y \in Exec, NEW j \in jobs, Fire(y, j), y # x PROVE exec[x].stage \in Active /\ exec[x].by = r
    BY <1>0, <2>3 DEF Fire
  <2>4. CASE Restart
    BY <1>0, <2>4 DEF Restart, Active, Full, Incre
  <2> QED
    BY <2>1, <2>2, <2>3, <2>4, Kinds
<1> QED
  BY <1>1, <1>2, <1>3

-----------------------------------------------------------------------------
(***************************************************************************)
(* What a window reads and records.                                        *)
(***************************************************************************)
LEMMA LoggedStays ==
    ASSUME IInv, [Next]_vars, NEW r \in Request, Begun(r), Logged(r)
    PROVE  Logged(r)'
<1>1. DirOf(r) \in Dir /\ DirOf(r)' = DirOf(r)
  BY FineBefore DEF DirOf, Dir, IInv, TypeOK, WebType
<1>2. log[DirOf(r)] \subseteq log'[DirOf(r)]
  <2>1. ASSUME NEW x \in Exec, Works(x) PROVE log[DirOf(r)] \subseteq log'[DirOf(r)]
    BY <1>1, <2>1, Touched DEF LogTouched
  <2> QED
    BY <2>1, Kinds DEF Quiet, ScheduleKill, Fire, Restart, fileVars
<1> QED
  BY <1>1, <1>2 DEF Logged

\* A window goes to read a log only when it has found no full job of its name.
LEMMA GoneStep == ASSUME IInv, GoneInv, [Next]_vars PROVE GoneInv'
<1> SUFFICES ASSUME NEW r \in Request, lvl'[r] = "L01", r \notin clash', pc'[r] \in {"readlog", "inslog"}
             PROVE  NoJob(r)'
  BY DEF GoneInv
<1>0. pc \in [Request -> PC]
  BY DEF IInv, TypeOK, WebType
<1>1. CASE pc[r] \in {"readlog", "inslog"}
  <2>1. lvl[r] = "L01" /\ r \notin clash
    BY <1>1, AskedStays DEF AskedSame
  <2> QED
    BY <1>1, <2>1, NoJobStays DEF GoneInv
<1>2. CASE PollJob(r)
  <2>1. pc[r] = "endseen" /\ lvl[r] = "L01" /\ r \notin clash /\ Named("L01", r) = {}
    BY <1>0, <1>2 DEF PollJob, Goto, WebOnly, histVars
  <2>2. NoJob(r)
    <3> SUFFICES ASSUME NEW j \in jobs, j.by = r PROVE FALSE
      BY DEF NoJob
    <3>1. j.cls = "L01" /\ j.nam = Nam[bts[r]] /\ j.dt = wrk_dt[r]
      BY <2>1 DEF IInv, JobInv
    <3> QED
      BY <2>1, <3>1 DEF Named
  <2> QED
    BY <2>1, <2>2, NoJobStays
<1>3. pc[r] \in {"readlog", "inslog"} \/ PollJob(r)
  <2>1. CASE pc'[r] = pc[r]
    BY <2>1
  <2>2. ASSUME NEW q \in Request, BakRunExe(q) PROVE pc'[r] = pc[r]
    BY <1>0, <2>2 DEF BakRunExe, MakeDir, FindBase, DropOldJob, NewParamMap, PutParams, RegiScheduler, Goto
  <2>3. ASSUME NEW q \in Request, BakRunEndChk(q) \/ CloseWindow(q), pc'[r] # pc[r]
        PROVE  pc[r] \in {"readlog", "inslog"} \/ PollJob(r)
    <3>1. q = r
      BY <1>0, <2>3 DEF BakRunEndChk, PollEnd, PollJob, ReadLog, InsertLog, CloseWindow, Goto
    <3> QED
      BY <1>0, <2>3, <3>1 DEF BakRunEndChk, PollEnd, ReadLog, InsertLog, CloseWindow, Goto
  <2>4. ASSUME NEW x \in Exec, JobStep(x) PROVE pc' = pc
    BY <2>4, StageStep DEF StageChange, JobOnly, ScheduleKill, webVars
  <2>5. CASE Restart
    BY <2>5 DEF Restart
  <2> QED
    BY <2>1, <2>2, <2>3, <2>4, <2>5 DEF Next, Fire, Repeat, Tick, vars, webVars
<1> QED
  BY <1>1, <1>2, <1>3

\* Where the rows come from.
LEMMA NewRows ==
    ASSUME [Next]_vars
    PROVE  /\ \A row \in wrklogtb' \ wrklogtb : \E q \in Request :
                 /\ pc[q] = "inslog"
                 /\ row = [req |-> q, dir |-> DirOf(q), lvl |-> lvl[q], suc |-> suc_yon[q]]
           /\ \A b \in bakruntb' \ bakruntb : \E q \in Request :
                 /\ pc[q] = "readlog" /\ Logged(q)
                 /\ b = [req |-> q, dir |-> DirOf(q), lvl |-> lvl[q]]
<1>1. ASSUME NEW q \in Request, InsertLog(q)
      PROVE  /\ bakruntb' = bakruntb /\ pc[q] = "inslog"
             /\ wrklogtb' \subseteq wrklogtb \cup
                   {[req |-> q, dir |-> DirOf(q), lvl |-> lvl[q], suc |-> suc_yon[q]]}
  BY <1>1 DEF InsertLog
<1>2. ASSUME NEW q \in Request, ReadLog(q)
      PROVE  /\ wrklogtb' = wrklogtb /\ pc[q] = "readlog"
             /\ bakruntb' # bakruntb => Logged(q)
             /\ bakruntb' \subseteq bakruntb \cup {[req |-> q, dir |-> DirOf(q), lvl |-> lvl[q]]}
  BY <1>2 DEF ReadLog, Logged
<1>3. ASSUME NEW q \in Request, BakRunExe(q) PROVE UNCHANGED tabVars
  BY <1>3 DEF BakRunExe, MakeDir, FindBase, DropOldJob, NewParamMap, PutParams, RegiScheduler
<1>4. ASSUME NEW q \in Request, PollEnd(q) \/ PollJob(q) \/ CloseWindow(q) PROVE UNCHANGED tabVars
  BY <1>4 DEF PollEnd, PollJob, CloseWindow
<1>5. ASSUME NEW x \in Exec, JobStep(x) PROVE UNCHANGED tabVars
  BY <1>5, StageStep DEF StageChange, JobOnly, ScheduleKill
<1>6. (\E q \in Request : InsertLog(q) \/ ReadLog(q)) \/ UNCHANGED tabVars
  BY <1>3, <1>4, <1>5 DEF Next, BakRunEndChk, Fire, Repeat, Tick, Restart, vars
<1> QED
  BY <1>1, <1>2, <1>6 DEF tabVars

LEMMA RowStep == ASSUME IInv, GoneInv, RowInv, [Next]_vars PROVE RowInv'
<1>0. /\ wrklogtb \subseteq [req : Request \cup {None}, dir : Dir, lvl : Level, suc : {"S01", "S02"}]
      /\ bakruntb \subseteq [req : Request \cup {None}, dir : Dir, lvl : Level]
  BY DEF IInv, TypeOK, TabType
<1>1. \A q \in Request : Settled(q) => Settled(q)' /\ Begun(q) /\ pc[q] # "regi" /\ lvl'[q] = lvl[q]
  BY AskedStays DEF AskedSame, IInv, StampInv, Settled, Prep
<1>2. \A q \in Request : pc[q] \in {"readlog", "inslog"} => Settled(q)
  BY DEF Settled, Prep
<1>3. clash \subseteq clash'
  BY AskedStays
<1>4. ASSUME NEW row \in wrklogtb', row.req # None
      PROVE  /\ row.req \in Request /\ Settled(row.req) /\ row.lvl = lvl[row.req]
             /\ lvl[row.req] = "L01" /\ row.req \notin clash => NoJob(row.req)
  <2>1. CASE row \in wrklogtb
    BY <1>0, <1>4, <2>1 DEF RowInv
  <2>2. ASSUME NEW q \in Request, pc[q] = "inslog",
               row = [req |-> q, dir |-> DirOf(q), lvl |-> lvl[q], suc |-> suc_yon[q]]
        PROVE  /\ row.req \in Request /\ Settled(row.req) /\ row.lvl = lvl[row.req]
               /\ lvl[row.req] = "L01" /\ row.req \notin clash => NoJob(row.req)
    BY <1>2, <2>2 DEF GoneInv
  <2> QED
    BY <2>1, <2>2, NewRows
<1>5. ASSUME NEW b \in bakruntb', b.req # None
      PROVE  /\ b.req \in Request /\ Settled(b.req) /\ b.lvl = lvl[b.req] /\ b.dir = DirOf(b.req)
             /\ Logged(b.req)
  <2>1. CASE b \in bakruntb
    BY <1>0, <1>5, <2>1 DEF RowInv
  <2>2. ASSUME NEW q \in Request, pc[q] = "readlog", Logged(q),
               b = [req |-> q, dir |-> DirOf(q), lvl |-> lvl[q]]
        PROVE  /\ b.req \in Request /\ Settled(b.req) /\ b.lvl = lvl[b.req] /\ b.dir = DirOf(b.req)
               /\ Logged(b.req)
    BY <1>2, <2>2
  <2> QED
    BY <2>1, <2>2, NewRows
<1>6. ASSUME NEW row \in wrklogtb', row.req # None
      PROVE  /\ Settled(row.req)' /\ row.lvl = lvl'[row.req]
             /\ lvl'[row.req] = "L01" /\ row.req \notin clash' => NoJob(row.req)'
  BY <1>1, <1>3, <1>4, <1>6, NoJobStays
<1>7. ASSUME NEW b \in bakruntb', b.req # None
      PROVE  /\ Settled(b.req)' /\ b.lvl = lvl'[b.req] /\ b.dir = DirOf(b.req)'
             /\ Logged(b.req)'
  BY <1>1, <1>5, <1>7, LoggedStays, FineBefore
<1> QED
  BY <1>6, <1>7 DEF RowInv

-----------------------------------------------------------------------------
(***************************************************************************)
(* The files of a dump.                                                    *)
(***************************************************************************)

\* Only the one execution of an undisturbed full backup, and only before
\* completeCmd, changes the files of its directory.
LEMMA FilesStay ==
    ASSUME IInv, WriterInv, [Next]_vars, NEW r \in Request, Begun(r), Fine(r), Complete(DirOf(r)),
           NEW x \in Runs(r), exec[x].stage \in After \cup {"success"}
    PROVE  Complete(DirOf(r))'
<1>1. DirOf(r) \in Dir /\ DirOf(r)' = DirOf(r)
  BY FineBefore DEF DirOf, Dir, IInv, TypeOK, WebType
<1>2. ASSUME NEW y \in Exec, Works(y) PROVE data'[DirOf(r)] = data[DirOf(r)]
  <2> SUFFICES ASSUME data'[DirOf(r)] # data[DirOf(r)] PROVE FALSE
    OBVIOUS
  <2>1. /\ exec[y].stage \in {"run", "apply", "copy"}
        /\ \/ exec[y].cls = "L01" /\ DirOf(r) = DataDir(y)
           \/ exec[y].cls = "L01" /\ DirOf(r) = DirOf(exec[y].run)
           \/ DirOf(r) = LogDir(y)
    BY <1>1, <1>2, Touched DEF DataTouched
  <2>2. /\ y \in Fired /\ exec[y].cmd # None
        /\ exec[y].cls = "L01" => exec[y].run # None
    BY <2>1 DEF Fired, IInv, ExecInv, Active, Full, Incre
  <2>3. exec[y].by = r
    BY <2>1, <2>2, OwnDir DEF Fine
  <2>4. y = x
    BY <2>3 DEF Fine, Single, Runs
  <2> QED
    BY <2>1, <2>4 DEF After
<1>3. data'[DirOf(r)] = data[DirOf(r)]
  BY <1>2, Kinds DEF Quiet, ScheduleKill, Fire, Restart, fileVars
<1> QED
  BY <1>1, <1>3 DEF Complete, Sound

LEMMA SuccessStep == ASSUME IInv, WriterInv, SuccessInv, [Next]_vars PROVE SuccessInv'
<1>0. exec \in [Exec -> [stage : Stage, cls : Level, own : Request \cup {None},
                         run : Request \cup {None}, cmd : Request \cup {None},
                         by : Request \cup {None}]]
  BY DEF IInv, TypeOK, ExecType
<1> SUFFICES ASSUME NEW x \in Exec, exec'[x].stage = "success", NEW r \in Request,
                    exec'[x].by = r, Fine(r)', Dumped(r)'
             PROVE  Complete(DirOf(r))'
  <2>1. ASSUME NEW x \in Exec, exec'[x].stage = "success" PROVE exec'[x].by \in Request
    BY <2>1, NextInv DEF IInv, ExecInv, TypeOK, ExecType
  <2> QED
    BY <2>1 DEF SuccessInv, Fine, Undisturbed, Alone, Twins, Begun, Single, Runs, Dumped, DirOf,
       Complete, Sound
<1>1. \/ exec[x].stage = "success" /\ exec[x].by = r
      \/ Works(x) /\ exec[x].by = r /\ exec[x].stage # "success"
  <2>1. CASE Quiet
    BY <2>1 DEF Quiet
  <2>2. ASSUME NEW y \in Exec, Works(y) \/ ScheduleKill(y)
        PROVE  exec[x].by = r /\ (exec[x].stage = "success" \/ Works(x))
    <3>1. \E s \in Stage : exec' = [exec EXCEPT ![y].stage = s] /\ (ScheduleKill(y) => s = "ended")
      BY <2>2, StageStep DEF Works, StageChange, ScheduleKill, Step, Stage, Active, Full, Incre
    <3> QED
      BY <1>0, <2>2, <3>1
  <2>3. ASSUME NEW y \in Exec, NEW j \in jobs, Fire(y, j) PROVE exec[x].stage = "success" /\ exec[x].by = r
    BY <1>0, <2>3 DEF Fire
  <2>4. CASE Restart
    BY <1>0, <2>4 DEF Restart, Active, Full, Incre
  <2> QED
    BY <2>1, <2>2, <2>3, <2>4, Kinds
<1>2. x \in Fired /\ Begun(r) /\ exec[x].stage \in Active
  BY <1>1, Touched DEF Fired, IInv, ExecInv, StampInv, Settled, Active, Full, Incre
<1>3. Fine(r) /\ Dumped(r) /\ DirOf(r)' = DirOf(r)
  BY <1>2, FineBefore DEF Dumped
<1>4. CASE exec[x].stage = "success"
  <2>1. exec[x].by = r
    BY <1>1
  <2>2. Complete(DirOf(r))
    BY <1>3, <1>4, <2>1 DEF SuccessInv
  <2> QED
    BY <1>2, <1>3, <1>4, <2>1, <2>2, FilesStay DEF Runs
<1>5. CASE Works(x) /\ exec[x].by = r /\ exec[x].stage # "success"
  <2>1. exec[x].cls = "L01" /\ exec[x].cmd = r
    BY <1>2, <1>3, <1>5 DEF Fine, Undisturbed, Fired, IInv, ExecInv
  <2>2. CompleteCheck(x)
    BY <1>0, <1>5, <2>1 DEF Works, JobStep, StartLog, LogSuccess, LogFail, RpmCheck, RunBackup, ApplyLog,
       ErrorLogCheck, TailIndex, CopyBinlogs, NextBin, At, Step, AuthFails
  <2>3. DataDir(x) = DirOf(r) /\ data' = data
    BY <2>1, <2>2 DEF DataDir, CompleteCheck, fileVars
  <2>4. Complete(DirOf(r)) \/ Tested(DirOf(r))
    BY <1>0, <2>2, <2>3 DEF CompleteCheck, Step
  <2>5. ~Tested(DirOf(r))
    BY <1>3 DEF Tested, Dumped, DirOf
  <2> QED
    BY <1>3, <2>3, <2>4, <2>5 DEF Complete, Sound
<1> QED
  BY <1>1, <1>4, <1>5

LEMMA DumpStep == ASSUME IInv, WriterInv, SuccessInv, DumpInv, [Next]_vars PROVE DumpInv'
<1>0. /\ exec \in [Exec -> [stage : Stage, cls : Level, own : Request \cup {None},
                            run : Request \cup {None}, cmd : Request \cup {None},
                            by : Request \cup {None}]]
      /\ wrk_dt \in [Request -> Stamp] /\ bts \in [Request -> Target]
  BY DEF IInv, TypeOK, ExecType, WebType
<1> SUFFICES ASSUME NEW r \in Request, Begun(r)', Logged(r)', Fine(r)', Dumped(r)'
             PROVE  Complete(DirOf(r))' /\ \E x \in Exec : exec'[x].by = r /\ exec'[x].stage \in After
  BY DEF DumpInv, Runs
<1>1. ASSUME ~Begun(r) PROVE FALSE
  <2>1. DirOf(r)' \in Dir /\ DirOf(r)'[2] # 0
    BY NextInv DEF IInv, TypeOK, WebType, DirOf, Dir, Begun
  <2>2. log'[DirOf(r)'] # {}
    BY DEF Logged
  <2>3. PICK o \in Request : Begun(o)' /\ DirOf(o)' = DirOf(r)' /\ o # r
    <3>1. PICK q \in Request : MakeDir(q) /\ q = r
      <4>1. wrk_dt'[r] # wrk_dt[r]
        BY <1>1 DEF Begun
      <4>2. ASSUME NEW q \in Request, MakeDir(q) PROVE q = r
        BY <1>0, <4>1, <4>2 DEF MakeDir
      <4>3. ASSUME NEW q \in Request, BakRunExe(q), ~MakeDir(q) PROVE wrk_dt' = wrk_dt
        BY <4>3 DEF BakRunExe, FindBase, DropOldJob, NewParamMap, PutParams, RegiScheduler
      <4>4. ASSUME NEW q \in Request, BakRunEndChk(q) \/ CloseWindow(q) PROVE wrk_dt' = wrk_dt
        BY <4>4 DEF BakRunEndChk, PollEnd, PollJob, ReadLog, InsertLog, CloseWindow, WebOnly
      <4>5. ASSUME NEW x \in Exec, JobStep(x) PROVE wrk_dt' = wrk_dt
        BY <4>5, StageStep DEF StageChange, JobOnly, ScheduleKill, webVars
      <4> QED
        BY <4>1, <4>2, <4>3, <4>4, <4>5 DEF Next, Fire, Repeat, Tick, Restart, vars, webVars
    <3>2. log' = log
      BY <3>1 DEF MakeDir, fileVars
    <3>3. PICK o \in Request : Begun(o) /\ DirOf(o) = DirOf(r)'
      BY <2>1, <2>2, <3>2 DEF WriterInv
    <3> QED
      BY <1>1, <3>3, FineBefore
  <2>4. Twins(o, r)'
    BY <2>3 DEF Twins, DirOf
  <2> QED
    BY <2>4 DEF Fine, Undisturbed, Alone
<1>2. ASSUME Begun(r)
      PROVE  Complete(DirOf(r))' /\ \E x \in Exec : exec'[x].by = r /\ exec'[x].stage \in After
  <2>1. Fine(r) /\ Dumped(r) /\ DirOf(r)' = DirOf(r) /\ DirOf(r) \in Dir
    BY <1>0, <1>2, FineBefore DEF Dumped, DirOf, Dir
  <2>2. ASSUME Logged(r)
        PROVE  Complete(DirOf(r))' /\ \E x \in Exec : exec'[x].by = r /\ exec'[x].stage \in After
    <3>1. PICK x \in Runs(r) : Complete(DirOf(r)) /\ exec[x].stage \in After
      BY <1>2, <2>1, <2>2 DEF DumpInv
    <3> x \in Exec
      BY DEF Runs
    <3>2. Complete(DirOf(r))'
      BY <1>2, <2>1, <3>1, FilesStay
    <3>3. exec'[x].by = r
      BY <3>1, ExecStays DEF ExecSame, Fired, Runs, After
    <3>4. exec'[x].stage \in After
      <4>1. CASE Quiet
        BY <3>1, <4>1 DEF Quiet
      <4>2. ASSUME NEW y \in Exec, Works(y) PROVE exec'[x].stage \in After
        BY <1>0, <3>1, <4>2, Touched, StageStep DEF Works, StageChange, After, Active, Full, Incre
      <4>3. ASSUME NEW y \in Exec, ScheduleKill(y) PROVE exec'[x].stage \in After
        BY <1>0, <3>1, <4>3 DEF ScheduleKill, Step, After
      <4>4. ASSUME NEW y \in Exec, NEW j \in jobs, Fire(y, j) PROVE exec'[x].stage \in After
        BY <1>0, <3>1, <4>4 DEF Fire, After
      <4>5. CASE Restart
        BY <1>0, <3>1, <4>5 DEF Restart, After
      <4> QED
        BY <4>1, <4>2, <4>3, <4>4, <4>5, Kinds
    <3> QED
      BY <3>2, <3>3, <3>4
  <2>3. ASSUME ~Logged(r)
        PROVE  Complete(DirOf(r))' /\ \E x \in Exec : exec'[x].by = r /\ exec'[x].stage \in After
    <3>1. "SUCCESS" \in log'[DirOf(r)] /\ "SUCCESS" \notin log[DirOf(r)]
      BY <2>1, <2>3 DEF Logged
    <3>2. PICK x \in Exec : Works(x)
      BY <3>1, Kinds DEF Quiet, ScheduleKill, Fire, Restart, fileVars
    <3>3. /\ DirOf(r) = LogDir(x) /\ exec[x].stage = "success" /\ data' = data
          /\ exec[x].cls = "L01" => exec'[x].stage = "kill"
      BY <2>1, <3>1, <3>2, Touched DEF LogTouched
    <3>4. exec[x].by = r /\ exec'[x].by = r
      BY <1>2, <2>1, <3>3, OwnDir, ExecStays DEF ExecSame, Fired, Fine
    <3>5. Complete(DirOf(r))
      BY <2>1, <3>3, <3>4 DEF SuccessInv
    <3>6. exec[x].cls = "L01"
      BY <2>1, <3>3, <3>4 DEF Fine, Undisturbed, IInv, ExecInv
    <3> QED
      BY <2>1, <3>3, <3>4, <3>5, <3>6 DEF Complete, Sound, After
  <2> QED
    BY <2>2, <2>3
<1> QED
  BY <1>1, <1>2

-----------------------------------------------------------------------------
LEMMA InitResult == Init => RInv
<1> SUFFICES ASSUME Init PROVE RInv
  OBVIOUS
<1>1. /\ \A x \in Exec : exec[x] = FreeExec
      /\ \A r \in Request : heap[r] = NoParams /\ pc[r] = "idle" /\ wrk_dt[r] = 0
  BY DEF Init
<1>2. Fired = {}
  BY <1>1 DEF Fired, FreeExec
<1>3. \A d \in Dir : d[2] # 0 => log[d] = {}
  BY DEF Init
<1>4. (\A row \in wrklogtb : row.req = None) /\ (\A b \in bakruntb : b.req = None)
  BY DEF Init
<1>5. FiredInv
  BY <1>2, FS_EmptySet DEF FiredInv
<1>6. WriterInv
  BY <1>1, <1>2, <1>3 DEF WriterInv, NoParams
<1>7. KeptInv /\ GoneInv /\ SuccessInv /\ DumpInv
  BY <1>1 DEF KeptInv, GoneInv, SuccessInv, DumpInv, Running, FreeExec, Active, Full, Incre, Begun
<1>8. RowInv
  BY <1>4 DEF RowInv
<1> QED
  BY <1>5, <1>6, <1>7, <1>8 DEF RInv

LEMMA NextResult == IInv /\ RInv /\ [Next]_vars => RInv'
BY FiredStep, WriterStep, KeptStep, GoneStep, SuccessStep, DumpStep, RowStep DEF RInv

\* What the files, jobs and executions of undisturbed requests are like holds
\* in every reachable state.
THEOREM ResultInductive == Spec => []RInv
BY InitResult, NextResult, Inductive, PTL DEF Spec

\* When the result of an undisturbed full backup is in the work log, its job has
\* left the scheduler and its execution is over.
THEOREM RecordedIsOver == Spec => []RecordedFullRunIsOver
<1>1. IInv /\ RInv => RecordedFullRunIsOver
  <2> SUFFICES ASSUME IInv, RInv, NEW row \in wrklogtb, row.req # None, row.lvl = "L01",
                      Undisturbed(row.req), Cardinality(Runs(row.req)) < 2
               PROVE  /\ \A j \in jobs : j.by # row.req
                      /\ \A x \in Runs(row.req) : ~Running(x)
    BY DEF RecordedFullRunIsOver
  <2>1. row.req \in Request /\ lvl[row.req] = "L01" /\ NoJob(row.req)
    BY DEF IInv, TypeOK, TabType, RInv, RowInv, Undisturbed
  <2>2. Fine(row.req)
    BY <2>1, FewIsSingle DEF RInv, Fine
  <2> QED
    BY <2>1, <2>2 DEF RInv, KeptInv, NoJob, Runs
<1> QED
  BY <1>1, Inductive, ResultInductive, PTL

\* A restore point of an undisturbed mysqldump backup is a complete dump.
THEOREM DumpsAreComplete == Spec => []DumpRestorePointIsComplete
<1>1. IInv /\ RInv => DumpRestorePointIsComplete
  <2> SUFFICES ASSUME IInv, RInv, NEW b \in bakruntb, b.req # None, b.lvl = "L01",
                      Avt[b.dir[1]] = "M02",
                      Undisturbed(b.req), Cardinality(Runs(b.req)) < 2
               PROVE  Complete(b.dir)
    BY DEF DumpRestorePointIsComplete
  <2>1. /\ b.req \in Request /\ lvl[b.req] = "L01" /\ b.dir = DirOf(b.req)
        /\ Logged(b.req) /\ Settled(b.req)
    BY DEF IInv, TypeOK, TabType, RInv, RowInv
  <2>2. Fine(b.req) /\ Begun(b.req) /\ Dumped(b.req)
    BY <2>1, FewIsSingle DEF RInv, Fine, IInv, StampInv, Settled, Dumped, DirOf
  <2> QED
    BY <2>1, <2>2 DEF RInv, DumpInv
<1> QED
  BY <1>1, Inductive, ResultInductive, PTL
=============================================================================
