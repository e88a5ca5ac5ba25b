-------------------------- MODULE BackupRun_proof --------------------------
(***************************************************************************)
(* Type correctness of BackupRun, and that the shared field                *)
(* BackupScheduler.svcParamMap can only mix up requests that are inside    *)
(* startScheduler / regiScheduler... at the same time.                     *)
(***************************************************************************)
EXTENDS BackupRun, TLAPS

PastNew(r) == pc[r] \notin {"idle", "prepare", "check", "new"}
Settled(r) == pc[r] \notin {"idle"} \cup Prep
OwnMap(r)  == heap[r].own = r /\ (IF lvl[r] = "L01" THEN heap[r].full ELSE heap[r].incre) = r

\* wrk_dt is 0 exactly for the requests that have not begun.
StampInv ==
    /\ clock > 0
    /\ \A r \in Request : pc[r] # "idle" <=> Begun(r)

\* The field refers to the map of a request inside the window, or both that
\* request and the owner of the map have met another one there.
FieldInv ==
    /\ svcParamMap # None => PastNew(svcParamMap)
    /\ \A r \in Request : pc[r] \in Window =>
          /\ svcParamMap # None
          /\ svcParamMap = r \/ (r \in clash /\ svcParamMap \in clash)

\* A request outside clash writes into its own map, and nobody else does; with
\* a backup command come the other keys of a full backup.
HeapInv ==
    /\ \A m \in Request, v \in Engine : heap[m].run[v] # None => heap[m].full # None
    /\ \A m \in Request : heap[m].own # None /\ heap[m].own \notin clash => heap[m].own = m
    /\ \A r \in Request : heap[r].own # None => PastNew(heap[r].own)
    /\ \A r \in Request : r \notin clash /\ pc[r] = "regi" => OwnMap(r)

JobInv ==
    \A j \in jobs :
        /\ PastNew(j.map) /\ heap[j.map].own # None
        /\ Settled(j.by) /\ j.cls = lvl[j.by]
        /\ j.map \notin clash => j.by = j.map
        /\ j.by \notin clash => j.map = j.by /\ OwnMap(j.by)
        /\ j.by \notin clash => j.nam = Nam[bts[j.by]] /\ j.dt = wrk_dt[j.by]
        /\ \E o \in Request : /\ PastNew(o) /\ j.nam = Nam[bts[o]] /\ j.dt = wrk_dt[o]
                              /\ o \notin clash => j.by = o

ExecInv ==
    \A x \in Exec :
        IF exec[x].stage = "free" THEN exec[x].by = None
        ELSE /\ exec[x].own # None /\ exec[x].by # None
             /\ PastNew(exec[x].own) /\ Settled(exec[x].by)
             /\ exec[x].stage \in Active =>
                   exec[x].cmd # None /\ (exec[x].cls = "L01" => exec[x].run # None)
             /\ exec[x].own \notin clash => exec[x].by = exec[x].own
             /\ exec[x].by \notin clash =>
                   /\ exec[x].own = exec[x].by /\ exec[x].cmd = exec[x].by
                   /\ exec[x].cls = lvl[exec[x].by]

IInv == TypeOK /\ StampInv /\ FieldInv /\ HeapInv /\ JobInv /\ ExecInv

USE TargetAssumption, BoundAssumption, NoneAssumption

LEMMA InitInv == Init => IInv
<1> SUFFICES ASSUME Init PROVE IInv
  OBVIOUS
<1>1. WebType /\ MapType /\ JobType /\ EnvType
  BY DEF Init, WebType, MapType, JobType, EnvType, Stamp, PC, Level, Params, NoParams
<1>2. ExecType
  BY DEF Init, ExecType, FreeExec, Stage, Level
<1>3. FileType /\ TabType
  <2> PICK old \in SUBSET Target :
        LET ran(d) == d[1] \in old /\ d[2] = 0 IN
        /\ log = [d \in Dir |-> IF ran(d) THEN {"START", "SUCCESS", "END"} ELSE {}]
        /\ data = [d \in Dir |-> IF ran(d) THEN Sound(d) ELSE "none"]
        /\ wrklogtb = {[req |-> None, dir |-> <<t, 0>>, lvl |-> "L01", suc |-> "S01"] : t \in old}
        /\ bakruntb = {[req |-> None, dir |-> <<t, 0>>, lvl |-> "L01"] : t \in old}
        /\ last_fullbackup = [t \in Target |-> IF t \in old THEN 0 ELSE None]
        /\ last_backup = last_fullbackup
    BY DEF Init
  <2>1. log \in [Dir -> SUBSET Line]
    BY DEF Line
  <2>2. data \in [Dir -> Content]
    BY DEF Content, Sound
  <2>3. last_fullbackup \in [Target -> Stamp \cup {None}] /\ last_backup = last_fullbackup
    BY DEF Stamp
  <2>4. \A t \in old : <<t, 0>> \in Dir
    BY DEF Dir, Stamp
  <2>5. TabType
    BY <2>4 DEF TabType, Level
  <2> QED
    BY <2>1, <2>2, <2>3, <2>5 DEF FileType
<1>4. StampInv /\ FieldInv /\ HeapInv
  BY DEF Init, StampInv, FieldInv, HeapInv, Begun, Window, NoParams
<1>5. JobInv /\ ExecInv
  BY DEF Init, JobInv, ExecInv, FreeExec
<1> QED
  BY <1>1, <1>2, <1>3, <1>4, <1>5 DEF IInv, TypeOK

-----------------------------------------------------------------------------
(***************************************************************************)
(* The steps of a job before schedulekill: they move the stage of one      *)
(* execution and write files.                                              *)
(***************************************************************************)
StageChange(x) ==
    /\ exec[x].stage \in Active
    /\ \E s \in Active \cup {"crashed"} :
          exec' = [exec EXCEPT ![x].stage = s] /\ (s = "crashed" => exec[x].cls = "L02")
    /\ JobOnly

LEMMA StageStep ==
    ASSUME NEW x \in Exec, JobStep(x), ~ScheduleKill(x)
    PROVE  StageChange(x)
<1> USE DEF StageChange, Step, AuthFails, At, Active, Full, Incre
<1>1. CASE StartLog(x)
  BY <1>1 DEF StartLog
<1>2. CASE LogSuccess(x) \/ LogFail(x)
  BY <1>2 DEF LogSuccess, LogFail
<1>3. CASE RpmCheck(x) \/ CompleteCheck(x) \/ ErrorLogCheck(x) \/ TailIndex(x) \/ NextBin(x)
  BY <1>3 DEF RpmCheck, CompleteCheck, ErrorLogCheck, TailIndex, NextBin
<1>4. CASE RunBackup(x) \/ ApplyLog(x) \/ CopyBinlogs(x)
  BY <1>4 DEF RunBackup, ApplyLog, CopyBinlogs
<1> QED
  BY <1>1, <1>2, <1>3, <1>4 DEF JobStep

LEMMA FileStep ==
    ASSUME FileType, WebType, NEW x \in Exec, exec[x].own \in Request,
           exec[x].cmd \in Request, exec[x].cls = "L01" => exec[x].run \in Request,
           JobStep(x), ~ScheduleKill(x)
    PROVE  FileType'
<1> DEFINE d == LogDir(x)  e == DataDir(x)  g == DirOf(exec[x].run)
<1>0. d \in Dir /\ e \in Dir /\ (exec[x].cls = "L01" => g \in Dir)
  BY DEF LogDir, DataDir, DirOf, Dir, WebType
<1>1. ASSUME NEW L \in SUBSET Line, Append(d, L) PROVE log' \in [Dir -> SUBSET Line]
  BY <1>1 DEF Append, FileType
<1>2. ASSUME NEW c \in Content, NEW f \in Dir, data' = [data EXCEPT ![f] = c]
      PROVE  data' \in [Dir -> Content]
  BY <1>2 DEF FileType
<1>3. CASE StartLog(x)
  BY <1>3, <1>1 DEF StartLog, Line, FileType
<1>4. CASE LogFail(x)
  BY <1>4, <1>1 DEF LogFail, Line, FileType
<1>5. CASE LogSuccess(x)
  <2>1. log' \in [Dir -> SUBSET Line]
    BY <1>5, <1>0 DEF LogSuccess, Line, FileType
  <2>2. bts[exec[x].own] \in Target /\ wrk_dt[exec[x].own] \in Stamp
    BY DEF WebType
  <2> QED
    BY <1>5, <2>1, <2>2 DEF LogSuccess, FileType
<1>6. CASE RunBackup(x)
  BY <1>6, <1>0, <1>2 DEF RunBackup, At, FileType, Content
<1>7. CASE ApplyLog(x)
  BY <1>7, <1>0, <1>2 DEF ApplyLog, FileType, Content
<1>8. CASE CopyBinlogs(x)
  BY <1>8, <1>0, <1>2 DEF CopyBinlogs, FileType, Content
<1>9. CASE RpmCheck(x) \/ CompleteCheck(x) \/ ErrorLogCheck(x) \/ TailIndex(x) \/ NextBin(x)
  BY <1>9 DEF RpmCheck, CompleteCheck, ErrorLogCheck, TailIndex, NextBin, fileVars, FileType
<1> QED
  BY <1>3, <1>4, <1>5, <1>6, <1>7, <1>8, <1>9 DEF JobStep

LEMMA JobStepInv ==
    ASSUME IInv, NEW x \in Exec, JobStep(x), ~ScheduleKill(x)
    PROVE  IInv'
<1>0. StageChange(x)
  BY StageStep
<1>1. /\ exec[x].stage # "free" /\ exec[x].own \in Request /\ exec[x].cmd \in Request
      /\ exec[x].cls = "L01" => exec[x].run \in Request
      /\ exec[x] \in [stage : Stage, cls : Level, own : Request \cup {None},
                      run : Request \cup {None}, cmd : Request \cup {None},
                      by : Request \cup {None}]
  BY <1>0 DEF StageChange, IInv, ExecInv, TypeOK, ExecType, Active, Full, Incre
<1>2. PICK s \in Active \cup {"crashed"} :
         exec' = [exec EXCEPT ![x].stage = s] /\ (s = "crashed" => exec[x].cls = "L02")
  BY <1>0 DEF StageChange
<1>3. /\ exec' \in [Exec -> [stage : Stage, cls : Level, own : Request \cup {None},
                             run : Request \cup {None}, cmd : Request \cup {None},
                             by : Request \cup {None}]]
      /\ exec'[x] = [exec[x] EXCEPT !.stage = s]
      /\ \A y \in Exec \ {x} : exec'[y] = exec[y]
  BY <1>1, <1>2 DEF IInv, TypeOK, ExecType, Stage
<1>4. FileType'
  BY <1>1, FileStep DEF IInv, TypeOK
<1>5. UNCHANGED <<webVars, mapVars, jobs, tabVars, envVars, histVars>>
  BY <1>0 DEF StageChange, JobOnly
<1>6. TypeOK'
  BY <1>3, <1>4, <1>5 DEF IInv, TypeOK, WebType, MapType, JobType, ExecType, TabType, EnvType,
     webVars, mapVars, tabVars, envVars, histVars
<1>7. StampInv' /\ FieldInv' /\ HeapInv' /\ JobInv'
  BY <1>5 DEF IInv, StampInv, FieldInv, HeapInv, JobInv, Begun, PastNew, Settled, OwnMap,
     webVars, mapVars, envVars, histVars
<1>8. ExecInv'
  <2> SUFFICES ASSUME NEW y \in Exec
               PROVE  ExecInv!(y)'
    BY DEF ExecInv
  <2>1. ExecInv!(y)
    BY DEF IInv, ExecInv
  <2>2. CASE y = x
    BY <1>1, <1>2, <1>3, <1>5, <2>1, <2>2
       DEF PastNew, Settled, Active, Full, Incre, webVars, mapVars, histVars, Level
  <2>3. CASE y # x
    BY <1>3, <1>5, <2>1, <2>3 DEF PastNew, Settled, webVars, mapVars, histVars
  <2> QED
    BY <2>2, <2>3
<1> QED
  BY <1>6, <1>7, <1>8 DEF IInv

LEMMA KillInv ==
    ASSUME IInv, NEW x \in Exec, ScheduleKill(x)
    PROVE  IInv'
<1> USE DEF ScheduleKill, Step
<1>1. exec[x].stage = "kill" /\ exec[x] \in [stage : Stage, cls : Level, own : Request \cup {None},
                      run : Request \cup {None}, cmd : Request \cup {None},
                      by : Request \cup {None}]
  BY DEF IInv, TypeOK, ExecType
<1>2. /\ exec' \in [Exec -> [stage : Stage, cls : Level, own : Request \cup {None},
                             run : Request \cup {None}, cmd : Request \cup {None},
                             by : Request \cup {None}]]
      /\ exec'[x] = [exec[x] EXCEPT !.stage = "ended"]
      /\ \A y \in Exec \ {x} : exec'[y] = exec[y]
  BY <1>1 DEF IInv, TypeOK, ExecType, Stage
<1>3. jobs' \subseteq jobs
  BY DEF Named
<1>4. UNCHANGED <<webVars, mapVars, fileVars, tabVars, envVars, histVars>>
  OBVIOUS
<1>5. TypeOK'
  BY <1>2, <1>3, <1>4 DEF IInv, TypeOK, WebType, MapType, JobType, ExecType, TabType, EnvType,
     FileType, webVars, mapVars, fileVars, tabVars, envVars, histVars
<1>6. StampInv' /\ FieldInv' /\ HeapInv'
  BY <1>4 DEF IInv, StampInv, FieldInv, HeapInv, Begun, PastNew, OwnMap,
     webVars, mapVars, envVars, histVars
<1>7. JobInv'
  BY <1>3, <1>4 DEF IInv, JobInv, PastNew, Settled, OwnMap, webVars, mapVars, histVars
<1>8. ExecInv'
  <2> SUFFICES ASSUME NEW y \in Exec
               PROVE  ExecInv!(y)'
    BY DEF ExecInv
  <2>1. ExecInv!(y)
    BY DEF IInv, ExecInv
  <2>2. CASE y = x
    BY <1>1, <1>2, <1>4, <2>1, <2>2
       DEF PastNew, Settled, Active, Full, Incre, webVars, mapVars, histVars
  <2>3. CASE y # x
    BY <1>2, <1>4, <2>1, <2>3 DEF PastNew, Settled, webVars, mapVars, histVars
  <2> QED
    BY <2>2, <2>3
<1> QED
  BY <1>5, <1>6, <1>7, <1>8 DEF IInv

-----------------------------------------------------------------------------
(***************************************************************************)
(* The steps of /bak_run_exe.                                              *)
(***************************************************************************)
LEMMA MakeDirInv == ASSUME IInv, NEW r \in Request, MakeDir(r) PROVE IInv'
<1> PICK t \in Target, l \in Level, p \in {"error", "prepare", "check"} :
        /\ bts' = [bts EXCEPT ![r] = t] /\ lvl' = [lvl EXCEPT ![r] = l]
        /\ wrk_dt' = [wrk_dt EXCEPT ![r] = clock] /\ pc' = [pc EXCEPT ![r] = p]
  BY DEF MakeDir, Goto
<1>1. /\ pc[r] = "idle"
      /\ UNCHANGED <<exit_flag, suc_yon, mapVars, jobVars, fileVars, tabVars, envVars, histVars>>
  BY DEF MakeDir
<1>2. \A q \in Request \ {r} : /\ pc'[q] = pc[q] /\ bts'[q] = bts[q]
                               /\ lvl'[q] = lvl[q] /\ wrk_dt'[q] = wrk_dt[q]
  BY DEF IInv, TypeOK, WebType
<1>3. pc'[r] = p /\ wrk_dt'[r] = clock
  BY DEF IInv, TypeOK, WebType
<1>4. TypeOK'
  BY <1>1 DEF IInv, TypeOK, WebType, MapType, JobType, ExecType, TabType, EnvType, FileType,
     PC, Prep, mapVars, jobVars, fileVars, tabVars, envVars, histVars
<1>5. StampInv'
  BY <1>1, <1>2, <1>3 DEF IInv, StampInv, Begun, envVars
<1>6. FieldInv'
  BY <1>1, <1>2, <1>3 DEF IInv, FieldInv, PastNew, Window, mapVars, histVars, TypeOK, MapType
<1>7. HeapInv'
  BY <1>1, <1>2, <1>3 DEF IInv, HeapInv, OwnMap, PastNew, mapVars, histVars, TypeOK, MapType, Params
<1>8. JobInv'
  <2> SUFFICES ASSUME NEW j \in jobs PROVE JobInv!(j)'
    BY <1>1 DEF JobInv, jobVars
  <2>1. JobInv!(j) /\ j.map \in Request /\ j.by \in Request
    BY DEF IInv, JobInv, TypeOK, JobType
  <2>2. j.map # r /\ j.by # r
    BY <1>1, <2>1 DEF PastNew, Settled
  <2> QED
    BY <1>1, <1>2, <2>1, <2>2 DEF PastNew, Settled, OwnMap, mapVars, histVars
<1>9. ExecInv'
  <2> SUFFICES ASSUME NEW y \in Exec PROVE ExecInv!(y)'
    BY DEF ExecInv
  <2>1. ExecInv!(y) /\ exec[y].own \in Request \cup {None} /\ exec[y].by \in Request \cup {None}
    BY DEF IInv, ExecInv, TypeOK, ExecType
  <2> QED
    BY <1>1, <1>2, <2>1 DEF PastNew, Settled, jobVars, histVars
<1> QED
  BY <1>4, <1>5, <1>6, <1>7, <1>8, <1>9 DEF IInv

\* A step that only moves pc[r] between two places that are both before the
\* window, or both after it, or from a place before it past it.
LEMMA MoveInv ==
    ASSUME IInv, NEW r \in Request, NEW p \in PC, Goto(r, p), pc[r] # "idle", p # "idle",
           \/ pc[r] \in {"prepare", "check", "new"} /\ p \in {"prepare", "check", "new"}
           \/ pc[r] \in Polls \cup {"prepare"} /\ p \notin {"idle"} \cup Prep,
           UNCHANGED <<bts, lvl, wrk_dt, mapVars, exec, clock, histVars>>,
           jobs' \subseteq jobs, TypeOK'
    PROVE  IInv'
<1>1. pc'[r] = p /\ \A q \in Request \ {r} : pc'[q] = pc[q]
  BY DEF Goto, IInv, TypeOK, WebType
<1>2. StampInv'
  BY <1>1 DEF IInv, StampInv, Begun
<1>3. PastNew(r) => PastNew(r)'
  BY <1>1 DEF PastNew, Polls, Prep
<1>4. \A q \in Request : PastNew(q) => PastNew(q)'
  BY <1>1, <1>3 DEF PastNew
<1>5. Settled(r) => Settled(r)'
  BY <1>1 DEF Settled, Polls, Prep
<1>6. \A q \in Request : Settled(q) => Settled(q)'
  BY <1>1, <1>5 DEF Settled
<1>7. pc'[r] \notin Window
  BY <1>1 DEF Window, Prep
<1>8. FieldInv'
  BY <1>1, <1>4, <1>7 DEF IInv, FieldInv, mapVars, histVars, TypeOK, MapType
<1>9. HeapInv'
  BY <1>1, <1>4, <1>7 DEF IInv, HeapInv, OwnMap, mapVars, histVars, TypeOK, MapType, Params, Window
<1>10. JobInv'
  BY <1>4, <1>6 DEF IInv, JobInv, OwnMap, mapVars, histVars, TypeOK, JobType
<1>11. ExecInv'
  BY <1>4, <1>6 DEF IInv, ExecInv, histVars, TypeOK, ExecType
<1> QED
  BY <1>2, <1>8, <1>9, <1>10, <1>11 DEF IInv

LEMMA FindBaseInv == ASSUME IInv, NEW r \in Request, FindBase(r) PROVE IInv'
<1>1. TypeOK'
  BY DEF FindBase, Goto, IInv, TypeOK, WebType, MapType, JobType, ExecType, TabType, EnvType, FileType,
     PC, Prep, mapVars, jobVars, fileVars, tabVars, envVars, histVars
<1> QED
  BY <1>1, MoveInv DEF FindBase, jobVars, envVars, PC, Prep

LEMMA DropOldJobInv == ASSUME IInv, NEW r \in Request, DropOldJob(r) PROVE IInv'
<1>1. jobs' \subseteq jobs
  BY DEF DropOldJob
<1>2. TypeOK'
  BY <1>1 DEF DropOldJob, Goto, IInv, TypeOK, WebType, MapType, JobType, ExecType, TabType, EnvType,
     FileType, PC, Prep, mapVars, fileVars, tabVars, envVars, histVars
<1> QED
  BY <1>1, <1>2, MoveInv DEF DropOldJob, envVars, PC, Prep

LEMMA NewParamMapInv == ASSUME IInv, NEW r \in Request, NewParamMap(r) PROVE IInv'
<1>1. /\ pc[r] = "new" /\ svcParamMap' = r /\ clash \subseteq clash'
      /\ \A q \in Request \ {r} : pc'[q] = pc[q] /\ heap'[q] = heap[q]
      /\ pc'[r] = "put" /\ heap'[r] = NoParams
      /\ UNCHANGED <<bts, lvl, wrk_dt, exit_flag, suc_yon, jobVars, fileVars, tabVars, envVars, lost>>
  BY DEF NewParamMap, Goto, IInv, TypeOK, WebType, MapType
<1>2. NoParams \in Params
  BY DEF NoParams, Params
<1>3. clash' \subseteq Request
  BY DEF NewParamMap, Inside, IInv, TypeOK, EnvType
<1>4. TypeOK'
  BY <1>1, <1>2, <1>3 DEF NewParamMap, Goto, IInv, TypeOK, WebType, MapType, JobType, ExecType,
     TabType, EnvType, FileType, PC, Prep, jobVars, fileVars, tabVars, envVars
<1>5. StampInv'
  BY <1>1 DEF IInv, StampInv, Begun, envVars
<1>6. \A q \in Request : (PastNew(q) => PastNew(q)') /\ (Settled(q) => Settled(q)')
  BY <1>1 DEF PastNew, Settled, Prep
<1>7. FieldInv'
  <2>1. PastNew(r)'
    BY <1>1 DEF PastNew
  <2>2. ASSUME NEW q \in Request \ {r}, pc'[q] \in Window PROVE q \in clash' /\ r \in clash'
    BY <1>1, <2>2 DEF NewParamMap, Inside
  <2> QED
    BY <1>1, <2>1, <2>2, NoneAssumption DEF FieldInv
<1>8. HeapInv'
  BY <1>1, <1>6, NoneAssumption DEF IInv, HeapInv, OwnMap, NoParams, TypeOK, MapType, Params
<1>9. JobInv'
  <2> SUFFICES ASSUME NEW j \in jobs PROVE JobInv!(j)'
    BY <1>1 DEF JobInv, jobVars
  <2>1. JobInv!(j) /\ j.map \in Request /\ j.by \in Request
    BY DEF IInv, JobInv, TypeOK, JobType
  <2>2. j.map # r /\ j.by # r
    BY <1>1, <2>1 DEF PastNew, Settled, Prep
  <2> QED
    BY <1>1, <1>6, <2>1, <2>2 DEF OwnMap
<1>10. ExecInv'
  BY <1>1, <1>6 DEF IInv, ExecInv, TypeOK, ExecType, jobVars
<1> QED
  BY <1>4, <1>5, <1>7, <1>8, <1>9, <1>10 DEF IInv

LEMMA PutParamsInv == ASSUME IInv, NEW r \in Request, PutParams(r) PROVE IInv'
<1> DEFINE m == svcParamMap
<1>1. /\ pc[r] = "put" /\ m \in Request /\ PastNew(m)
      /\ m = r \/ (r \in clash /\ m \in clash)
      /\ \A q \in Request \ {r} : pc'[q] = pc[q]
      /\ pc'[r] = "regi"
      /\ UNCHANGED <<bts, lvl, wrk_dt, exit_flag, suc_yon, svcParamMap, jobVars, fileVars, tabVars,
                     envVars, histVars>>
  BY DEF PutParams, Goto, IInv, FieldInv, Window, TypeOK, WebType, MapType
<1>2. /\ \A q \in Request \ {m} : heap'[q] = heap[q]
      /\ heap'[m].own = r
      /\ (IF lvl[r] = "L01" THEN heap'[m].full ELSE heap'[m].incre) = r
      /\ lvl[r] = "L01" /\ Runnable(bts[r]) => heap'[m].run[Avt[bts[r]]] = r
      /\ heap' \in [Request -> Params]
  <2>1. heap[m] \in Params /\ bts[r] \in Target /\ Avt[bts[r]] \in Engine
    BY <1>1 DEF IInv, TypeOK, MapType, WebType, Engine
  <2>2. PICK f : /\ f = IF lvl[r] = "L01" /\ Runnable(bts[r])
                         THEN [heap[m].run EXCEPT ![Avt[bts[r]]] = r] ELSE heap[m].run
    OBVIOUS
  <2>3. /\ f \in [Engine -> Request \cup {None}]
        /\ lvl[r] = "L01" /\ Runnable(bts[r]) => f[Avt[bts[r]]] = r
    BY <2>1, <2>2 DEF Params
  <2>4. heap' = [heap EXCEPT ![m] =
                   [own |-> r, run |-> f,
                    full  |-> IF lvl[r] = "L01" THEN r ELSE heap[m].full,
                    incre |-> IF lvl[r] = "L02" THEN r ELSE heap[m].incre]]
    BY <2>2 DEF PutParams
  <2> QED
    BY <1>1, <2>1, <2>3, <2>4 DEF IInv, TypeOK, MapType, Params, WebType, Level
<1>4. TypeOK'
  BY <1>1, <1>2 DEF PutParams, Goto, IInv, TypeOK, WebType, MapType, JobType, ExecType,
     TabType, EnvType, FileType, PC, Prep, jobVars, fileVars, tabVars, envVars, histVars
<1>5. StampInv'
  BY <1>1 DEF IInv, StampInv, Begun, envVars
<1>6. \A q \in Request : (PastNew(q) => PastNew(q)') /\ (Settled(q) => Settled(q)')
  BY <1>1 DEF PastNew, Settled, Prep
<1>7. FieldInv'
  BY <1>1, <1>6 DEF IInv, FieldInv, Window, histVars
<1>8. HeapInv'
  <2>1. PastNew(r)'
    BY <1>1 DEF PastNew
  <2>2. ASSUME NEW q \in Request, heap'[q].own # None
        PROVE  PastNew(heap[q].own)' /\ (heap'[q].own \notin clash' => heap'[q].own = q)
    <3>1. CASE q = m
      BY <1>1, <1>2, <2>1, <3>1 DEF histVars
    <3>2. CASE q # m
      <4>1. heap'[q] = heap[q] /\ heap[q].own \in Request
        BY <1>2, <2>2, <3>2 DEF IInv, TypeOK, MapType, Params
      <4> QED
        BY <1>1, <1>6, <2>2, <4>1 DEF IInv, HeapInv, histVars
    <3> QED
      BY <3>1, <3>2
  <2>3. ASSUME NEW q \in Request, q \notin clash', pc'[q] = "regi" PROVE OwnMap(q)'
    BY <1>1, <1>2, <2>3 DEF IInv, HeapInv, OwnMap, histVars
  <2>4. ASSUME NEW q \in Request, NEW v \in Engine, heap'[q].run[v] # None PROVE heap'[q].full # None
    <3>1. CASE q = m
      <4>1. lvl[r] = "L01" => heap'[m].full = r
        BY <1>2
      <4>2. lvl[r] # "L01" => heap'[m].run = heap[m].run /\ heap'[m].full = heap[m].full
        BY <1>1 DEF PutParams, IInv, TypeOK, MapType
      <4> QED
        BY <1>1, <2>4, <3>1, <4>1, <4>2, NoneAssumption DEF IInv, HeapInv
    <3>2. CASE q # m
      BY <1>2, <2>4, <3>2 DEF IInv, HeapInv
    <3> QED
      BY <3>1, <3>2
  <2> QED
    BY <2>2, <2>3, <2>4 DEF HeapInv
<1>9. JobInv'
  <2> SUFFICES ASSUME NEW j \in jobs PROVE JobInv!(j)'
    BY <1>1 DEF JobInv, jobVars
  <2>1. JobInv!(j) /\ j.map \in Request /\ j.by \in Request
    BY DEF IInv, JobInv, TypeOK, JobType
  <2>2. j.by # r
    BY <1>1, <2>1 DEF Settled, Prep
  <2>3. heap'[j.map].own # None
    BY <1>1, <1>2, <2>1, NoneAssumption
  <2>4. ASSUME j.by \notin clash PROVE OwnMap(j.by)'
    <3>1. j.by # m
      BY <1>1, <2>2, <2>4
    <3> QED
      BY <1>1, <1>2, <2>1, <2>4, <3>1 DEF OwnMap
  <2> QED
    BY <1>1, <1>6, <2>1, <2>3, <2>4 DEF histVars
<1>10. ExecInv'
  BY <1>1, <1>6 DEF IInv, ExecInv, TypeOK, ExecType, jobVars, histVars
<1> QED
  BY <1>4, <1>5, <1>7, <1>8, <1>9, <1>10 DEF IInv

LEMMA RegiSchedulerInv == ASSUME IInv, NEW r \in Request, RegiScheduler(r) PROVE IInv'
<1> DEFINE m == svcParamMap  c == heap[svcParamMap]
<1>1. /\ pc[r] = "regi" /\ m \in Request /\ PastNew(m)
      /\ m = r \/ (r \in clash /\ m \in clash)
      /\ c \in Params
      /\ \A q \in Request \ {r} : pc'[q] = pc[q]
      /\ pc'[r] \in {"error", "polling"}
      /\ UNCHANGED <<bts, lvl, wrk_dt, exit_flag, suc_yon, mapVars, exec, fileVars, tabVars,
                     envVars, histVars>>
  BY DEF RegiScheduler, Goto, IInv, FieldInv, Window, TypeOK, WebType, MapType
<1>2. c.own # None => NewJob(r, c) \in [cls : Level, nam : {Nam[t] : t \in Target}, dt : Stamp,
                    map : Request, by : Request, due : BOOLEAN]
  BY <1>1 DEF NewJob, Params, IInv, TypeOK, WebType
<1>3. jobs' \subseteq jobs \cup {NewJob(r, c)} /\ (c.own = None => jobs' = jobs)
  BY DEF RegiScheduler
<1>4. TypeOK'
  <2>1. pc' \in [Request -> PC]
    BY <1>1 DEF RegiScheduler, Goto, IInv, TypeOK, WebType, PC, Polls
  <2>2. JobType'
    BY <1>2, <1>3 DEF IInv, TypeOK, JobType
  <2> QED
    BY <1>1, <2>1, <2>2 DEF IInv, TypeOK, WebType, MapType, ExecType,
       TabType, EnvType, FileType, mapVars, fileVars, tabVars, envVars, histVars
<1>5. StampInv'
  BY <1>1 DEF IInv, StampInv, Begun, envVars
<1>6. \A q \in Request : (PastNew(q) => PastNew(q)') /\ (Settled(q) => Settled(q)')
  BY <1>1 DEF PastNew, Settled, Prep
<1>7. FieldInv'
  BY <1>1, <1>6 DEF IInv, FieldInv, Window, mapVars, histVars, TypeOK, MapType
<1>8. HeapInv'
  BY <1>1, <1>6 DEF IInv, HeapInv, OwnMap, mapVars, histVars, TypeOK, MapType, Params
<1>9. JobInv'
  <2> SUFFICES ASSUME NEW j \in jobs' PROVE JobInv!(j)'
    BY DEF JobInv
  <2>1. CASE j \in jobs
    <3>1. JobInv!(j) /\ j.map \in Request /\ j.by \in Request
      BY <2>1 DEF IInv, JobInv, TypeOK, JobType
    <3> QED
      BY <1>1, <1>6, <3>1 DEF OwnMap, mapVars, histVars
  <2>2. CASE j = NewJob(r, c) /\ c.own # None
    <3>1. c.own \in Request /\ PastNew(c.own) /\ (c.own \notin clash => c.own = m)
      BY <1>1, <2>2 DEF IInv, HeapInv, Params
    <3>2. Settled(r)'
      BY <1>1 DEF Settled, Prep
    <3>3. m \notin clash => r = m
      BY <1>1
    <3>4. r \notin clash => m = r /\ OwnMap(r) /\ c.own = r
      BY <1>1 DEF IInv, HeapInv, OwnMap
    <3>5. /\ j.map = m /\ j.by = r /\ j.cls = lvl[r]
          /\ j.nam = Nam[bts[c.own]] /\ j.dt = wrk_dt[c.own]
      BY <2>2 DEF NewJob
    <3>6. OwnMap(r) => OwnMap(r)'
      BY <1>1 DEF OwnMap, mapVars
    <3>7. c.own \notin clash => r = c.own
      BY <1>1, <3>1
    <3>8. \E o \in Request : /\ PastNew(o)' /\ j.nam = Nam[bts'[o]] /\ j.dt = wrk_dt'[o]
                             /\ o \notin clash' => j.by = o
      BY <1>1, <1>6, <3>1, <3>5, <3>7 DEF histVars
    <3>9. heap'[m].own # None /\ PastNew(m)'
      BY <1>1, <1>6, <2>2 DEF mapVars
    <3> QED
      BY <1>1, <3>2, <3>3, <3>4, <3>5, <3>6, <3>8, <3>9 DEF histVars, mapVars
  <2> QED
    BY <1>3, <2>1, <2>2
<1>10. ExecInv'
  BY <1>1, <1>6 DEF IInv, ExecInv, TypeOK, ExecType, histVars
<1> QED
  BY <1>4, <1>5, <1>7, <1>8, <1>9, <1>10 DEF IInv

-----------------------------------------------------------------------------
(***************************************************************************)
(* Quartz, the polls of the browser, the clock and a restart.              *)
(***************************************************************************)
LEMMA FireInv == ASSUME IInv, NEW x \in Exec, NEW j \in jobs, Fire(x, j) PROVE IInv'
<1> DEFINE c == heap[j.map]
           k == [j EXCEPT !.due = FALSE]
           e == [stage |-> IF Unusable(j, c) THEN "crashed" ELSE "start",
                 cls |-> j.cls, own |-> c.own, by |-> j.by, run |-> RunCmd(c),
                 cmd |-> IF j.cls = "L01" THEN c.full ELSE c.incre]
<1>1. /\ exec[x].stage = "free" /\ jobs' = (jobs \ {j}) \cup {k}
      /\ exec' = [exec EXCEPT ![x] = e]
      /\ UNCHANGED <<webVars, mapVars, fileVars, tabVars, envVars, histVars>>
  BY DEF Fire
<1>2. /\ j \in [cls : Level, nam : {Nam[t] : t \in Target}, dt : Stamp,
                map : Request, by : Request, due : BOOLEAN]
      /\ c \in Params /\ c.own # None
      /\ JobInv!(j)
  BY DEF IInv, TypeOK, JobType, MapType, JobInv
<1>3. /\ k \in [cls : Level, nam : {Nam[t] : t \in Target}, dt : Stamp,
                map : Request, by : Request, due : BOOLEAN]
      /\ k.cls = j.cls /\ k.nam = j.nam /\ k.dt = j.dt /\ k.map = j.map /\ k.by = j.by
  BY <1>2
<1>4. e \in [stage : Stage, cls : Level, own : Request \cup {None},
             run : Request \cup {None}, cmd : Request \cup {None},
             by : Request \cup {None}]
  <2>1. Avt[bts[c.own]] \in Engine
    BY <1>2 DEF IInv, TypeOK, WebType, Engine, Params
  <2>2. RunCmd(c) \in Request \cup {None}
    BY <1>2, <2>1 DEF RunCmd, Params
  <2> QED
    BY <1>2, <2>2 DEF Params, Stage, Active
<1>5. TypeOK'
  <2>1. JobType'
    BY <1>1, <1>3 DEF IInv, TypeOK, JobType
  <2>2. ExecType'
    BY <1>1, <1>4 DEF IInv, TypeOK, ExecType
  <2> QED
    BY <1>1, <2>1, <2>2 DEF IInv, TypeOK, WebType, MapType, TabType, EnvType, FileType,
       webVars, mapVars, fileVars, tabVars, envVars, histVars
<1>6. StampInv' /\ FieldInv' /\ HeapInv'
  BY <1>1 DEF IInv, StampInv, FieldInv, HeapInv, Begun, PastNew, OwnMap,
     webVars, mapVars, envVars, histVars
<1>7. JobInv'
  <2> SUFFICES ASSUME NEW i \in jobs' PROVE JobInv!(i)'
    BY DEF JobInv
  <2>1. PICK h \in jobs : i.cls = h.cls /\ i.nam = h.nam /\ i.dt = h.dt /\ i.map = h.map /\ i.by = h.by
    BY <1>1, <1>3
  <2>2. JobInv!(h)
    BY DEF IInv, JobInv
  <2> QED
    BY <1>1, <2>1, <2>2 DEF PastNew, Settled, OwnMap, webVars, mapVars, histVars
<1>9. RunCmd(c) # None => c.full # None
  <2>1. Avt[bts[c.own]] \in Engine
    BY <1>2 DEF IInv, TypeOK, WebType, Engine, Params
  <2> QED
    BY <1>2, <2>1 DEF RunCmd, IInv, HeapInv
<1>8. ExecInv'
  <2> SUFFICES ASSUME NEW y \in Exec PROVE ExecInv!(y)'
    BY DEF ExecInv
  <2>1. CASE y # x
    <3>1. exec'[y] = exec[y] /\ ExecInv!(y)
      BY <1>1, <2>1 DEF IInv, ExecInv, TypeOK, ExecType
    <3> QED
      BY <1>1, <3>1 DEF PastNew, Settled, webVars, mapVars, histVars
  <2>2. CASE y = x
    <3>1. exec'[y] = e
      BY <1>1, <2>2 DEF IInv, TypeOK, ExecType
    <3>2. PastNew(c.own) /\ (c.own \notin clash => c.own = j.map)
      BY <1>2 DEF IInv, HeapInv
    <3>3. /\ e.stage \in Active /\ e.cls = "L01" => e.run # None
          /\ e.stage \in Active => e.cmd # None
      BY <1>2, <1>9, NoneAssumption DEF Unusable, Active, Full, Incre, Level
    <3>4. c.own \notin clash => j.by = c.own
      BY <1>2, <3>2
    <3>5. j.by \notin clash => /\ c.own = j.by /\ e.cmd = j.by /\ j.cls = lvl[j.by]
      BY <1>2 DEF OwnMap, Level
    <3>6. e.stage # "free" /\ j.by # None
      BY <1>2, NoneAssumption
    <3> QED
      BY <1>1, <1>2, <3>1, <3>2, <3>3, <3>4, <3>5, <3>6 DEF PastNew, Settled, webVars, histVars
  <2> QED
    BY <2>1, <2>2
<1> QED
  BY <1>5, <1>6, <1>7, <1>8 DEF IInv

LEMMA RepeatInv == ASSUME IInv, NEW j \in jobs, Repeat(j) PROVE IInv'
<1> DEFINE k == [j EXCEPT !.due = TRUE]
<1>1. /\ jobs' = (jobs \ {j}) \cup {k} /\ repeats' = repeats + 1 /\ repeats < MaxRepeat
      /\ UNCHANGED <<webVars, mapVars, exec, fileVars, tabVars, clock, restarts, histVars>>
  BY DEF Repeat
<1>2. /\ k \in [cls : Level, nam : {Nam[t] : t \in Target}, dt : Stamp,
                map : Request, by : Request, due : BOOLEAN]
      /\ k.cls = j.cls /\ k.nam = j.nam /\ k.dt = j.dt /\ k.map = j.map /\ k.by = j.by
  BY DEF IInv, TypeOK, JobType
<1>3. repeats' \in 0 .. MaxRepeat
  BY <1>1 DEF IInv, TypeOK, EnvType
<1>4. JobType'
  BY <1>1, <1>2 DEF IInv, TypeOK, JobType
<1>5. TypeOK'
  BY <1>1, <1>3, <1>4 DEF IInv, TypeOK, WebType, MapType, ExecType, TabType, EnvType, FileType,
     webVars, mapVars, fileVars, tabVars, histVars
<1>6. StampInv' /\ FieldInv' /\ HeapInv' /\ ExecInv'
  BY <1>1 DEF IInv, StampInv, FieldInv, HeapInv, ExecInv, Begun, PastNew, Settled, OwnMap,
     webVars, mapVars, histVars
<1>7. JobInv'
  <2> SUFFICES ASSUME NEW i \in jobs' PROVE JobInv!(i)'
    BY DEF JobInv
  <2>1. PICK h \in jobs : i.cls = h.cls /\ i.nam = h.nam /\ i.dt = h.dt /\ i.map = h.map /\ i.by = h.by
    BY <1>1, <1>2
  <2>2. JobInv!(h)
    BY DEF IInv, JobInv
  <2> QED
    BY <1>1, <2>1, <2>2 DEF PastNew, Settled, OwnMap, webVars, mapVars, histVars
<1> QED
  BY <1>5, <1>6, <1>7 DEF IInv

LEMMA BakRunEndChkInv ==
    ASSUME IInv, NEW r \in Request, BakRunEndChk(r) \/ CloseWindow(r)
    PROVE  IInv'
<1>1. UNCHANGED <<bts, lvl, wrk_dt, exit_flag, mapVars, jobVars, fileVars, envVars, histVars>>
  BY DEF BakRunEndChk, PollEnd, PollJob, ReadLog, InsertLog, CloseWindow, WebOnly
<1>2. PICK p \in (Polls \ {"polling"}) \cup {"done", "error"} : Goto(r, p) /\ pc[r] \in Polls
  BY DEF BakRunEndChk, PollEnd, PollJob, ReadLog, InsertLog, CloseWindow, Polls
<1>3. DirOf(r) \in Dir
  BY DEF IInv, TypeOK, WebType, DirOf, Dir
<1>4. suc_yon' \in [Request -> {"S01", "S02"}]
  BY DEF BakRunEndChk, PollEnd, PollJob, ReadLog, InsertLog, CloseWindow, IInv, TypeOK, WebType, tabVars
<1>5. TabType'
  BY <1>3 DEF BakRunEndChk, PollEnd, PollJob, ReadLog, InsertLog, CloseWindow, IInv, TypeOK,
     TabType, WebType, tabVars
<1>6. TypeOK'
  BY <1>1, <1>2, <1>4, <1>5 DEF Goto, IInv, TypeOK, WebType, MapType, JobType, ExecType, EnvType,
     FileType, PC, Polls, mapVars, jobVars, fileVars, envVars, histVars
<1> QED
  BY <1>1, <1>2, <1>6, MoveInv DEF jobVars, envVars, PC, Polls, Prep

LEMMA TickInv == ASSUME IInv, Tick PROVE IInv'
<1>1. /\ clock' = clock + 1 /\ clock < MaxClock
      /\ UNCHANGED <<webVars, mapVars, jobVars, fileVars, tabVars, repeats, restarts, histVars>>
  BY DEF Tick
<1>2. clock' \in Stamp /\ clock' > 0
  BY <1>1 DEF IInv, TypeOK, EnvType, Stamp
<1> QED
  BY <1>1, <1>2 DEF IInv, TypeOK, WebType, MapType, JobType, ExecType, TabType, EnvType, FileType,
     StampInv, FieldInv, HeapInv, JobInv, ExecInv, Begun, PastNew, Settled, OwnMap,
     webVars, mapVars, jobVars, fileVars, tabVars, histVars

LEMMA RestartInv == ASSUME IInv, Restart PROVE IInv'
<1>1. /\ restarts' = restarts + 1 /\ restarts < MaxRestart
      /\ pc' = [r \in Request |-> IF pc[r] \in {"idle", "polling", "done"} THEN pc[r] ELSE "error"]
      /\ svcParamMap' = None /\ heap' = [r \in Request |-> NoParams]
      /\ jobs' = {} /\ lost' = lost \cup {j.by : j \in jobs}
      /\ exec' = [x \in Exec |-> IF exec[x].stage \in Active
                                 THEN [exec[x] EXCEPT !.stage = "dead"] ELSE exec[x]]
      /\ UNCHANGED <<bts, lvl, wrk_dt, exit_flag, suc_yon, fileVars, tabVars, clock, repeats, clash>>
  BY DEF Restart
<1>2. pc' \in [Request -> PC] /\ \A r \in Request : pc[r] = "idle" <=> pc'[r] = "idle"
  BY <1>1 DEF IInv, TypeOK, WebType, PC, Polls
<1>3. heap' \in [Request -> Params]
  BY <1>1 DEF NoParams, Params
<1>4. lost' \subseteq Request
  BY <1>1 DEF IInv, TypeOK, EnvType, JobType
<1>5. \A x \in Exec : /\ exec'[x].stage \in Stage \ Active
                      /\ exec'[x].own = exec[x].own /\ exec'[x].by = exec[x].by
                      /\ exec'[x].run = exec[x].run
                      /\ exec'[x].cmd = exec[x].cmd /\ exec'[x].cls = exec[x].cls
                      /\ exec'[x].stage = "free" <=> exec[x].stage = "free"
                      /\ exec'[x] \in [stage : Stage, cls : Level, own : Request \cup {None},
                                       run : Request \cup {None}, cmd : Request \cup {None},
                                       by : Request \cup {None}]
  BY <1>1 DEF IInv, TypeOK, ExecType, Stage, Active, Full, Incre
<1>6. restarts' \in 0 .. MaxRestart
  BY <1>1 DEF IInv, TypeOK, EnvType
<1>7. ExecType'
  BY <1>1, <1>5 DEF ExecType
<1>8. TypeOK'
  BY <1>1, <1>2, <1>3, <1>4, <1>6, <1>7 DEF IInv, TypeOK, WebType, MapType, JobType, TabType,
     EnvType, FileType, fileVars, tabVars
<1>9. StampInv'
  BY <1>1, <1>2 DEF IInv, StampInv, Begun
<1>10. \A r \in Request : (PastNew(r) => PastNew(r)') /\ (Settled(r) => Settled(r)')
                          /\ pc'[r] \notin Window /\ pc'[r] # "regi"
  BY <1>1 DEF PastNew, Settled, Prep, Window
<1>11. FieldInv' /\ HeapInv' /\ JobInv'
  BY <1>1, <1>10 DEF FieldInv, HeapInv, JobInv, NoParams
<1>12. ExecInv'
  <2> SUFFICES ASSUME NEW x \in Exec PROVE ExecInv!(x)'
    BY DEF ExecInv
  <2>1. ExecInv!(x) /\ exec[x].own \in Request \cup {None} /\ exec[x].by \in Request \cup {None}
    BY DEF IInv, ExecInv, TypeOK, ExecType
  <2> QED
    BY <1>1, <1>5, <1>10, <2>1
<1> QED
  BY <1>8, <1>9, <1>11, <1>12 DEF IInv

LEMMA NextInv == IInv /\ [Next]_vars => IInv'
<1> SUFFICES ASSUME IInv, [Next]_vars PROVE IInv'
  OBVIOUS
<1>1. CASE UNCHANGED vars
  BY <1>1 DEF vars, webVars, mapVars, jobVars, fileVars, tabVars, envVars, histVars, IInv, TypeOK,
     WebType, MapType, JobType, ExecType, TabType, EnvType, FileType, StampInv, FieldInv, HeapInv,
     JobInv, ExecInv, Begun, PastNew, Settled, OwnMap
<1>2. ASSUME NEW r \in Request, BakRunExe(r) PROVE IInv'
  BY <1>2, MakeDirInv, FindBaseInv, DropOldJobInv, NewParamMapInv, PutParamsInv, RegiSchedulerInv
     DEF BakRunExe
<1>3. ASSUME NEW r \in Request, BakRunEndChk(r) \/ CloseWindow(r) PROVE IInv'
  BY <1>3, BakRunEndChkInv
<1>4. ASSUME NEW x \in Exec, JobStep(x) PROVE IInv'
  BY <1>4, JobStepInv, KillInv
<1>5. ASSUME NEW x \in Exec, NEW j \in jobs, Fire(x, j) PROVE IInv'
  BY <1>5, FireInv
<1>6. ASSUME NEW j \in jobs, Repeat(j) PROVE IInv'
  BY <1>6, RepeatInv
<1>7. CASE Tick \/ Restart
  BY <1>7, TickInv, RestartInv
<1> QED
  BY <1>1, <1>2, <1>3, <1>4, <1>5, <1>6, <1>7 DEF Next

-----------------------------------------------------------------------------
\* The inductive invariant holds in every reachable state.
THEOREM Inductive == Spec => []IInv
BY InitInv, NextInv, PTL DEF Spec

\* Every variable of the backup run keeps its type: in particular wrk_dt stays a
\* second that has passed and svcParamMap refers to the map of some request.
THEOREM TypeCorrect == Spec => []TypeOK
<1>1. IInv => TypeOK
  BY DEF IInv
<1> QED
  BY <1>1, Inductive, PTL

\* Whatever number of windows, servers and firings: an execution whose request
\* met no other one inside startScheduler uses that request's parameters only.
THEOREM OwnParameters == Spec => []RunUsesItsOwnParameters
<1>1. IInv => RunUsesItsOwnParameters
  BY DEF IInv, ExecInv, RunUsesItsOwnParameters
<1> QED
  BY <1>1, Inductive, PTL

-----------------------------------------------------------------------------
(***************************************************************************)
(* A full job is not left behind.                                          *)
(***************************************************************************)

\* The server of a request that has its job stays.
LEMMA BtsStays ==
    ASSUME IInv, [Next]_vars, NEW r \in Request, Settled(r)
    PROVE  bts'[r] = bts[r]
<1>1. ASSUME NEW q \in Request, MakeDir(q) PROVE bts'[r] = bts[r]
  BY <1>1 DEF MakeDir, Settled, IInv, TypeOK, WebType
<1>2. ASSUME NEW x \in Exec, JobStep(x) PROVE bts' = bts
  BY <1>2, StageStep DEF StageChange, JobOnly, ScheduleKill, webVars
<1>3. ASSUME NEW q \in Request, BakRunExe(q), ~MakeDir(q) PROVE bts' = bts
  BY <1>3 DEF BakRunExe, FindBase, DropOldJob, NewParamMap, PutParams, RegiScheduler
<1>4. ASSUME NEW q \in Request, BakRunEndChk(q) \/ CloseWindow(q) PROVE bts' = bts
  BY <1>4 DEF BakRunEndChk, PollEnd, PollJob, ReadLog, InsertLog, CloseWindow, WebOnly
<1> QED
  BY <1>1, <1>2, <1>3, <1>4 DEF Next, Fire, Repeat, Tick, Restart, vars, webVars

\* What an undisturbed request with a backup command put into its own map holds
\* that command, and nobody takes it out again.
RunInv ==
    \A r \in Request :
        heap[r].own = r /\ r \notin clash /\ lvl[r] = "L01" /\ Runnable(bts[r]) =>
            heap[r].run[Avt[bts[r]]] = r

LEMMA RunStep == ASSUME IInv, RunInv, [Next]_vars PROVE RunInv'
<1> SUFFICES ASSUME NEW r \in Request, heap'[r].own = r, r \notin clash', lvl'[r] = "L01",
                    Runnable(bts'[r])
             PROVE  heap'[r].run[Avt[bts'[r]]] = r
  BY DEF RunInv, Runnable
<1>0. /\ heap \in [Request -> Params] /\ bts \in [Request -> Target] /\ lvl \in [Request -> Level]
      /\ svcParamMap \in Request \cup {None}
      /\ heap[r].own = r => PastNew(r)
  BY NoneAssumption DEF IInv, TypeOK, MapType, WebType, HeapInv
<1>1. CASE heap' = heap /\ bts'[r] = bts[r] /\ lvl'[r] = lvl[r] /\ clash \subseteq clash'
  BY <1>1 DEF RunInv
<1>2. ASSUME NEW q \in Request, MakeDir(q) PROVE heap'[r].run[Avt[bts'[r]]] = r
  <2>1. heap' = heap /\ clash' = clash /\ q # r
    BY <1>0, <1>2 DEF MakeDir, mapVars, histVars, PastNew
  <2> QED
    BY <1>0, <1>1, <1>2, <2>1 DEF MakeDir
<1>3. ASSUME NEW q \in Request, NewParamMap(q) PROVE heap'[r].run[Avt[bts'[r]]] = r
  <2>1. q # r
    BY <1>0, <1>3, NoneAssumption DEF NewParamMap, NoParams
  <2> QED
    BY <1>0, <1>3, <2>1 DEF NewParamMap, RunInv
<1>4. ASSUME NEW q \in Request, PutParams(q) PROVE heap'[r].run[Avt[bts'[r]]] = r
  <2>1. /\ bts' = bts /\ lvl' = lvl /\ clash' = clash /\ pc[q] = "put" /\ svcParamMap # None
        /\ q = svcParamMap \/ (q \in clash /\ svcParamMap \in clash)
    BY <1>4 DEF PutParams, histVars, IInv, FieldInv, Window
  <2>2. CASE r # svcParamMap
    <3>1. heap'[r] = heap[r]
      BY <1>0, <1>4, <2>1, <2>2 DEF PutParams
    <3> QED
      BY <2>1, <3>1 DEF RunInv
  <2>3. CASE r = svcParamMap
    <3>1. q = r
      BY <2>1, <2>3
    <3>2. heap[r] \in Params /\ bts[r] \in Target /\ Avt[bts[r]] \in Engine
      BY <1>0 DEF Engine
    <3>3. heap'[r].run = [heap[r].run EXCEPT ![Avt[bts[r]]] = r]
      BY <1>0, <1>4, <2>1, <2>3, <3>1 DEF PutParams
    <3> QED
      BY <2>1, <3>2, <3>3 DEF Params
  <2> QED
    BY <2>2, <2>3
<1>5. ASSUME NEW q \in Request, BakRunExe(q), ~MakeDir(q), ~NewParamMap(q), ~PutParams(q)
      PROVE  heap' = heap /\ bts' = bts /\ lvl' = lvl /\ clash' = clash
  BY <1>5 DEF BakRunExe, FindBase, DropOldJob, RegiScheduler, mapVars, histVars
<1>6. ASSUME NEW q \in Request, BakRunEndChk(q) \/ CloseWindow(q)
      PROVE  heap' = heap /\ bts' = bts /\ lvl' = lvl /\ clash' = clash
  BY <1>6 DEF BakRunEndChk, PollEnd, PollJob, ReadLog, InsertLog, CloseWindow, WebOnly, mapVars, histVars
<1>7. ASSUME NEW x \in Exec, JobStep(x)
      PROVE  heap' = heap /\ bts' = bts /\ lvl' = lvl /\ clash' = clash
  BY <1>7, StageStep DEF StageChange, JobOnly, ScheduleKill, webVars, mapVars, histVars
<1>8. ~Restart
  BY NoneAssumption DEF Restart, NoParams
<1> QED
  BY <1>1, <1>2, <1>3, <1>4, <1>5, <1>6, <1>7, <1>8
     DEF Next, Fire, Repeat, Tick, vars, webVars, mapVars, histVars

\* Only schedulekill ends an execution of an undisturbed full job whose command
\* exists, and it
\* removes the job under the name the execution's own parameters give it.
LEMMA LeftBehindStep ==
    ASSUME IInv, RunInv, FullJobIsNotLeftBehind, [Next]_vars PROVE FullJobIsNotLeftBehind'
<1> USE DEF FullJobIsNotLeftBehind, Runs, Running
<1>0. IInv'
  BY NextInv
<1>a. \A j \in jobs : bts'[j.by] = bts[j.by] /\ j.by \in Request
  <2>1. \A r \in Request : Settled(r) => bts'[r] = bts[r]
    BY BtsStays
  <2> QED
    BY <2>1 DEF IInv, TypeOK, JobType, JobInv
<1>1. ASSUME jobs' \subseteq jobs, exec' = exec, clash \subseteq clash'
      PROVE  FullJobIsNotLeftBehind'
  BY <1>1, <1>a
<1>2. CASE UNCHANGED vars
  BY <1>1, <1>2 DEF vars, jobVars, histVars
<1>3. ASSUME NEW r \in Request, BakRunExe(r), ~RegiScheduler(r) PROVE FullJobIsNotLeftBehind'
  BY <1>1, <1>3 DEF BakRunExe, MakeDir, FindBase, DropOldJob, NewParamMap, PutParams, jobVars, histVars
<1>4. ASSUME NEW r \in Request, RegiScheduler(r) PROVE FullJobIsNotLeftBehind'
  <2>1. /\ jobs' \subseteq jobs \cup {NewJob(r, heap[svcParamMap])}
        /\ UNCHANGED <<exec, histVars>>
    BY <1>4 DEF RegiScheduler
  <2> QED
    BY <1>a, <2>1 DEF NewJob, histVars
<1>5. ASSUME NEW r \in Request, BakRunEndChk(r) \/ CloseWindow(r) PROVE FullJobIsNotLeftBehind'
  <2>1. UNCHANGED <<jobVars, histVars>>
    BY <1>5 DEF BakRunEndChk, PollEnd, PollJob, ReadLog, InsertLog, CloseWindow, WebOnly
  <2> QED
    BY <1>1, <2>1 DEF jobVars, histVars
<1>6. ASSUME NEW x \in Exec, JobStep(x), ~ScheduleKill(x) PROVE FullJobIsNotLeftBehind'
  <2>1. StageChange(x)
    BY <1>6, StageStep
  <2>2. PICK s \in Active \cup {"crashed"} :
           exec' = [exec EXCEPT ![x].stage = s] /\ (s = "crashed" => exec[x].cls = "L02")
    BY <2>1 DEF StageChange
  <2>3. jobs' = jobs /\ clash' = clash
    BY <2>1 DEF StageChange, JobOnly, histVars
  <2>4. SUFFICES ASSUME NEW j \in jobs, j.cls = "L01", j.by \notin clash, ~j.due,
                        Runnable(bts[j.by])
                 PROVE  \E y \in Exec : exec'[y].by = j.by /\ exec'[y].stage \in Active
    BY <1>a, <2>3
  <2>5. PICK y \in Exec : exec[y].by = j.by /\ exec[y].stage \in Active
    BY <2>4
  <2>6. exec'[y].by = j.by /\ (y # x => exec'[y] = exec[y]) /\ (y = x => exec'[y].stage = s)
    BY <2>2, <2>5 DEF IInv, TypeOK, ExecType
  <2>7. exec[y].cls = "L01"
    BY <2>4, <2>5 DEF IInv, ExecInv, JobInv, Active, Full, Incre
  <2> QED
    BY <2>2, <2>5, <2>6, <2>7
<1>7. ASSUME NEW x \in Exec, ScheduleKill(x) PROVE FullJobIsNotLeftBehind'
  <2>1. /\ jobs' = jobs \ Named(exec[x].cls, exec[x].own) /\ clash' = clash
        /\ exec' = [exec EXCEPT ![x].stage = "ended"] /\ exec[x].stage = "kill"
    BY <1>7 DEF ScheduleKill, Step, histVars
  <2>2. SUFFICES ASSUME NEW j \in jobs', j.cls = "L01", j.by \notin clash, ~j.due,
                        Runnable(bts[j.by])
                 PROVE  \E y \in Exec : exec'[y].by = j.by /\ exec'[y].stage \in Active
    BY <1>a, <2>1
  <2>3. PICK y \in Exec : exec[y].by = j.by /\ exec[y].stage \in Active
    BY <2>1, <2>2
  <2>4. JobInv!(j) /\ ExecInv!(y)
    BY <2>1 DEF IInv, JobInv, ExecInv
  <2>5. y # x
    <3> SUFFICES ASSUME y = x PROVE FALSE
      OBVIOUS
    <3>1. exec[x].own = j.by /\ exec[x].cls = j.cls
      BY <2>2, <2>3, <2>4 DEF Active, Full, Incre
    <3>2. j \in Named(exec[x].cls, exec[x].own)
      BY <2>1, <2>2, <2>4, <3>1 DEF Named
    <3> QED
      BY <2>1, <3>2
  <2> QED
    BY <2>1, <2>3, <2>5 DEF IInv, TypeOK, ExecType
<1>8. ASSUME NEW x \in Exec, NEW j \in jobs, Fire(x, j) PROVE FullJobIsNotLeftBehind'
  <2>1. /\ exec[x].stage = "free" /\ jobs' = (jobs \ {j}) \cup {[j EXCEPT !.due = FALSE]}
        /\ clash' = clash
        /\ \A y \in Exec \ {x} : exec'[y] = exec[y]
        /\ exec'[x].by = j.by /\ exec'[x].stage \in {"start", "crashed"}
    BY <1>8 DEF Fire, histVars, IInv, TypeOK, ExecType
  <2>2. j.cls = "L01" /\ j.by \notin clash /\ Runnable(bts[j.by]) => exec'[x].stage = "start"
    <3> SUFFICES ASSUME j.cls = "L01", j.by \notin clash, Runnable(bts[j.by])
                 PROVE  ~Unusable(j, heap[j.map])
      BY <1>8 DEF Fire, IInv, TypeOK, ExecType
    <3>1. j.map = j.by /\ heap[j.by].own = j.by /\ lvl[j.by] = "L01" /\ j.by \in Request
      BY DEF IInv, JobInv, OwnMap, TypeOK, JobType
    <3>2. heap[j.by].run[Avt[bts[j.by]]] = j.by
      BY <3>1 DEF RunInv
    <3> QED
      BY <3>1, <3>2, NoneAssumption DEF Unusable, RunCmd
  <2>3. [j EXCEPT !.due = FALSE].by = j.by /\ [j EXCEPT !.due = FALSE].cls = j.cls
    BY DEF IInv, TypeOK, JobType
  <2>4. \A y \in Exec : exec[y].stage \in Active => y # x
    BY <2>1 DEF Active, Full, Incre
  <2>5. SUFFICES ASSUME NEW i \in jobs', i.cls = "L01", i.by \notin clash, ~i.due,
                        Runnable(bts[i.by])
                 PROVE  \E y \in Exec : exec'[y].by = i.by /\ exec'[y].stage \in Active
    <3>1. \A i \in jobs' : bts'[i.by] = bts[i.by]
      BY <1>a, <2>1, <2>3
    <3> QED
      BY <2>1, <3>1
  <2>6. CASE i \in jobs
    BY <2>1, <2>4, <2>5, <2>6
  <2>7. CASE i = [j EXCEPT !.due = FALSE]
    BY <2>1, <2>2, <2>3, <2>5, <2>7 DEF Active
  <2> QED
    BY <2>1, <2>6, <2>7
<1>9. ASSUME NEW j \in jobs, Repeat(j) PROVE FullJobIsNotLeftBehind'
  <2>1. /\ jobs' = (jobs \ {j}) \cup {[j EXCEPT !.due = TRUE]}
        /\ exec' = exec /\ clash' = clash /\ [j EXCEPT !.due = TRUE].due
    BY <1>9 DEF Repeat, histVars, IInv, TypeOK, JobType
  <2> QED
    BY <1>a, <2>1
<1>10. CASE Tick \/ Restart
  BY <1>1, <1>10 DEF Tick, Restart, jobVars, histVars
<1> QED
  BY <1>2, <1>3, <1>4, <1>5, <1>6, <1>7, <1>8, <1>9, <1>10 DEF Next, BakRunExe

\* However executions, requests and repeats interleave, an undisturbed full job
\* is registered only while it is due or being executed.
THEOREM FullJobLeavesScheduler == Spec => []FullJobIsNotLeftBehind
<1>1. Init => FullJobIsNotLeftBehind
  BY DEF Init, FullJobIsNotLeftBehind
<1>2. Init => RunInv
  BY NoneAssumption DEF Init, RunInv, NoParams
<1> QED
  BY <1>1, <1>2, RunStep, LeftBehindStep, Inductive, PTL DEF Spec

-----------------------------------------------------------------------------
(***************************************************************************)
(* An answered run is scheduled.                                           *)
(***************************************************************************)

\* A registered job, and the parameters of an execution, that bear the names of
\* r belong to r, or r has a twin.
LEMMA NamedIsOwn ==
    ASSUME IInv, NEW r \in Request, Undisturbed(r), Begun(r), NEW j \in Named(lvl[r], r)
    PROVE  j.by = r
<1>1. PICK o \in Request : /\ PastNew(o) /\ j.nam = Nam[bts[o]] /\ j.dt = wrk_dt[o]
                           /\ o \notin clash => j.by = o
  BY DEF Named, IInv, JobInv
<1>2. Begun(o)
  BY <1>1 DEF IInv, StampInv, PastNew
<1>3. o = r
  BY <1>1, <1>2 DEF Undisturbed, Alone, Twins, Named
<1> QED
  BY <1>1, <1>3 DEF Undisturbed

LEMMA ScheduledStep ==
    ASSUME IInv, AnsweredRunIsScheduled, [Next]_vars PROVE AnsweredRunIsScheduled'
<1> USE DEF AnsweredRunIsScheduled, Runs
<1> SUFFICES ASSUME NEW r \in Request,
                    (Answered(r) /\ Undisturbed(r) /\ r \notin lost)'
             PROVE  \/ \E x \in Exec : exec'[x].by = r
                    \/ \E j \in jobs' : j.by = r
  OBVIOUS
<1>0. /\ Answered(r)' /\ Undisturbed(r)' /\ r \notin lost'
      /\ exec \in [Exec -> [stage : Stage, cls : Level, own : Request \cup {None},
                            run : Request \cup {None}, cmd : Request \cup {None},
                            by : Request \cup {None}]]
      /\ pc \in [Request -> PC]
  BY DEF IInv, TypeOK, ExecType, WebType
\* Steps after which r is as answered, alone and undisturbed as before.
<1>a. ASSUME Answered(r) /\ Undisturbed(r) /\ r \notin lost
      PROVE  \/ \E x \in Exec : exec[x].by = r
             \/ \E j \in jobs : j.by = r
  BY <1>a
<1>b. ASSUME Answered(r), UNCHANGED <<bts, wrk_dt>>, clash \subseteq clash', lost \subseteq lost'
      PROVE  \/ \E x \in Exec : exec[x].by = r
             \/ \E j \in jobs : j.by = r
  BY <1>0, <1>a, <1>b DEF Undisturbed, Alone, Twins, Begun
<1>1. CASE UNCHANGED vars
  BY <1>0, <1>b, <1>1 DEF vars, webVars, jobVars, histVars, Answered
<1>2. ASSUME NEW q \in Request, BakRunExe(q) PROVE
           \/ \E x \in Exec : exec'[x].by = r
           \/ \E j \in jobs' : j.by = r
  <2>1. CASE MakeDir(q)
    <3>1. /\ pc[q] = "idle" /\ q # r /\ UNCHANGED <<jobVars, histVars>>
          /\ \A o \in Request \ {q} : pc'[o] = pc[o] /\ bts'[o] = bts[o] /\ wrk_dt'[o] = wrk_dt[o]
      BY <1>0, <2>1 DEF MakeDir, Goto, Answered, Polls, IInv, TypeOK, WebType
    <3>2. ~Begun(q)
      BY <3>1 DEF IInv, StampInv
    <3>3. Answered(r) /\ Undisturbed(r) /\ r \notin lost
      BY <1>0, <3>1, <3>2 DEF Answered, Undisturbed, Alone, Twins, Begun, histVars
    <3> QED
      BY <1>a, <3>1, <3>3 DEF jobVars
  <2>2. CASE FindBase(q) \/ NewParamMap(q) \/ PutParams(q)
    <3>1. /\ UNCHANGED <<bts, wrk_dt, jobVars, lost>> /\ clash \subseteq clash'
          /\ Answered(r)
      BY <1>0, <2>2 DEF FindBase, NewParamMap, PutParams, Goto, Answered, Polls, histVars
    <3> QED
      BY <1>b, <3>1 DEF jobVars
  <2>3. CASE DropOldJob(q)
    <3>1. /\ UNCHANGED <<bts, wrk_dt, exec, histVars>> /\ q # r /\ Answered(r)
          /\ jobs' = jobs \ Named(lvl[q], q) /\ pc[q] = "check"
      BY <1>0, <2>3 DEF DropOldJob, Goto, Answered, Polls
    <3>2. CASE \E x \in Exec : exec[x].by = r
      BY <3>1, <3>2
    <3>3. ASSUME NEW j \in jobs, j.by = r PROVE j \in jobs'
      <4>1. r \notin clash /\ j.nam = Nam[bts[r]] /\ j.dt = wrk_dt[r]
        BY <1>0, <3>1, <3>3 DEF Undisturbed, IInv, JobInv, histVars
      <4>2. Begun(q)
        BY <3>1 DEF IInv, StampInv
      <4> QED
        BY <1>0, <3>1, <3>3, <4>1, <4>2 DEF Named, Undisturbed, Alone, Twins, Begun
    <3> QED
      BY <1>b, <3>1, <3>2, <3>3 DEF histVars
  <2>4. CASE RegiScheduler(q)
    <3>1. /\ UNCHANGED <<bts, lvl, wrk_dt, exec, mapVars, histVars>> /\ jobs \subseteq jobs'
          /\ pc[q] = "regi" /\ (q # r => Answered(r))
      BY <1>0, <2>4 DEF RegiScheduler, Goto, Answered
    <3>2. CASE q # r
      BY <1>b, <3>1, <3>2 DEF histVars
    <3>3. CASE q = r
      <4>1. Undisturbed(r) /\ Begun(r)
        BY <1>0, <3>1, <3>3 DEF Undisturbed, Alone, Twins, Begun, histVars, IInv, StampInv
      <4>2. svcParamMap = r /\ heap[r].own = r
        BY <3>1, <3>3, <4>1 DEF IInv, FieldInv, HeapInv, OwnMap, Window, Undisturbed
      <4>3. RegiScheduler(r) /\ heap[svcParamMap].own = r
        BY <2>4, <3>3, <4>2
      <4>4. jobs' = IF Named(lvl[r], heap[svcParamMap].own) # {} THEN jobs
                    ELSE jobs \cup {NewJob(r, heap[svcParamMap])}
        BY <4>3, NoneAssumption DEF RegiScheduler
      <4>5. CASE Named(lvl[r], heap[svcParamMap].own) = {}
        <5>1. NewJob(r, heap[svcParamMap]) \in jobs'
          BY <4>4, <4>5
        <5>2. NewJob(r, heap[svcParamMap]).by = r
          BY DEF NewJob
        <5> QED
          BY <5>1, <5>2
      <4>6. CASE Named(lvl[r], heap[svcParamMap].own) # {}
        <5>1. PICK j \in jobs : j.cls = lvl[r] /\ j.nam = Nam[bts[r]] /\ j.dt = wrk_dt[r]
          BY <4>3, <4>6 DEF Named
        <5>2. j \in Named(lvl[r], r)
          BY <5>1 DEF Named
        <5> QED
          BY <3>1, <4>1, <5>2, NamedIsOwn DEF Named
      <4> QED
        BY <4>5, <4>6
    <3> QED
      BY <3>2, <3>3
  <2> QED
    BY <1>2, <2>1, <2>2, <2>3, <2>4 DEF BakRunExe
<1>3. ASSUME NEW q \in Request, BakRunEndChk(q) \/ CloseWindow(q) PROVE
           \/ \E x \in Exec : exec'[x].by = r
           \/ \E j \in jobs' : j.by = r
  <2>1. UNCHANGED <<bts, wrk_dt, jobVars, histVars>>
    BY <1>3 DEF BakRunEndChk, PollEnd, PollJob, ReadLog, InsertLog, CloseWindow, WebOnly
  <2>2. Answered(r)
    BY <1>0, <1>3 DEF BakRunEndChk, PollEnd, PollJob, ReadLog, InsertLog, CloseWindow, Goto, Answered,
       Polls
  <2> QED
    BY <1>b, <2>1, <2>2 DEF jobVars, histVars
<1>4. ASSUME NEW x \in Exec, JobStep(x), ~ScheduleKill(x) PROVE
           \/ \E y \in Exec : exec'[y].by = r
           \/ \E j \in jobs' : j.by = r
  <2>1. StageChange(x)
    BY <1>4, StageStep
  <2>2. UNCHANGED <<webVars, jobs, histVars>> /\ \A y \in Exec : exec'[y].by = exec[y].by
    BY <1>0, <2>1 DEF StageChange, JobOnly
  <2> QED
    BY <1>0, <1>b, <2>2 DEF webVars, histVars, Answered
<1>5. ASSUME NEW x \in Exec, ScheduleKill(x) PROVE
           \/ \E y \in Exec : exec'[y].by = r
           \/ \E j \in jobs' : j.by = r
  <2>1. /\ UNCHANGED <<webVars, histVars>> /\ \A y \in Exec : exec'[y].by = exec[y].by
        /\ jobs' = jobs \ Named(exec[x].cls, exec[x].own) /\ exec[x].stage = "kill"
    BY <1>0, <1>5 DEF ScheduleKill, Step
  <2>2. CASE \E y \in Exec : exec[y].by = r
    BY <2>1, <2>2
  <2>3. ASSUME NEW j \in jobs, j.by = r, ~ \E y \in Exec : exec[y].by = r PROVE j \in jobs'
    <3> DEFINE o == exec[x].own
    <3>1. r \notin clash /\ j.nam = Nam[bts[r]] /\ j.dt = wrk_dt[r]
      BY <1>0, <2>1, <2>3 DEF Undisturbed, IInv, JobInv, histVars
    <3>2. o \in Request /\ Begun(o) /\ (o \notin clash => exec[x].by = o)
      BY <1>0, <2>1 DEF IInv, ExecInv, StampInv, PastNew
    <3>3. o # r
      BY <2>3, <3>1, <3>2
    <3> QED
      BY <1>0, <2>1, <2>3, <3>1, <3>2, <3>3
         DEF Named, Undisturbed, Alone, Twins, Begun, webVars, histVars
  <2> QED
    BY <1>0, <1>b, <2>1, <2>2, <2>3 DEF webVars, histVars, Answered
<1>6. ASSUME NEW x \in Exec, NEW j \in jobs, Fire(x, j) PROVE
           \/ \E y \in Exec : exec'[y].by = r
           \/ \E i \in jobs' : i.by = r
  <2>1. /\ UNCHANGED <<webVars, histVars>> /\ exec[x].stage = "free"
        /\ jobs' = (jobs \ {j}) \cup {[j EXCEPT !.due = FALSE]}
        /\ exec'[x].by = j.by /\ \A y \in Exec \ {x} : exec'[y] = exec[y]
    BY <1>0, <1>6 DEF Fire
  <2>2. exec[x].by # r
    BY <2>1, NoneAssumption DEF IInv, ExecInv
  <2> QED
    BY <1>0, <1>b, <2>1, <2>2 DEF webVars, histVars, Answered
<1>7. ASSUME NEW j \in jobs, Repeat(j) PROVE
           \/ \E y \in Exec : exec'[y].by = r
           \/ \E i \in jobs' : i.by = r
  <2>1. /\ UNCHANGED <<webVars, exec, histVars>>
        /\ jobs' = (jobs \ {j}) \cup {[j EXCEPT !.due = TRUE]}
        /\ [j EXCEPT !.due = TRUE].by = j.by
    BY <1>7 DEF Repeat, IInv, TypeOK, JobType
  <2> QED
    BY <1>0, <1>b, <2>1 DEF webVars, histVars, Answered
<1>8. CASE Tick
  BY <1>0, <1>b, <1>8 DEF Tick, webVars, jobVars, histVars, Answered
<1>9. CASE Restart
  <2>1. /\ UNCHANGED <<bts, wrk_dt, clash>> /\ lost' = lost \cup {j.by : j \in jobs}
        /\ \A y \in Exec : exec'[y].by = exec[y].by
    BY <1>0, <1>9 DEF Restart
  <2>2. Answered(r)
    BY <1>0, <1>9 DEF Restart, Answered, Polls
  <2> QED
    BY <1>0, <1>b, <2>1, <2>2
<1> QED
  BY <1>1, <1>2, <1>3, <1>4, <1>5, <1>6, <1>7, <1>8, <1>9 DEF Next

\* An undisturbed request the server answered is registered with Quartz or was
\* executed, for any number of windows, targets with any names, and restarts.
THEOREM AnsweredIsScheduled == Spec => []AnsweredRunIsScheduled
<1>1. Init => AnsweredRunIsScheduled
  BY DEF Init, AnsweredRunIsScheduled, Answered, Polls
<1> QED
  BY <1>1, ScheduledStep, Inductive, PTL DEF Spec

-----------------------------------------------------------------------------
(***************************************************************************)
(* A run logged as successful is a restore point.                          *)
(***************************************************************************)

\* Between the two transactions of bak_run_endChk the restore point is there.
Offered(r, d) == \E b \in bakruntb : b.req = r /\ b.dir = d
LogInv ==
    \A r \in Request :
        pc[r] = "inslog" /\ suc_yon[r] = "S01" /\ Whole[bts[r]] => Offered(r, DirOf(r))

LEMMA LoggedStep ==
    ASSUME TypeOK, LoggedSuccessIsRestorePoint, LogInv, [Next]_vars
    PROVE  LoggedSuccessIsRestorePoint' /\ LogInv'
<1> USE DEF LoggedSuccessIsRestorePoint, LogInv, Offered
<1>1. CASE UNCHANGED <<webVars, tabVars>>
  BY <1>1 DEF webVars, tabVars, DirOf
<1>2. ASSUME NEW q \in Request, NEW p \in PC \ {"inslog"}, Goto(q, p), UNCHANGED <<suc_yon, tabVars>>,
             \A r \in Request \ {q} : bts'[r] = bts[r] /\ wrk_dt'[r] = wrk_dt[r]
      PROVE  LoggedSuccessIsRestorePoint' /\ LogInv'
  <2>1. LoggedSuccessIsRestorePoint'
    BY <1>2 DEF tabVars
  <2>2. pc'[q] # "inslog" /\ \A r \in Request \ {q} : pc'[r] = pc[r]
    BY <1>2 DEF Goto, TypeOK, WebType
  <2>3. \A r \in Request \ {q} : DirOf(r)' = DirOf(r)
    BY <1>2 DEF DirOf
  <2> QED
    BY <1>2, <2>1, <2>2, <2>3 DEF tabVars
<1>3. ASSUME NEW q \in Request, BakRunExe(q) PROVE LoggedSuccessIsRestorePoint' /\ LogInv'
  <2>1. /\ \E p \in PC \ {"inslog"} : Goto(q, p)
        /\ UNCHANGED <<suc_yon, tabVars>>
        /\ \A r \in Request \ {q} : bts'[r] = bts[r] /\ wrk_dt'[r] = wrk_dt[r]
    BY <1>3 DEF BakRunExe, MakeDir, FindBase, DropOldJob, NewParamMap, PutParams, RegiScheduler, PC, Prep,
       Polls, TypeOK, WebType
  <2> QED
    BY <1>2, <2>1
<1>4. ASSUME NEW q \in Request, PollEnd(q) \/ PollJob(q) \/ CloseWindow(q)
      PROVE  LoggedSuccessIsRestorePoint' /\ LogInv'
  <2>1. /\ \E p \in PC \ {"inslog"} : Goto(q, p)
        /\ UNCHANGED <<suc_yon, tabVars, bts, wrk_dt>>
    BY <1>4 DEF PollEnd, PollJob, CloseWindow, WebOnly, PC, Polls
  <2> QED
    BY <1>2, <2>1
<1>5. ASSUME NEW q \in Request, ReadLog(q) PROVE LoggedSuccessIsRestorePoint' /\ LogInv'
  <2>1. UNCHANGED <<bts, wrk_dt, wrklogtb>> /\ bakruntb \subseteq bakruntb'
    BY <1>5 DEF ReadLog, WebOnly
  <2>2. \A r \in Request \ {q} : pc'[r] = pc[r] /\ suc_yon'[r] = suc_yon[r]
    BY <1>5 DEF ReadLog, Catalogued, Goto, TypeOK, WebType
  <2>3. pc'[q] = "inslog" /\ suc_yon'[q] = "S01" /\ Whole[bts[q]] =>
           \E b \in bakruntb' : b.req = q /\ b.dir = DirOf(q)
    <3> SUFFICES ASSUME pc'[q] = "inslog", suc_yon'[q] = "S01", Whole[bts[q]]
                 PROVE  \E b \in bakruntb' : b.req = q /\ b.dir = DirOf(q)
      OBVIOUS
    <3>1. pc' = [pc EXCEPT ![q] = "inslog"]
      BY <1>5 DEF ReadLog, Catalogued, Goto, TypeOK, WebType
    <3>2. "SUCCESS" \in log[DirOf(q)]
      BY <1>5, <3>1 DEF ReadLog, Catalogued, Goto, TypeOK, WebType
    <3>3. [req |-> q, dir |-> DirOf(q), lvl |-> lvl[q]] \in bakruntb'
      BY <1>5, <3>1, <3>2 DEF ReadLog, Catalogued, Goto, TypeOK, WebType
    <3> QED
      BY <3>3
  <2>4. LoggedSuccessIsRestorePoint'
    BY <2>1
  <2>5. \A r \in Request : DirOf(r)' = DirOf(r)
    BY <2>1 DEF DirOf
  <2>6. LogInv'
    BY <2>1, <2>2, <2>3, <2>5
  <2> QED
    BY <2>4, <2>6
<1>6. ASSUME NEW q \in Request, InsertLog(q) PROVE LoggedSuccessIsRestorePoint' /\ LogInv'
  <2>1. /\ UNCHANGED <<bts, wrk_dt, suc_yon, bakruntb>> /\ pc[q] = "inslog" /\ pc'[q] # "inslog"
        /\ \A r \in Request \ {q} : pc'[r] = pc[r]
        /\ wrklogtb' \subseteq wrklogtb \cup
              {[req |-> q, dir |-> DirOf(q), lvl |-> lvl[q], suc |-> suc_yon[q]]}
    BY <1>6 DEF InsertLog, Goto, WebOnly, TypeOK, WebType
  <2>2. LogInv'
    BY <2>1 DEF DirOf
  <2>3. ASSUME NEW w \in wrklogtb', w.suc = "S01", Whole[w.dir[1]]
        PROVE  \E b \in bakruntb' : b.req = w.req /\ b.dir = w.dir
    <3>1. CASE w \in wrklogtb
      BY <2>1, <2>3, <3>1
    <3>2. CASE w = [req |-> q, dir |-> DirOf(q), lvl |-> lvl[q], suc |-> suc_yon[q]]
      BY <2>1, <2>3, <3>2 DEF DirOf
    <3> QED
      BY <2>1, <3>1, <3>2
  <2> QED
    BY <2>2, <2>3
<1>7. ASSUME NEW x \in Exec, JobStep(x) PROVE UNCHANGED <<webVars, tabVars>>
  BY <1>7, StageStep DEF StageChange, JobOnly, ScheduleKill
<1>8. CASE Restart
  <2>1. UNCHANGED <<bts, wrk_dt, suc_yon, tabVars>> /\ \A r \in Request : pc'[r] # "inslog"
    BY <1>8 DEF Restart
  <2> QED
    BY <2>1 DEF tabVars
<1> QED
  BY <1>1, <1>3, <1>4, <1>5, <1>6, <1>7, <1>8
     DEF Next, BakRunEndChk, Fire, Repeat, Tick, vars

\* bak_run_endChk may fail at any place: a whole-server run in the work log with
\* result S01 is always offered for restore.
THEOREM LoggedIsOffered == Spec => []LoggedSuccessIsRestorePoint
<1>1. Init => LoggedSuccessIsRestorePoint /\ LogInv
  <2> SUFFICES ASSUME Init PROVE LoggedSuccessIsRestorePoint /\ LogInv
    OBVIOUS
  <2>1. PICK old \in SUBSET Target :
        /\ wrklogtb = {[req |-> None, dir |-> <<t, 0>>, lvl |-> "L01", suc |-> "S01"] : t \in old}
        /\ bakruntb = {[req |-> None, dir |-> <<t, 0>>, lvl |-> "L01"] : t \in old}
    BY DEF Init
  <2>2. LogInv
    BY DEF Init, LogInv
  <2>3. ASSUME NEW w \in wrklogtb
        PROVE  \E b \in bakruntb : b.req = w.req /\ b.dir = w.dir
    <3>1. PICK t \in old : w = [req |-> None, dir |-> <<t, 0>>, lvl |-> "L01", suc |-> "S01"]
      BY <2>1, <2>3
    <3>2. [req |-> None, dir |-> <<t, 0>>, lvl |-> "L01"] \in bakruntb
      BY <2>1
    <3> QED
      BY <3>1, <3>2
  <2> QED
    BY <2>2, <2>3 DEF LoggedSuccessIsRestorePoint
<1> QED
  BY <1>1, LoggedStep, TypeCorrect, PTL DEF Spec
=============================================================================
