--------------------------- MODULE Restore_proof ---------------------------
(***************************************************************************)
(* Proofs about Restore: for any number of windows, executions, backups,   *)
(* repetitions and faults, an answered request runs, a restore is recorded *)
(* when it is over, its data are replaced once, and a success is a         *)
(* restored database, but for what the properties name.                    *)
(*                                                                         *)
(* The jobs of Quartz are registered and removed by name, and windows that *)
(* chose the same restore point share one.  The invariant says what a      *)
(* request can rely on nevertheless: two executions that run have          *)
(* overlapped; once there is an end in the log of a request its execution  *)
(* is about to leave the scheduler, and until then the job is there.       *)
(***************************************************************************)
EXTENDS Restore, TLAPS

Answered   == {"polling", "endseen", "readlog", "done"}
Befallen(r, m) == m \in mishap[r]
Ended(r)   == "END" \in log[r]
HasJob(r)  == \E j \in jobs : j.own = r
\* An execution that has not yet replaced the data.
Before     == {"start", "env", "stop", "copy", "load"}

Types ==
    /\ bakruntb \subseteq Time
    /\ pc \in [Request -> PC] /\ wrk_dt \in [Request -> Time]
    /\ jobs \subseteq [own : Request, due : BOOLEAN]
    /\ exec \in [Exec -> [stage : Stage, own : Request \cup {None}]]
    /\ log \in [Request -> SUBSET Line]
    /\ mishap \in [Request -> SUBSET Mishap]
    /\ wiped \subseteq Request
    /\ \A row \in wrklogtb : row.req \in Request

\* Jobs, executions, logs and replaced data are those of answered requests.
OwnInv ==
    /\ \A j \in jobs : pc[j.own] \in Answered
    /\ \A x \in Exec : exec[x].stage # "free" => exec[x].own \in Request /\ pc[exec[x].own] \in Answered
    /\ \A r \in Request : Ended(r) \/ r \in wiped => pc[r] \in Answered

\* A request that is answered has its job, or had its execution, or a twin.
HadRun(r) == \E x \in Exec : exec[x].stage # "free" /\ exec[x].own = r
AnsweredInv ==
    \A r \in Request : pc[r] \in Answered => HasJob(r) \/ HadRun(r) \/ Twin(r)

\* Two executions at one time have overlapped.
OverlapInv ==
    \A x, y \in Exec : x # y /\ exec[x].stage \in Active /\ exec[y].stage \in Active
        => Befallen(exec[x].own, "overlap")

\* An execution runs for a job that is registered, unless a twin has dropped it.
RegisteredInv ==
    \A r \in Request : \A x \in Running(r) : HasJob(r) \/ Twin(r) \/ Befallen(r, "overlap")

\* The log of a request ends with its execution, and the job goes after that.
EndInv ==
    \A r \in Request : Ended(r) /\ ~Befallen(r, "overlap") =>
        /\ \A x \in Running(r) : exec[x].stage = "kill"
        /\ HasJob(r) => Running(r) # {}

\* The end a window has seen is still there.
SeenInv ==
    \A r \in Request : pc[r] \in {"endseen", "readlog"} \/ (\E row \in wrklogtb : row.req = r)
        => Ended(r) \/ Befallen(r, "overlap")

\* A window records its restore when it is over.
OverInv ==
    \A r \in Request : pc[r] = "readlog" \/ (\E row \in wrklogtb : row.req = r)
        => \A x \in Running(r) : Befallen(r, "overlap") \/ (exec[x].stage = "kill" /\ Twin(r))

\* Once the data of a request are replaced nothing replaces them again.
WipedInv ==
    \A r \in wiped : mishap[r] \cap {"aborted", "overlap"} = {} =>
        /\ \A x \in Running(r) : exec[x].stage \notin Before
        /\ HasJob(r) => Running(r) # {}

RunInv == OverlapInv /\ RegisteredInv /\ EndInv /\ SeenInv /\ OverInv /\ WipedInv
IInv   == Types /\ OwnInv /\ AnsweredInv /\ RunInv

-----------------------------------------------------------------------------
LEMMA InitInv == Init => IInv
<1> SUFFICES ASSUME Init PROVE IInv
  OBVIOUS
<1>1. \A r \in Request : pc[r] = "idle" /\ log[r] = {} /\ mishap[r] = {}
  BY DEF Init
<1>2. \A x \in Exec : exec[x].stage = "free"
  BY DEF Init
<1>3. jobs = {} /\ wiped = {} /\ wrklogtb = {}
  BY DEF Init
<1>4. Types
  <2>1. 1 \in Time
    BY BoundAssumption DEF Time
  <2> QED
    BY <2>1 DEF Init, Types, PC, Stage
<1>5. OwnInv /\ AnsweredInv
  BY <1>1, <1>2, <1>3 DEF OwnInv, AnsweredInv, Answered, Ended
<1>6. RunInv
  BY <1>1, <1>2, <1>3 DEF RunInv, OverlapInv, RegisteredInv, EndInv, SeenInv, OverInv, WipedInv,
     Running, Active, Ended
<1> QED
  BY <1>4, <1>5, <1>6 DEF IInv

\* A web thread that is past the choice stays a twin of the others.
LEMMA TwinStays ==
    ASSUME NEW r \in Request, Twin(r),
           \A q \in Request : wrk_dt'[q] = wrk_dt[q] \/ pc[q] = "idle",
           \A q \in Request : pc[q] \notin {"idle", "chosen", "drop"} => pc'[q] \notin {"idle", "chosen", "drop"},
           pc[r] # "idle"
    PROVE  Twin(r)'
BY DEF Twin

\* Actions that leave jobs and executions alone.
LEMMA SameInv ==
    IInv /\ bakruntb' \subseteq bakruntb /\ UNCHANGED <<pc, wrk_dt, jobs, exec, log, wrklogtb, mishap, wiped>>
        => IInv'
BY DEF IInv, Types, OwnInv, AnsweredInv, RunInv, OverlapInv, RegisteredInv, EndInv, SeenInv,
   OverInv, WipedInv, Running, Ended, HasJob, HadRun, Befallen, Twin, Own

-----------------------------------------------------------------------------
(***************************************************************************)
(* The commands of an execution.                                           *)
(***************************************************************************)
\* What befell a request is not forgotten.
Worsens == /\ mishap' \in [Request -> SUBSET Mishap]
           /\ \A r \in Request : mishap[r] \subseteq mishap'[r]

LEMMA BefallsMore == ASSUME Types, NEW R, NEW m \in Mishap, Befalls(R, m) PROVE Worsens
BY DEF Types, Befalls, Worsens

LEMMA SameMore == ASSUME Types, mishap' = mishap PROVE Worsens
BY DEF Types, Worsens

\* What every command of a job does: the execution goes on to stage s, "END"
\* comes with the step to "kill" and only the first command takes it away, and
\* the data are replaced from two stages to which no later one leads back.
Writes(x, s) ==
    \/ log' = log
    \/ \E L \in SUBSET Line :
          /\ log' = [log EXCEPT ![Own(x)] = L]
          /\ exec[x].stage = "start" \/ (Ended(Own(x)) => "END" \in L)
          /\ "END" \in L => Ended(Own(x)) \/ s = "kill"
Wipes(x) ==
    wiped' = wiped \/ (wiped' = wiped \cup {Own(x)} /\ exec[x].stage \in {"copy", "load"})
Moves(x, s) ==
    /\ UNCHANGED <<bakruntb, pc, wrk_dt, jobs, wrklogtb>>
    /\ exec[x].stage \in Active \ {"kill"} /\ s \in Active
    /\ exec' = [exec EXCEPT ![x].stage = s]
    /\ s \in Before => exec[x].stage \in Before \ {"copy", "load"}
    /\ Writes(x, s) /\ Worsens /\ Wipes(x)

LEMMA LostMoves ==
    ASSUME Types, NEW x \in Exec, NEW from \in Active \ {"kill"}, NEW to \in Active, Lost(x, from, to),
           to \in Before => from \in Before \ {"copy", "load"}
    PROVE  Moves(x, to)
BY BefallsMore DEF Lost, At, Step, Quiet, Moves, Writes, Wipes, webVars, catVars, Mishap

LEMMA RanMoves ==
    ASSUME NEW x \in Exec, NEW from \in Active \ {"kill"}, NEW to \in Active,
           At(x, from), Ran(x, to), to \in Before => from \in Before \ {"copy", "load"},
           Writes(x, to), Worsens, Wipes(x)
    PROVE  Moves(x, to)
BY DEF At, Ran, Step, Quiet, Moves, webVars, catVars

\* The lines a command writes, which leave an "END" as it is.
LEMMA PutWrites ==
    ASSUME NEW x \in Exec, NEW to, NEW L \in SUBSET Line, Put(x, L), "END" \in L <=> Ended(Own(x))
    PROVE  Writes(x, to)
BY DEF Put, Writes

LEMMA StepMoves ==
    ASSUME Types, OwnInv, NEW x \in Exec, JobStep(x), ~ScheduleKill(x)
    PROVE  \E s \in Active : Moves(x, s)
<1> DEFINE r == Own(x)
<1>0. exec[x].stage \in Active => r \in Request /\ log[r] \in SUBSET Line
  BY DEF Types, OwnInv, Own, Active
<1>1. CASE \E from \in Active \ {"kill"}, to \in Active :
              Lost(x, from, to) /\ (to \in Before => from \in Before \ {"copy", "load"})
  BY <1>1, LostMoves
<1>2. ASSUME mishap' = mishap \/ (\E m \in Mishap : Befalls({r}, m)) PROVE Worsens
  BY <1>2, BefallsMore, SameMore
<1>3. ASSUME UNCHANGED log, NEW to PROVE Writes(x, to)
  BY <1>3 DEF Writes
<1>4. ASSUME UNCHANGED wiped PROVE Wipes(x)
  BY <1>4 DEF Wipes
<1>5. {"lost", "hot", "load", "leftover", "expired"} \subseteq Mishap
  BY DEF Mishap
<1>6. {"completed", "error", "errfile", "START", "END", "SUCCESS", "FAIL"} \subseteq Line
  BY DEF Line
<1>7. CASE StartLog(x)
  <2>1. CASE At(x, "start") /\ Put(x, {"START"} \cup (log[r] \cap {"errfile"})) /\ Ran(x, "env")
             /\ UNCHANGED histVars
    <3>1. Writes(x, "env")
      BY <1>6, <2>1 DEF Put, Writes, At
    <3> QED
      BY <1>2, <1>4, <2>1, <3>1, RanMoves DEF Active, Before, histVars
  <2> QED
    BY <1>1, <1>7, <2>1 DEF StartLog, Active, Before
<1>8. CASE CheckEnvironment(x)
  BY <1>2, <1>3, <1>4, <1>8, RanMoves DEF CheckEnvironment, Active, Before, histVars
<1>9. CASE StopServer(x)
  <2>1. CASE At(x, "stop") /\ Ran(x, "copy") /\ UNCHANGED <<log, histVars>>
    BY <1>2, <1>3, <1>4, <2>1, RanMoves DEF Active, Before, histVars
  <2>2. CASE Lost(x, "stop", "copy")
    BY <1>1, <2>2 DEF Active, Before
  <2> QED
    BY <1>9, <2>1, <2>2 DEF StopServer
<1>10. CASE CopyFull(x)
  <2>1. AfterBase(x, AfterCopy) \in Active \ Before
    BY DEF AfterBase, AfterCopy, Active, Before
  <2>2. CASE /\ At(x, "copy") /\ Ran(x, AfterBase(x, AfterCopy))
             /\ Put(x, log[r] \ {"completed"}) \/ Put(x, (log[r] \ {"completed"}) \cup {"error"})
             /\ Befalls({r}, "hot") \/ UNCHANGED mishap
             /\ wiped' = wiped \cup {r}
    <3>1. Writes(x, AfterBase(x, AfterCopy))
      <4>1. log[r] \in SUBSET Line
        BY <1>0, <2>2 DEF At, Active
      <4> QED
        BY <1>6, <2>2, <4>1, PutWrites DEF Ended
    <3>2. Wipes(x)
      BY <2>2 DEF Wipes, At
    <3> QED
      BY <1>2, <1>5, <2>1, <2>2, <3>1, <3>2, RanMoves DEF Active, Before
  <2>3. "copy" \in Active \ {"kill"}
    BY DEF Active
  <2> QED
    BY <1>1, <1>10, <2>1, <2>2, <2>3 DEF CopyFull
<1>11. ASSUME NEW from \in Active \ {"kill"}, NEW to \in Active \ Before, NEW form,
              Mariabackup(x, from, to, form)
       PROVE  \E s \in Active : Moves(x, s)
  <2>1. CASE /\ At(x, from) /\ Ran(x, to) /\ UNCHANGED histVars
             /\ Put(x, log[r] \cup {"completed"}) \/ Put(x, log[r] \ {"completed"})
    <3>1. log[r] \in SUBSET Line
      BY <1>0, <2>1 DEF At
    <3>2. Writes(x, to)
      BY <1>6, <2>1, <3>1, PutWrites DEF Ended
    <3> QED
      BY <1>2, <1>4, <2>1, <3>2, RanMoves DEF histVars
  <2> QED
    BY <1>1, <1>11, <2>1 DEF Mariabackup
<1>12. CASE Decompress(x) \/ Prepare(x)
  <2>1. /\ {"decompress", "prepare"} \subseteq Active \ {"kill"}
        /\ {"chkdec", "chkpre"} \subseteq Active \ Before
    BY DEF Active, Before
  <2> QED
    BY <1>11, <1>12, <2>1 DEF Decompress, Prepare
<1>13. ASSUME NEW from \in Active \ {"kill"}, NEW to \in Active \ Before, TailCheck(x, from, to)
       PROVE  \E s \in Active : Moves(x, s)
  <2>1. UNCHANGED histVars /\ At(x, from)
    BY <1>13 DEF TailCheck
  <2>2. CASE Ran(x, to) /\ UNCHANGED log
    BY <1>2, <1>3, <1>4, <2>1, <2>2, RanMoves DEF histVars
  <2>3. CASE Ran(x, "fail") /\ Put(x, log[r] \cup {"error"})
    <3>1. log[r] \in SUBSET Line
      BY <1>0, <2>1 DEF At
    <3>2. Writes(x, "fail")
      BY <1>6, <2>3, <3>1, PutWrites DEF Ended
    <3> QED
      BY <1>2, <1>4, <2>1, <2>3, <3>2, RanMoves DEF histVars, Active, Before
  <2> QED
    BY <1>13, <2>2, <2>3 DEF TailCheck
<1>14. CASE CompletedCheck(x)
  <2>1. /\ {"chkdec", "chkpre"} \subseteq Active \ {"kill"}
        /\ "prepare" \in Active \ Before /\ AfterBase(x, "startdb") \in Active \ Before
    BY DEF Active, Before, AfterBase
  <2> QED
    BY <1>13, <1>14, <2>1 DEF CompletedCheck
<1>15. CASE LoadDump(x)
  <2> DEFINE next == IF Lvl(r) = "L02" THEN "incre" ELSE "dbchk"
  <2>1. next \in Active \ Before /\ "load" \in Active \ {"kill"}
    BY DEF Active, Before
  <2> HIDE DEF next
  <2>2. CASE /\ At(x, "load") /\ Ran(x, next) /\ UNCHANGED log
             /\ Befalls({r}, "load") \/ UNCHANGED mishap
             /\ wiped' = wiped \cup {r}
    <3>1. Wipes(x)
      BY <2>2 DEF Wipes, At
    <3> QED
      BY <1>2, <1>3, <1>5, <2>1, <2>2, <3>1, RanMoves
  <2>3. CASE Lost(x, "load", next)
    BY <1>1, <2>1, <2>3
  <2> QED
    BY <1>15, <2>2, <2>3 DEF LoadDump, next
<1>16. CASE IncreFile(x)
  <2> DEFINE next == IF set.mtd = "M01" THEN "startdb" ELSE "dbchk"
  <2>1. next \in Active \ Before /\ "incre" \in Active \ {"kill"}
    BY DEF Active, Before
  <2>2. CASE Lost(x, "incre", next)
    BY <1>1, <2>1, <2>2
  <2>3. CASE ~Lost(x, "incre", next)
    <3>1. /\ At(x, "incre") /\ Ran(x, next) /\ UNCHANGED wiped
          /\ UNCHANGED log \/ Put(x, log[r] \cup {"error"}) \/ Put(x, log[r] \cup {"errfile"})
      BY <1>16, <2>3 DEF IncreFile
    <3>2. \E M \in SUBSET Mishap : mishap' = [mishap EXCEPT ![r] = @ \cup M]
      <4>1. PICK M, N \in SUBSET {"leftover", "expired"} : mishap' = [mishap EXCEPT ![r] = @ \cup M \cup N]
        BY <1>16, <2>3 DEF IncreFile
      <4>2. \A A : A \cup M \cup N = A \cup (M \cup N)
        OBVIOUS
      <4>3. mishap' = [mishap EXCEPT ![r] = @ \cup (M \cup N)]
        BY <4>1, <4>2
      <4> QED
        BY <1>5, <4>3
    <3>3. Worsens
      BY <3>2 DEF Worsens, Types
    <3>4. log[r] \in SUBSET Line
      BY <1>0, <3>1 DEF At, Active
    <3>5. Writes(x, next)
      <4> HIDE DEF next
      <4> QED
        BY <1>3, <1>6, <3>1, <3>4, PutWrites DEF Ended
    <3> HIDE DEF next
    <3> QED
      BY <1>4, <2>1, <3>1, <3>3, <3>5, RanMoves
  <2> QED
    BY <2>2, <2>3
<1>17. CASE StartServer(x)
  BY <1>1, <1>2, <1>3, <1>4, <1>17, RanMoves DEF StartServer, Active, Before, histVars
<1>18. CASE StatusCheck(x) \/ DbCheck(x)
  <2>1. AfterStart(x) \in Active \ Before
    BY DEF AfterStart, Active, Before
  <2> QED
    BY <1>1, <1>2, <1>3, <1>4, <1>18, <2>1, RanMoves DEF StatusCheck, DbCheck, Active, Before, histVars
<1>19. CASE ApplyIncre(x)
  <2>1. CASE /\ At(x, "apply") /\ Ran(x, "errchk") /\ UNCHANGED histVars
             /\ UNCHANGED log \/ Put(x, log[r] \cup {"error"})
    <3>1. log[r] \in SUBSET Line
      BY <1>0, <2>1 DEF At, Active
    <3>2. Writes(x, "errchk")
      BY <1>3, <1>6, <2>1, <3>1, PutWrites DEF Ended
    <3> QED
      BY <1>2, <1>4, <2>1, <3>2, RanMoves DEF histVars, Active, Before
  <2> QED
    BY <1>1, <1>19, <2>1 DEF ApplyIncre, Active, Before
<1>20. CASE ErrorLogCheck(x)
  BY <1>1, <1>2, <1>3, <1>4, <1>20, RanMoves DEF ErrorLogCheck, Active, Before, histVars
<1>21. ASSUME NEW s \in {"success", "fail"}, NEW t \in {"SUCCESS", "FAIL"}, LogResult(x, s, t)
       PROVE  \E u \in Active : Moves(x, u)
  <2>1. s \in Active \ {"kill"} /\ "kill" \in Active \ Before
    BY DEF Active, Before
  <2>2. CASE Lost(x, s, "kill")
    BY <1>1, <2>1, <2>2
  <2>3. CASE ~Lost(x, s, "kill")
    <3>1. /\ At(x, s) /\ Ran(x, "kill") /\ UNCHANGED histVars
          /\ \E E \in SUBSET {"errfile"} : Put(x, (log[r] \ {"completed"}) \cup {t, "END"} \cup E)
      BY <1>21, <2>3 DEF LogResult
    <3>2. log[r] \in SUBSET Line
      BY <1>0, <2>1, <3>1 DEF At
    <3>3. Writes(x, "kill")
      <4>1. PICK E \in SUBSET {"errfile"} : Put(x, (log[r] \ {"completed"}) \cup {t, "END"} \cup E)
        BY <3>1
      <4> DEFINE L == (log[r] \ {"completed"}) \cup {t, "END"} \cup E
      <4>2. L \in SUBSET Line /\ "END" \in L
        BY <1>6, <3>2
      <4> HIDE DEF L
      <4> QED
        BY <4>1, <4>2 DEF Put, Writes, L
    <3> QED
      BY <1>2, <1>4, <2>1, <3>1, <3>3, RanMoves DEF histVars
  <2> QED
    BY <2>2, <2>3
<1>22. CASE LogSuccess(x) \/ LogFail(x)
  BY <1>21, <1>22 DEF LogSuccess, LogFail
<1> QED
  BY <1>7, <1>8, <1>9, <1>10, <1>12, <1>14, <1>15, <1>16, <1>17, <1>18, <1>19, <1>20, <1>22 DEF JobStep

LEMMA MovesInv ==
    ASSUME IInv, NEW x \in Exec, NEW s \in Active, Moves(x, s)
    PROVE  IInv'
<1>0. PICK r : r = Own(x)
  OBVIOUS
<1>1. /\ Types /\ OwnInv /\ r \in Request /\ exec[x].own = r
      /\ exec[x].stage \in Active \ {"kill"} /\ exec[x].stage # "free"
  BY <1>0 DEF IInv, Moves, OwnInv, Own, Active
<1>2. UNCHANGED <<bakruntb, pc, wrk_dt, jobs, wrklogtb>> /\ Worsens /\ Wipes(x) /\ Writes(x, s)
  BY DEF Moves
<1>3. /\ exec' \in [Exec -> [stage : Stage, own : Request \cup {None}]]
      /\ exec'[x].stage = s /\ exec'[x].own = r
      /\ \A y \in Exec \ {x} : exec'[y] = exec[y]
  BY <1>1 DEF Moves, Types, Stage
<1>4. \A y \in Exec : exec'[y].own = exec[y].own /\ (exec'[y].stage \in Active <=> exec[y].stage \in Active)
                      /\ (exec'[y].stage = "free" <=> exec[y].stage = "free")
  BY <1>1, <1>3 DEF Active
<1>5. \A q \in Request : Running(q)' = Running(q)
  BY <1>4 DEF Running
<1>6. \A q \in Request : Twin(q)' = Twin(q) /\ HasJob(q)' = HasJob(q)
  BY <1>2 DEF Twin, HasJob
<1>7. /\ log' \in [Request -> SUBSET Line]
      /\ \A q \in Request \ {r} : Ended(q)' = Ended(q)
      /\ exec[x].stage = "start" \/ (Ended(r) => Ended(r)')
      /\ Ended(r)' => Ended(r) \/ s = "kill"
  <2>1. CASE log' = log
    BY <1>1, <2>1 DEF Types, Ended
  <2>2. ASSUME NEW L \in SUBSET Line, log' = [log EXCEPT ![r] = L],
               exec[x].stage = "start" \/ (Ended(r) => "END" \in L),
               "END" \in L => Ended(r) \/ s = "kill"
        PROVE  /\ log' \in [Request -> SUBSET Line]
               /\ \A q \in Request \ {r} : Ended(q)' = Ended(q)
               /\ exec[x].stage = "start" \/ (Ended(r) => Ended(r)')
               /\ Ended(r)' => Ended(r) \/ s = "kill"
    <3>1. /\ log' \in [Request -> SUBSET Line] /\ log'[r] = L
          /\ \A q \in Request \ {r} : log'[q] = log[q]
      BY <1>1, <2>2 DEF Types
    <3> QED
      BY <2>2, <3>1 DEF Ended
  <2> QED
    BY <1>0, <1>2, <2>1, <2>2 DEF Writes
<1>8. \A q \in Request, m \in Mishap : Befallen(q, m) => Befallen(q, m)'
  BY <1>2 DEF Worsens, Befallen
<1>9. x \in Running(r) /\ \A y \in Running(r) : y # x => Befallen(r, "overlap")
  BY <1>1 DEF Running, IInv, RunInv, OverlapInv
<1>10. "overlap" \in Mishap /\ "aborted" \in Mishap
  BY DEF Mishap
<1>11. wiped' \subseteq Request
  BY <1>0, <1>1, <1>2 DEF Wipes, Types
<1>12. Types'
  BY <1>1, <1>2, <1>3, <1>7, <1>11 DEF Types, Worsens
<1>13. OwnInv'
  BY <1>0, <1>1, <1>2, <1>4, <1>7 DEF OwnInv, Wipes
<1>14. AnsweredInv'
  BY <1>1, <1>2, <1>4, <1>6 DEF IInv, AnsweredInv, HadRun
<1>15. OverlapInv'
  BY <1>1, <1>4, <1>8, <1>10 DEF IInv, RunInv, OverlapInv, OwnInv, Active
<1>16. RegisteredInv'
  BY <1>5, <1>6, <1>8, <1>10 DEF IInv, RunInv, RegisteredInv
<1>17. EndInv'
  <2> SUFFICES ASSUME NEW q \in Request, Ended(q)', ~Befallen(q, "overlap")'
               PROVE  /\ \A y \in Running(q)' : exec'[y].stage = "kill"
                      /\ HasJob(q)' => Running(q)' # {}
    BY DEF EndInv
  <2>1. ~Befallen(q, "overlap")
    BY <1>8, <1>10
  <2>2. CASE q = r
    <3>1. \A y \in Running(r) : y = x
      BY <1>9, <2>1, <2>2
    <3>2. ~Ended(r)
      BY <1>1, <1>9, <2>1, <2>2 DEF IInv, RunInv, EndInv
    <3>3. exec'[x].stage = "kill"
      BY <1>3, <1>7, <2>2, <3>2
    <3>4. Running(q)' = {x}
      BY <1>5, <1>9, <2>2, <3>1
    <3> QED
      BY <3>3, <3>4
  <2>3. CASE q # r
    BY <1>1, <1>3, <1>5, <1>6, <1>7, <2>1, <2>3 DEF IInv, RunInv, EndInv, Running
  <2> QED
    BY <2>2, <2>3
<1>18. SeenInv'
  <2> SUFFICES ASSUME NEW q \in Request, pc[q] \in {"endseen", "readlog"} \/ (\E row \in wrklogtb : row.req = q)
               PROVE  Ended(q)' \/ Befallen(q, "overlap")'
    BY <1>2 DEF SeenInv
  <2>1. Ended(q) \/ Befallen(q, "overlap")
    BY DEF IInv, RunInv, SeenInv
  <2>2. CASE Befallen(q, "overlap")
    BY <1>8, <1>10, <2>2
  <2>3. CASE Ended(q) /\ ~Befallen(q, "overlap")
    BY <1>1, <1>7, <1>9, <2>3 DEF IInv, RunInv, EndInv
  <2> QED
    BY <2>1, <2>2, <2>3
<1>19. OverInv'
  <2> SUFFICES ASSUME NEW q \in Request, pc[q] = "readlog" \/ (\E row \in wrklogtb : row.req = q),
                      NEW y \in Running(q), ~Befallen(q, "overlap")'
               PROVE  exec'[y].stage = "kill" /\ Twin(q)'
    BY <1>2, <1>5 DEF OverInv
  <2>1. exec[y].stage = "kill" /\ Twin(q) /\ y \in Exec
    BY <1>8, <1>10 DEF IInv, RunInv, OverInv, Running
  <2> QED
    BY <1>1, <1>3, <1>6, <2>1
<1>20. WipedInv'
  <2> SUFFICES ASSUME NEW q \in wiped', mishap'[q] \cap {"aborted", "overlap"} = {}
               PROVE  /\ \A y \in Running(q)' : exec'[y].stage \notin Before
                      /\ HasJob(q)' => Running(q)' # {}
    BY DEF WipedInv
  <2>1. q \in Request /\ mishap[q] \cap {"aborted", "overlap"} = {}
    BY <1>2, <1>11 DEF Worsens
  <2>2. CASE q \in wiped /\ q # r
    BY <1>1, <1>3, <1>5, <1>6, <2>1, <2>2 DEF IInv, RunInv, WipedInv, Running
  <2>3. CASE q = r
    <3>1. \A y \in Running(r) : y = x
      BY <1>9, <2>1, <2>3 DEF Befallen
    <3>2. s \notin Before
      <4>1. CASE r \in wiped
        BY <1>9, <2>1, <2>3, <4>1 DEF IInv, RunInv, WipedInv, Moves
      <4>2. CASE r \notin wiped
        BY <1>0, <1>2, <2>3, <4>2 DEF Wipes, Moves
      <4> QED
        BY <4>1, <4>2
    <3> QED
      BY <1>3, <1>5, <1>9, <2>1, <2>3, <3>1, <3>2
  <2> QED
    BY <1>0, <1>2, <2>2, <2>3 DEF Wipes
<1> QED
  BY <1>12, <1>13, <1>14, <1>15, <1>16, <1>17, <1>18, <1>19, <1>20 DEF IInv, RunInv

-----------------------------------------------------------------------------
(***************************************************************************)
(* The end of an execution.                                                *)
(***************************************************************************)
\* An execution that leaves takes the jobs of its name along, or has been aborted.
Leaves(x) ==
    /\ UNCHANGED <<bakruntb, pc, wrk_dt, log, wrklogtb, wiped>>
    /\ \/ /\ exec[x].stage = "kill" /\ exec' = [exec EXCEPT ![x].stage = "ended"]
          /\ jobs' = jobs \ Named(Own(x)) /\ mishap' = mishap
       \/ /\ exec[x].stage \in Active \ {"kill"} /\ exec' = [exec EXCEPT ![x].stage = "crashed"]
          /\ jobs' = jobs /\ Befalls({Own(x)}, "aborted")

LEMMA LeavesInv == ASSUME IInv, NEW x \in Exec, Leaves(x) PROVE IInv'
<1>0. PICK r : r = Own(x)
  OBVIOUS
<1>1. /\ Types /\ OwnInv /\ r \in Request /\ exec[x].own = r
      /\ exec[x].stage \in Active /\ exec[x].stage # "free"
  BY <1>0 DEF IInv, Leaves, OwnInv, Own, Active
<1>2. UNCHANGED <<bakruntb, pc, wrk_dt, log, wrklogtb, wiped>> /\ jobs' \subseteq jobs
  BY DEF Leaves
<1>3. Worsens
  BY <1>1, BefallsMore, SameMore DEF Leaves, Mishap
<1>4. PICK s \in {"ended", "crashed"} : exec' = [exec EXCEPT ![x].stage = s]
  BY DEF Leaves
<1>5. /\ exec' \in [Exec -> [stage : Stage, own : Request \cup {None}]]
      /\ exec'[x].stage \in {"ended", "crashed"} /\ exec'[x].own = r
      /\ \A y \in Exec \ {x} : exec'[y] = exec[y]
  BY <1>1, <1>4 DEF Types, Stage
<1>6. \A q \in Request : Running(q)' = Running(q) \ {x}
  BY <1>5 DEF Running, Active
<1>7. \A q \in Request : Twin(q)' = Twin(q) /\ Ended(q)' = Ended(q)
  BY <1>2 DEF Twin, Ended
<1>8. \A q \in Request, m \in Mishap : Befallen(q, m) => Befallen(q, m)'
  BY <1>3 DEF Worsens, Befallen
<1>9. x \in Running(r) /\ \A q \in Request : \A y \in Running(q) : y # x => Befallen(q, "overlap")
  BY <1>1 DEF Running, IInv, RunInv, OverlapInv
<1>10. "overlap" \in Mishap /\ "aborted" \in Mishap
  BY DEF Mishap
\* The jobs that go are those of the request itself and of its twins.
<1>11. \A j \in jobs \ jobs' : j.own = r \/ (pc[j.own] \in Answered => Twin(j.own))
  <2> SUFFICES ASSUME NEW j \in jobs \ jobs', j.own # r PROVE Twin(j.own)
    OBVIOUS
  <2>1. wrk_dt[j.own] = wrk_dt[r] /\ j.own \in Request
    BY <1>0, <1>1 DEF Leaves, Named, Types
  <2> QED
    BY <1>1, <2>1 DEF Twin, OwnInv, Answered
<1>12. Types'
  BY <1>1, <1>2, <1>3, <1>5 DEF Types, Worsens
<1>13. OwnInv'
  BY <1>1, <1>2, <1>5, <1>7 DEF OwnInv
<1>14. AnsweredInv'
  <2> SUFFICES ASSUME NEW q \in Request, pc[q] \in Answered
               PROVE  HasJob(q)' \/ HadRun(q)' \/ Twin(q)
    BY <1>2, <1>7 DEF AnsweredInv
  <2>1. HasJob(q) \/ HadRun(q) \/ Twin(q)
    BY DEF IInv, AnsweredInv
  <2>2. HadRun(r)'
    BY <1>5 DEF HadRun
  <2>3. HadRun(q) => HadRun(q)'
    BY <1>1, <1>5 DEF HadRun
  <2>4. HasJob(q) => HasJob(q)' \/ q = r \/ Twin(q)
    BY <1>11 DEF HasJob
  <2> QED
    BY <2>1, <2>2, <2>3, <2>4
<1>15. OverlapInv'
  BY <1>1, <1>5, <1>8, <1>10 DEF IInv, RunInv, OverlapInv, OwnInv, Active
<1>16. RegisteredInv'
  BY <1>6, <1>8, <1>9, <1>10 DEF RegisteredInv
\* Once it has left, its job is gone, or what follows is excused.
<1>17. \A q \in Request : HasJob(q)' => HasJob(q)
  BY <1>2 DEF HasJob
<1>18. exec[x].stage = "kill" \/ "aborted" \notin mishap'[r] => ~HasJob(r)'
  <2>1. CASE jobs' = jobs \ Named(r)
    <3>1. \A j \in jobs : j.own = r => j \in Named(r)
      BY DEF Named
    <3> QED
      BY <2>1, <3>1 DEF HasJob
  <2>2. CASE Befalls({r}, "aborted") /\ exec[x].stage # "kill"
    BY <1>1, <2>2 DEF Befalls
  <2> QED
    BY <1>0, <2>1, <2>2 DEF Leaves
<1>19. EndInv'
  <2> SUFFICES ASSUME NEW q \in Request, Ended(q), ~Befallen(q, "overlap")'
               PROVE  /\ \A y \in Running(q)' : exec'[y].stage = "kill"
                      /\ HasJob(q)' => Running(q)' # {}
    BY <1>7 DEF EndInv
  <2>1. /\ \A y \in Running(q) : y = x /\ exec[y].stage = "kill"
        /\ HasJob(q) => Running(q) # {}
    BY <1>8, <1>9, <1>10 DEF IInv, RunInv, EndInv
  <2>2. Running(q)' = {}
    BY <1>6, <2>1
  <2>3. CASE HasJob(q)'
    <3>1. x \in Running(q)
      BY <1>17, <2>1, <2>3
    <3>2. q = r /\ exec[x].stage = "kill"
      BY <1>1, <2>1, <3>1 DEF Running
    <3>3. ~HasJob(r)'
      BY <1>18, <3>2
    <3> QED
      BY <2>3, <3>2, <3>3
  <2> QED
    BY <2>2, <2>3
<1>20. SeenInv'
  BY <1>2, <1>7, <1>8, <1>10 DEF IInv, RunInv, SeenInv
<1>21. OverInv'
  BY <1>2, <1>6, <1>8, <1>9, <1>10 DEF OverInv
<1>22. WipedInv'
  <2> SUFFICES ASSUME NEW q \in wiped, mishap'[q] \cap {"aborted", "overlap"} = {}
               PROVE  /\ \A y \in Running(q)' : exec'[y].stage \notin Before
                      /\ HasJob(q)' => Running(q)' # {}
    BY <1>2 DEF WipedInv
  <2>1. q \in Request /\ mishap[q] \cap {"aborted", "overlap"} = {}
    BY <1>1, <1>3 DEF Worsens, Types
  <2>2. \A y \in Running(q) : y = x
    BY <1>9, <2>1 DEF Befallen
  <2>3. Running(q)' = {}
    BY <1>6, <2>1, <2>2
  <2>4. CASE HasJob(q)'
    <3>1. HasJob(q)
      BY <1>17, <2>1, <2>4
    <3>2. Running(q) # {}
      BY <2>1, <3>1 DEF IInv, RunInv, WipedInv
    <3>3. q = r
      BY <1>1, <2>2, <3>2 DEF Running
    <3>4. ~HasJob(r)'
      BY <1>18, <3>3
    <3> QED
      BY <2>4, <3>3, <3>4
  <2> QED
    BY <2>3, <2>4
<1> QED
  BY <1>12, <1>13, <1>14, <1>15, <1>16, <1>19, <1>20, <1>21, <1>22 DEF IInv, RunInv

-----------------------------------------------------------------------------
(***************************************************************************)
(* The windows.                                                            *)
(***************************************************************************)
\* A window goes on to stage p, and records its restore if it was to read the log.
Walks(r, p) ==
    /\ UNCHANGED <<bakruntb, exec, log, mishap, wiped>>
    /\ pc' = [pc EXCEPT ![r] = p] /\ p \in PC
    /\ pc[r] \notin {"idle", "chosen", "drop"} => p \notin {"idle", "chosen", "drop"}
    /\ pc[r] \in Answered => p \in Answered
    /\ pc[r] # "idle" => wrk_dt' = wrk_dt
    /\ wrk_dt' = wrk_dt \/ \E t \in Time : wrk_dt' = [wrk_dt EXCEPT ![r] = t]

\* What the walk of a window leaves as it was.
LEMMA WalksSame ==
    ASSUME Types, NEW r \in Request, NEW p, Walks(r, p)
    PROVE  /\ pc' \in [Request -> PC] /\ pc'[r] = p /\ \A q \in Request \ {r} : pc'[q] = pc[q]
           /\ wrk_dt' \in [Request -> Time]
           /\ \A q \in Request : wrk_dt'[q] = wrk_dt[q] \/ pc[q] = "idle"
           /\ \A q \in Request : pc[q] \in Answered => pc'[q] \in Answered
           /\ \A q \in Request : pc[q] # "idle" /\ Twin(q) => Twin(q)'
           /\ \A q \in Request : Running(q)' = Running(q) /\ Ended(q)' = Ended(q)
                                 /\ Befallen(q, "overlap")' = Befallen(q, "overlap")
<1>1. pc' \in [Request -> PC] /\ pc'[r] = p /\ \A q \in Request \ {r} : pc'[q] = pc[q]
  BY DEF Walks, Types
<1>2. wrk_dt' \in [Request -> Time] /\ \A q \in Request : wrk_dt'[q] = wrk_dt[q] \/ pc[q] = "idle"
  BY DEF Walks, Types
<1>3. \A q \in Request : pc[q] \in Answered => pc'[q] \in Answered
  BY <1>1 DEF Walks
<1>4. \A q \in Request : pc[q] \notin {"idle", "chosen", "drop"} => pc'[q] \notin {"idle", "chosen", "drop"}
  BY <1>1 DEF Walks
<1>5. \A q \in Request : pc[q] # "idle" /\ Twin(q) => Twin(q)'
  BY <1>2, <1>4, TwinStays
<1>6. \A q \in Request : Running(q)' = Running(q) /\ Ended(q)' = Ended(q)
                         /\ Befallen(q, "overlap")' = Befallen(q, "overlap")
  BY DEF Walks, Running, Ended, Befallen
<1> QED
  BY <1>1, <1>2, <1>3, <1>5, <1>6

LEMMA WalksInv ==
    ASSUME IInv, NEW r \in Request, NEW p, Walks(r, p),
           jobs' \subseteq [own : Request, due : BOOLEAN],
           \A j \in jobs' : pc'[j.own] \in Answered,
           \* jobs that go leave twins behind, one that comes is its own
           \A j \in jobs \ jobs' : pc[j.own] \in Answered => Twin(j.own)',
           \A j \in jobs' \ jobs : j.own = r /\ pc[r] = "regi",
           pc[r] \notin Answered /\ p \in Answered => HasJob(r)' \/ Twin(r)',
           p = "endseen" => Ended(r), p = "readlog" => pc[r] = "endseen" /\ ~HasJob(r),
           wrklogtb' = wrklogtb \/ (pc[r] = "readlog" /\ \A row \in wrklogtb' \ wrklogtb : row.req = r)
    PROVE  IInv'
<1>1. /\ Types /\ OwnInv /\ UNCHANGED <<bakruntb, exec, log, mishap, wiped>>
      /\ \A q \in Request : (\E j \in jobs : j.own = q) <=> HasJob(q)
  BY DEF IInv, Walks, HasJob
<1>2. /\ pc' \in [Request -> PC] /\ pc'[r] = p /\ \A q \in Request \ {r} : pc'[q] = pc[q]
      /\ wrk_dt' \in [Request -> Time]
      /\ \A q \in Request : pc[q] \in Answered => pc'[q] \in Answered
      /\ \A q \in Request : pc[q] # "idle" /\ Twin(q) => Twin(q)'
      /\ \A q \in Request : Running(q)' = Running(q) /\ Ended(q)' = Ended(q)
                            /\ Befallen(q, "overlap")' = Befallen(q, "overlap")
  BY <1>1, WalksSame
<1>3. \A q \in Request : \A x \in Running(q) : pc[q] \in Answered
  BY <1>1 DEF OwnInv, Running, Active
<1>4. \A q \in Request : Ended(q) => pc[q] \in Answered
  BY <1>1 DEF OwnInv
<1>5. \A q \in Request : pc[q] \in Answered /\ Twin(q) => Twin(q)'
  BY <1>2 DEF Answered
<1>6. \A q \in Request : pc[q] \in Answered /\ HasJob(q) => HasJob(q)' \/ Twin(q)'
  BY DEF HasJob
<1>7. \A q \in Request : pc[q] \in Answered /\ HasJob(q)' => HasJob(q)
  <2>1. pc[r] \in Answered => jobs' \subseteq jobs
    BY DEF Answered
  <2> QED
    BY <2>1 DEF HasJob
<1>8. \A row \in wrklogtb' : row.req = r \/ row \in wrklogtb
  OBVIOUS
<1>9. Types'
  BY <1>1, <1>2, <1>8 DEF Types
<1>10. OwnInv'
  BY <1>1, <1>2 DEF OwnInv
<1>11. AnsweredInv'
  <2> SUFFICES ASSUME NEW q \in Request, pc'[q] \in Answered
               PROVE  HasJob(q)' \/ HadRun(q)' \/ Twin(q)'
    BY DEF AnsweredInv
  <2>0. HadRun(q)' = HadRun(q)
    BY <1>1 DEF HadRun
  <2>1. CASE pc[q] \in Answered
    <3>1. HasJob(q) \/ HadRun(q) \/ Twin(q)
      BY <2>1 DEF IInv, AnsweredInv
    <3> QED
      BY <1>5, <1>6, <2>0, <2>1, <3>1
  <2>2. CASE pc[q] \notin Answered
    BY <1>2, <2>2
  <2> QED
    BY <2>1, <2>2
<1>12. OverlapInv'
  BY <1>1 DEF IInv, RunInv, OverlapInv, Befallen
<1>13. RegisteredInv'
  BY <1>2, <1>3, <1>5, <1>6 DEF IInv, RunInv, RegisteredInv
<1>14. EndInv'
  BY <1>1, <1>2, <1>4, <1>7 DEF IInv, RunInv, EndInv
<1>15. \A q \in Request : Ended(q) /\ ~Befallen(q, "overlap") => \A x \in Running(q) : exec[x].stage = "kill"
  BY DEF IInv, RunInv, EndInv
\* The stages of a window that has seen the end.
<1>16. ASSUME NEW q \in Request, pc'[q] \in {"endseen", "readlog"} \/ (\E row \in wrklogtb' : row.req = q)
       PROVE  Ended(q) \/ Befallen(q, "overlap")
  <2>1. CASE pc[q] \in {"endseen", "readlog"} \/ (\E row \in wrklogtb : row.req = q)
    BY <2>1 DEF IInv, RunInv, SeenInv
  <2>2. CASE q = r /\ p \in {"endseen", "readlog"}
    BY <2>1, <2>2
  <2> QED
    BY <1>2, <1>16, <2>1, <2>2
<1>17. SeenInv'
  BY <1>2, <1>16 DEF SeenInv
<1>18. OverInv'
  <2> SUFFICES ASSUME NEW q \in Request, pc'[q] = "readlog" \/ (\E row \in wrklogtb' : row.req = q),
                      NEW x \in Running(q), ~Befallen(q, "overlap")
               PROVE  exec[x].stage = "kill" /\ Twin(q)'
    BY <1>1, <1>2 DEF OverInv
  <2>1. exec[x].stage = "kill" /\ pc[q] \in Answered
    BY <1>3, <1>15, <1>16
  <2>2. CASE pc[q] = "readlog" \/ (\E row \in wrklogtb : row.req = q)
    BY <1>5, <2>1, <2>2 DEF IInv, RunInv, OverInv
  <2>3. CASE q = r /\ p = "readlog"
    <3>1. Twin(q)
      BY <2>3 DEF IInv, RunInv, RegisteredInv
    <3> QED
      BY <1>5, <2>1, <3>1
  <2> QED
    BY <1>2, <2>1, <2>2, <2>3
<1>19. WipedInv'
  <2> SUFFICES ASSUME NEW q \in wiped, mishap[q] \cap {"aborted", "overlap"} = {}
               PROVE  /\ \A x \in Running(q)' : exec[x].stage \notin Before
                      /\ HasJob(q)' => Running(q)' # {}
    BY <1>1 DEF WipedInv
  <2>1. /\ \A x \in Running(q) : exec[x].stage \notin Before
        /\ HasJob(q) => Running(q) # {}
    BY DEF IInv, RunInv, WipedInv
  <2>2. pc[q] \in Answered /\ q \in Request
    BY <1>1 DEF Types, OwnInv
  <2> QED
    BY <1>2, <1>7, <2>1, <2>2
<1> QED
  BY <1>9, <1>10, <1>11, <1>12, <1>13, <1>14, <1>17, <1>18, <1>19 DEF IInv, RunInv

LEMMA WebInv == ASSUME IInv, NEW r \in Request, RsrRunExe(r) \/ RsrRunEndChk(r) PROVE IInv'
<1> USE DEF Goto, webVars, histVars, hostVars, catVars, WebOnly, Answered, PC
<1>0. Types /\ \A j \in jobs : j.own \in Request /\ pc[j.own] \in Answered
  BY DEF IInv, Types, OwnInv
<1>1. CASE Choose(r)
  <2>1. PICK t \in Time : wrk_dt' = [wrk_dt EXCEPT ![r] = t]
    BY <1>0, <1>1 DEF Choose, Types
  <2>2. Walks(r, "chosen")
    BY <1>1, <2>1 DEF Choose, Walks
  <2>3. \A j \in jobs : pc'[j.own] \in Answered
    BY <1>0, <1>1 DEF Choose, Types
  <2> QED
    BY <1>0, <1>1, <2>2, <2>3, WalksInv DEF Choose, Types
<1>2. CASE FindBakRunLst(r)
  <2>1. Walks(r, "drop")
    BY <1>2 DEF FindBakRunLst, Walks
  <2>2. \A j \in jobs : pc'[j.own] \in Answered
    BY <1>0, <1>2 DEF FindBakRunLst, Types
  <2> QED
    BY <1>0, <1>2, <2>1, <2>2, WalksInv DEF FindBakRunLst, Types
<1>3. CASE DropOldJob(r)
  <2>1. Walks(r, "regi")
    BY <1>3 DEF DropOldJob, Walks
  <2>2. \A j \in jobs' : pc'[j.own] \in Answered
    BY <1>0, <1>3 DEF DropOldJob, Types
  <2>3. \A j \in jobs \ jobs' : Twin(j.own)'
    <3> SUFFICES ASSUME NEW j \in jobs \ jobs' PROVE Twin(j.own)'
      OBVIOUS
    <3>1. wrk_dt[j.own] = wrk_dt[r] /\ j.own # r
      BY <1>0, <1>3 DEF DropOldJob, Named
    <3>2. pc'[r] = "regi" /\ wrk_dt' = wrk_dt
      BY <1>0, <1>3 DEF DropOldJob, Types
    <3> QED
      BY <3>1, <3>2 DEF Twin
  <2> QED
    BY <1>0, <1>3, <2>1, <2>2, <2>3, WalksInv DEF DropOldJob, Types
<1>4. CASE RegiSchedulerRestore(r)
  <2>1. Walks(r, "polling")
    BY <1>4 DEF RegiSchedulerRestore, Walks
  <2>2. pc' = [pc EXCEPT ![r] = "polling"] /\ pc[r] = "regi" /\ wrk_dt' = wrk_dt /\ wrklogtb' = wrklogtb
    BY <1>4 DEF RegiSchedulerRestore
  <2>3. CASE Named(r) # {} /\ jobs' = jobs
    <3>1. PICK j \in jobs : wrk_dt[j.own] = wrk_dt[r]
      BY <2>3 DEF Named
    <3>2. j.own # r => Twin(r)'
      BY <1>0, <2>2, <3>1 DEF Twin, Types
    <3>3. HasJob(r)' \/ Twin(r)'
      BY <2>3, <3>1, <3>2 DEF HasJob
    <3>4. \A i \in jobs : pc'[i.own] \in Answered
      BY <1>0, <2>2 DEF Types
    <3> QED
      BY <1>0, <2>1, <2>2, <2>3, <3>3, <3>4, WalksInv DEF Types
  <2>4. CASE jobs' = jobs \cup {[own |-> r, due |-> TRUE]}
    <3> DEFINE j == [own |-> r, due |-> TRUE]
    <3>0. j \in [own : Request, due : BOOLEAN] /\ j.own = r /\ jobs' = jobs \cup {j}
      BY <2>4
    <3> HIDE DEF j
    <3>1. HasJob(r)'
      BY <3>0 DEF HasJob
    <3>2. \A i \in jobs' : pc'[i.own] \in Answered
      BY <1>0, <2>2, <3>0 DEF Types
    <3>3. jobs' \subseteq [own : Request, due : BOOLEAN] /\ \A i \in jobs' \ jobs : i.own = r
      BY <1>0, <3>0 DEF Types
    <3>4. jobs \ jobs' = {}
      BY <2>4
    <3> QED
      BY <2>1, <2>2, <3>1, <3>2, <3>3, <3>4, WalksInv
  <2> QED
    BY <1>4, <2>3, <2>4 DEF RegiSchedulerRestore
<1>5. CASE PollEnd(r)
  <2>1. Walks(r, "endseen")
    BY <1>5 DEF PollEnd, Walks
  <2>2. \A j \in jobs : pc'[j.own] \in Answered
    BY <1>0, <1>5 DEF PollEnd, Types
  <2> QED
    BY <1>0, <1>5, <2>1, <2>2, WalksInv DEF PollEnd, Types, Ended
<1>6. CASE PollJob(r)
  <2>1. PICK p \in {"done", "readlog"} : pc' = [pc EXCEPT ![r] = p] /\ (p = "readlog" => Named(r) = {})
    BY <1>6 DEF PollJob
  <2>2. Walks(r, p)
    BY <1>6, <2>1 DEF PollJob, Walks
  <2>3. \A j \in jobs : pc'[j.own] \in Answered
    BY <1>0, <2>1 DEF Types
  <2>4. p = "readlog" => ~HasJob(r)
    BY <2>1 DEF HasJob, Named
  <2> QED
    BY <1>0, <1>6, <2>1, <2>2, <2>3, <2>4, WalksInv DEF PollJob, Types
<1>7. CASE InsertLog(r)
  <2>1. Walks(r, "done")
    BY <1>7 DEF InsertLog, Walks
  <2>2. \A j \in jobs : pc'[j.own] \in Answered
    BY <1>0, <1>7 DEF InsertLog, Types
  <2>3. \A row \in wrklogtb' \ wrklogtb : row.req = r
    BY <1>7 DEF InsertLog
  <2> QED
    BY <1>0, <1>7, <2>1, <2>2, <2>3, WalksInv DEF InsertLog, Types
<1> QED
  BY <1>1, <1>2, <1>3, <1>4, <1>5, <1>6, <1>7 DEF RsrRunExe, RsrRunEndChk

-----------------------------------------------------------------------------
(***************************************************************************)
(* Quartz.                                                                 *)
(***************************************************************************)
LEMMA FireInv == ASSUME IInv, NEW x \in Exec, NEW j \in jobs, Fire(x, j) PROVE IInv'
<1>0. PICK r : r = j.own
  OBVIOUS
<1>1. /\ Types /\ OwnInv /\ r \in Request /\ pc[r] \in Answered /\ HasJob(r)
      /\ UNCHANGED <<bakruntb, pc, wrk_dt, log, wrklogtb, wiped>> /\ exec[x].stage = "free"
  BY <1>0 DEF IInv, Types, OwnInv, HasJob, Fire, webVars, catVars
<1>2. jobs' \subseteq [own : Request, due : BOOLEAN] /\ \A q : HasJob(q)' <=> HasJob(q)
  <2>1. jobs' = (jobs \ {j}) \cup {[j EXCEPT !.due = FALSE]}
    BY DEF Fire
  <2>2. j \in [own : Request, due : BOOLEAN]
    BY <1>1 DEF Types
  <2>3. [j EXCEPT !.due = FALSE] \in [own : Request, due : BOOLEAN] /\ [j EXCEPT !.due = FALSE].own = j.own
    BY <2>2
  <2> QED
    BY <1>1, <2>1, <2>3 DEF HasJob, Types
<1>3. /\ exec' \in [Exec -> [stage : Stage, own : Request \cup {None}]]
      /\ exec'[x].stage = "start" /\ exec'[x].own = r
      /\ \A y \in Exec \ {x} : exec'[y] = exec[y]
  BY <1>0, <1>1 DEF Fire, Types, Stage, Active
<1>4. \A q \in Request \ {r} : Running(q)' = Running(q)
  BY <1>1, <1>3 DEF Running, Active
<1>5. Running(r)' = Running(r) \cup {x} /\ x \notin Running(r)
  BY <1>1, <1>3 DEF Running, Active
<1>6. Worsens /\ \A q, p \in Request : Running(q) # {} => "overlap" \in mishap'[q] /\ "overlap" \in mishap'[r]
  <2> DEFINE others == {q \in Request : Running(q) # {}}
  <2>1. IF others = {} THEN mishap' = mishap ELSE Befalls(others \cup {r}, "overlap")
    BY <1>0 DEF Fire
  <2>2. Worsens
    BY <1>1, <2>1, BefallsMore, SameMore DEF Mishap
  <2> QED
    BY <1>1, <2>1, <2>2 DEF Befalls
<1>7. \A q \in Request, m \in Mishap : Befallen(q, m) => Befallen(q, m)'
  BY <1>6 DEF Worsens, Befallen
<1>8. \A q \in Request : Running(q) # {} => Befallen(q, "overlap")' /\ Befallen(r, "overlap")'
  BY <1>1, <1>6 DEF Befallen
<1>9. "overlap" \in Mishap /\ "aborted" \in Mishap
  BY DEF Mishap
<1>10. \A q \in Request : Twin(q)' = Twin(q) /\ Ended(q)' = Ended(q)
  BY <1>1 DEF Twin, Ended
<1>11. Types'
  BY <1>1, <1>2, <1>3, <1>6 DEF Types, Worsens
<1>12. OwnInv'
  <2>1. \A i \in jobs' : HasJob(i.own)
    BY <1>2 DEF HasJob
  <2>2. \A q : HasJob(q) => pc[q] \in Answered
    BY <1>1 DEF HasJob, OwnInv
  <2> QED
    BY <1>1, <1>3, <1>10, <2>1, <2>2 DEF OwnInv
<1>13. AnsweredInv'
  <2> SUFFICES ASSUME NEW q \in Request, pc[q] \in Answered
               PROVE  HasJob(q)' \/ HadRun(q)' \/ Twin(q)
    BY <1>1, <1>10 DEF AnsweredInv
  <2>1. HasJob(q) \/ HadRun(q) \/ Twin(q)
    BY DEF IInv, AnsweredInv
  <2>2. HadRun(q) => HadRun(q)'
    BY <1>1, <1>3 DEF HadRun
  <2> QED
    BY <1>2, <2>1, <2>2
<1>14. OverlapInv'
  <2> SUFFICES ASSUME NEW y \in Exec, NEW z \in Exec, y # z,
                      exec'[y].stage \in Active, exec'[z].stage \in Active
               PROVE  "overlap" \in mishap'[exec'[y].own]
    BY DEF OverlapInv, Befallen
  <2>1. \A w \in Exec \ {x} : exec'[w].stage \in Active
          => exec[w].own \in Request /\ w \in Running(exec[w].own)
    BY <1>1, <1>3 DEF OwnInv, Running, Active
  <2>2. CASE y = x
    BY <1>3, <1>8, <2>1, <2>2 DEF Befallen
  <2>3. CASE y # x
    BY <1>3, <1>8, <2>1, <2>3 DEF Befallen
  <2> QED
    BY <2>2, <2>3
<1>15. RegisteredInv'
  BY <1>1, <1>2, <1>4, <1>5, <1>7, <1>9, <1>10 DEF IInv, RunInv, RegisteredInv
\* A request whose job fires has no end in its log, or has overlapped.
<1>16. Ended(r) => Befallen(r, "overlap")'
  BY <1>1, <1>7, <1>8, <1>9 DEF IInv, RunInv, EndInv
<1>17. EndInv'
  BY <1>2, <1>3, <1>4, <1>7, <1>8, <1>9, <1>10, <1>16 DEF IInv, RunInv, EndInv, Running
<1>18. SeenInv'
  BY <1>1, <1>7, <1>9, <1>10 DEF IInv, RunInv, SeenInv
<1>19. OverInv'
  <2> SUFFICES ASSUME NEW q \in Request, pc[q] = "readlog" \/ (\E row \in wrklogtb : row.req = q),
                      NEW y \in Running(q)', ~Befallen(q, "overlap")'
               PROVE  exec'[y].stage = "kill" /\ Twin(q)
    BY <1>1, <1>10 DEF OverInv
  <2>1. Ended(q)
    BY <1>7, <1>9 DEF IInv, RunInv, SeenInv
  <2>2. q # r
    BY <1>16, <2>1
  <2>3. y \in Running(q)
    BY <1>4, <2>2
  <2> QED
    BY <1>8, <2>3
<1>20. WipedInv'
  <2> SUFFICES ASSUME NEW q \in wiped, mishap'[q] \cap {"aborted", "overlap"} = {}
               PROVE  /\ \A y \in Running(q)' : exec'[y].stage \notin Before
                      /\ HasJob(q)' => Running(q)' # {}
    BY <1>1 DEF WipedInv
  <2>1. q \in Request /\ mishap[q] \cap {"aborted", "overlap"} = {} /\ Running(q) = {}
    BY <1>1, <1>6, <1>8 DEF Worsens, Types, Befallen
  <2>2. ~HasJob(q)
    BY <2>1 DEF IInv, RunInv, WipedInv
  <2> QED
    BY <1>1, <1>2, <1>4, <2>1, <2>2
<1> QED
  BY <1>11, <1>12, <1>13, <1>14, <1>15, <1>17, <1>18, <1>19, <1>20 DEF IInv, RunInv

LEMMA RepeatInv == ASSUME IInv, NEW j \in jobs, Repeat(j) PROVE IInv'
<1>1. /\ Types /\ OwnInv /\ UNCHANGED <<bakruntb, pc, wrk_dt, exec, log, wrklogtb, mishap, wiped>>
  BY DEF IInv, Repeat, webVars, catVars, histVars
<1>2. jobs' \subseteq [own : Request, due : BOOLEAN] /\ \A q : HasJob(q)' <=> HasJob(q)
  <2>1. jobs' = (jobs \ {j}) \cup {[j EXCEPT !.due = TRUE]}
    BY DEF Repeat
  <2>2. j \in [own : Request, due : BOOLEAN]
    BY <1>1 DEF Types
  <2>3. [j EXCEPT !.due = TRUE] \in [own : Request, due : BOOLEAN] /\ [j EXCEPT !.due = TRUE].own = j.own
    BY <2>2
  <2> QED
    BY <1>1, <2>1, <2>3 DEF HasJob, Types
<1>3. \A q : Twin(q)' = Twin(q) /\ Running(q)' = Running(q) /\ Ended(q)' = Ended(q)
             /\ Befallen(q, "overlap")' = Befallen(q, "overlap")
  BY <1>1 DEF Twin, Running, Ended, Befallen
<1>4. Types'
  BY <1>1, <1>2 DEF Types
<1>5. OwnInv'
  <2>1. \A i \in jobs' : HasJob(i.own)
    BY <1>2 DEF HasJob
  <2>2. \A q : HasJob(q) => pc[q] \in Answered
    BY <1>1 DEF HasJob, OwnInv
  <2> QED
    BY <1>1, <1>3, <2>1, <2>2 DEF OwnInv
<1>6. AnsweredInv'
  <2>1. \A q : HadRun(q)' = HadRun(q)
    BY <1>1 DEF HadRun
  <2> QED
    BY <1>1, <1>2, <1>3, <2>1 DEF IInv, AnsweredInv
<1>7. OverlapInv' /\ RegisteredInv' /\ EndInv' /\ SeenInv' /\ OverInv' /\ WipedInv'
  BY <1>1, <1>2, <1>3 DEF IInv, RunInv, OverlapInv, RegisteredInv, EndInv, SeenInv, OverInv, WipedInv, Befallen
<1> QED
  BY <1>4, <1>5, <1>6, <1>7 DEF IInv, RunInv

-----------------------------------------------------------------------------
LEMMA NextInv == IInv /\ [Next]_vars => IInv'
<1> SUFFICES ASSUME IInv, [Next]_vars PROVE IInv'
  OBVIOUS
<1>1. ASSUME NEW r \in Request, RsrRunExe(r) \/ RsrRunEndChk(r) PROVE IInv'
  BY <1>1, WebInv
<1>2. ASSUME NEW j \in jobs, Repeat(j) PROVE IInv'
  BY <1>2, RepeatInv
<1>3. ASSUME NEW j \in jobs, NEW x \in Exec, Fire(x, j) PROVE IInv'
  BY <1>3, FireInv
<1>4. ASSUME NEW x \in Exec, JobStep(x) PROVE IInv'
  <2>1. CASE ~ScheduleKill(x)
    BY <1>4, <2>1, StepMoves, MovesInv DEF IInv
  <2>2. CASE ScheduleKill(x)
    <3>1. Leaves(x)
      BY <2>2 DEF ScheduleKill, Leaves, At, Step, Quiet, webVars, catVars, histVars
    <3> QED
      BY <3>1, LeavesInv
  <2> QED
    BY <2>1, <2>2
<1>5. ASSUME NEW x \in Exec, Abort(x) PROVE IInv'
  <2>1. Leaves(x)
    BY <1>5 DEF Abort, Leaves, Step, Quiet, webVars, catVars
  <2> QED
    BY <2>1, LeavesInv
<1>6. ASSUME NEW t \in Time, DelBackup(t) \/ DeleteRun(t) PROVE IInv'
  BY <1>6, SameInv DEF DelBackup, DeleteRun, webVars, histVars
<1>7. CASE UNCHANGED vars
  BY <1>7, SameInv DEF vars, webVars, catVars, histVars
<1> QED
  BY <1>1, <1>2, <1>3, <1>4, <1>5, <1>6, <1>7 DEF Next

\* The inductive invariant holds throughout.
THEOREM Inductive == Spec => []IInv
BY InitInv, NextInv, PTL DEF Spec

\* An answered request has its job in the scheduler or has been executed, unless
\* another window asked for the same restore point (rsr_run_exe names jobs after it).
THEOREM AnsweredRuns == Spec => []AnsweredRestoreRuns
<1>1. IInv => AnsweredRestoreRuns
  BY DEF IInv, AnsweredInv, AnsweredRestoreRuns, Answered, HasJob, HadRun
<1> QED
  BY <1>1, Inductive, PTL

\* rsr_run_endChk records a restore only when no execution of it is under way.
THEOREM RecordedIsOver == Spec => []RecordedRestoreIsOver
<1>1. IInv => RecordedRestoreIsOver
  <2> SUFFICES ASSUME IInv, NEW row \in wrklogtb, NEW x \in Running(row.req)
               PROVE  "overlap" \in mishap[row.req] \/ (At(x, "kill") /\ Twin(row.req))
    BY DEF RecordedRestoreIsOver
  <2>1. row.req \in Request
    BY DEF IInv, Types
  <2> QED
    BY <2>1 DEF IInv, RunInv, OverInv, Befallen, At
<1> QED
  BY <1>1, Inductive, PTL

\* RestoreExcute replaces the data of a request a second time only after an
\* execution of it was aborted or had overlapped.
THEOREM DataReplacedOnce == Spec => ReplacedOnce
<1>1. IInv /\ [Next]_vars =>
        [\A x \in Exec : /\ exec[x].stage \in {"copy", "load"} /\ exec'[x].stage # exec[x].stage
                         /\ data' # data /\ Own(x) \in wiped
           => mishap[Own(x)] \cap {"aborted", "overlap"} # {}]_vars
  <2> SUFFICES ASSUME IInv, NEW x \in Exec, exec[x].stage \in {"copy", "load"}, Own(x) \in wiped
               PROVE  mishap[Own(x)] \cap {"aborted", "overlap"} # {}
    OBVIOUS
  <2>1. x \in Running(Own(x))
    BY DEF Running, Own, Active
  <2> QED
    BY <2>1 DEF IInv, RunInv, WipedInv, Before
<1> QED
  BY <1>1, Inductive, PTL DEF Spec, ReplacedOnce

-----------------------------------------------------------------------------
(***************************************************************************)
(* What a success is worth.  A request that nothing has happened to but an *)
(* abort is alone on the server: DataInv follows its execution through the *)
(* commands, each of which leaves what the next one needs, or a complaint  *)
(* that the checks at the end will find.                                   *)
(***************************************************************************)
\* Nothing has happened to a request but that an earlier execution of it was aborted.
Clean(r) == mishap[r] \subseteq {"aborted"}
\* The error check at the end will find something.
Told(r)  == log[r] \cap {"error", "errfile"} # {}
\* The database is the full backup of the restore, in one of these forms.
Base(r, F) == \E f \in F : data = [base |-> lst_full_wrk_dt[r], form |-> f, inc |-> NoReplay]
Replay(r)  == [t \in Time |-> IF t \in Expected(r) THEN 1 ELSE 0]

\* The stages that only one of the engines has, and those in which the server of
\* mariabackup is stopped.
Physical == {"stop", "copy", "decompress", "chkdec", "prepare", "chkpre", "startdb", "status"}
Dump     == {"load", "dbchk"}
Stopped  == {"decompress", "chkdec", "prepare", "chkpre", "startdb"}

\* Only incremental restore points have a file of binary logs.
HostInv ==
    /\ set.mtd \in {"M01", "M02"} /\ dirs \subseteq Time
    /\ lst_full_wrk_dt \in [Request -> Time \cup {None}]
    /\ sql = [t \in Time |-> sql[t]]
    /\ \A t \in Time : set.lvl[t] # "L02" => sql[t] = NoReplay

Course(x) ==
    /\ exec[x].stage \in Physical => set.mtd = "M01"
    /\ exec[x].stage \in Dump => set.mtd = "M02"
    /\ exec[x].stage = "incre" => Lvl(Own(x)) = "L02"

\* What the commands of an execution have left when it has come to stage s.
Halfway(r, s) ==
    /\ s \in Stopped \/ (s = "incre" /\ set.mtd = "M01") => ~up
    /\ s \in {"startdb", "status", "dbchk", "apply"} => sql[wrk_dt[r]] = Replay(r)
    /\ s = "success" => ~Told(r)
    /\ ~Told(r) =>
          /\ s = "decompress" => Base(r, {"packed", "ready"})
          /\ s = "chkdec" /\ "completed" \in log[r] => Base(r, {"raw", "ready"})
          /\ s = "prepare" => Base(r, {"raw", "ready"})
          /\ s = "chkpre" /\ "completed" \in log[r] => Base(r, {"ready"})
          /\ s = "startdb" \/ (s = "incre" /\ set.mtd = "M01") => Base(r, {"packed", "ready"})
          /\ s = "status" /\ up => Base(r, {"ready"})
          /\ s \in {"dbchk", "apply"} \/ (s = "incre" /\ set.mtd = "M02") => Base(r, {"ready"})
          /\ s \in {"errchk", "success"} => Restored(r)

Holds(x) == exec[x].stage \in Active /\ Clean(Own(x)) => Halfway(Own(x), exec[x].stage)
DataInv  == HostInv /\ \A x \in Exec : Course(x) /\ Holds(x)

-----------------------------------------------------------------------------
LEMMA DataInit == Init => DataInv
<1> SUFFICES ASSUME Init PROVE DataInv
  OBVIOUS
<1>1. \A x \in Exec : exec[x].stage = "free"
  BY DEF Init
<1>2. HostInv
  <2>1. set.mtd \in {"M01", "M02"}
    BY DEF Init, Setting
  <2>2. dirs \subseteq Time /\ sql = [t \in Time |-> sql[t]] /\ \A t \in Time : sql[t] = NoReplay
    BY DEF Init
  <2>3. lst_full_wrk_dt \in [Request -> Time \cup {None}]
    BY DEF Init
  <2> QED
    BY <2>1, <2>2, <2>3 DEF HostInv
<1> QED
  BY <1>1, <1>2 DEF DataInv, Course, Holds, Active, Physical, Dump

\* What a restore expects does not change while its request is answered.
Fixed(r) == wrk_dt'[r] = wrk_dt[r] /\ lst_full_wrk_dt'[r] = lst_full_wrk_dt[r] /\ set' = set

LEMMA FixedExpects ==
    ASSUME NEW r \in Request, Fixed(r)
    PROVE  /\ Lvl(r)' = Lvl(r) /\ Points(r)' = Points(r) /\ Expected(r)' = Expected(r)
           /\ Replay(r)' = Replay(r) /\ wrk_dt'[r] = wrk_dt[r] /\ lst_full_wrk_dt'[r] = lst_full_wrk_dt[r]
<1>1. Lvl(r)' = Lvl(r) /\ Points(r)' = Points(r)
  BY DEF Fixed, Lvl, Points
<1>2. Expected(r)' = Expected(r)
  BY <1>1 DEF Expected
<1> QED
  BY <1>1, <1>2 DEF Replay, Fixed

\* A full restore point has no binary logs, and needs none.
LEMMA FullReplay ==
    ASSUME Types, HostInv, NEW r \in Request, Lvl(r) # "L02"
    PROVE  Replay(r) = NoReplay /\ sql[wrk_dt[r]] = Replay(r)
<1>1. Replay(r) = NoReplay
  BY DEF Replay, Expected, NoReplay
<1>2. wrk_dt[r] \in Time
  BY DEF Types
<1> QED
  BY <1>1, <1>2 DEF HostInv, Lvl

LEMMA BaseRestored ==
    ASSUME NEW r \in Request, Base(r, {"ready"}), Replay(r) = NoReplay
    PROVE  Restored(r)
BY DEF Base, Restored, Replay

\* An execution that the others and their files leave alone.
LEMMA HoldsElsewhere ==
    ASSUME DataInv, NEW x \in Exec, exec'[x] = exec[x], exec[x].stage \in Active => Own(x) \in Request /\ Fixed(Own(x)),
           set' = set, UNCHANGED <<log, data, up, sql, mishap>>
    PROVE  Course(x)' /\ Holds(x)'
<1>0. PICK r, s : r = Own(x) /\ s = exec[x].stage
  OBVIOUS
<1>1. Own(x)' = r /\ exec'[x].stage = s
  BY <1>0 DEF Own
<1>2. Course(x) /\ Holds(x)
  BY DEF DataInv
<1>3. CASE s \notin Active
  BY <1>1, <1>3 DEF Course, Holds, Active, Physical, Dump
<1>4. CASE s \in Active
  <2>1. r \in Request /\ Fixed(r)
    BY <1>0, <1>4
  <2>2. /\ Lvl(r)' = Lvl(r) /\ Expected(r)' = Expected(r) /\ Replay(r)' = Replay(r)
        /\ wrk_dt'[r] = wrk_dt[r] /\ lst_full_wrk_dt'[r] = lst_full_wrk_dt[r]
    BY <2>1, FixedExpects
  <2>3. Course(x)'
    BY <1>0, <1>1, <1>2, <2>2 DEF Course
  <2>4. /\ \A F : Base(r, F)' = Base(r, F)
        /\ Restored(r)' = Restored(r) /\ Told(r)' = Told(r) /\ Clean(r)' = Clean(r)
    BY <2>2 DEF Base, Restored, Told, Clean
  <2>5. Halfway(r, s)' = Halfway(r, s)
    BY <2>2, <2>4 DEF Halfway
  <2> QED
    BY <1>0, <1>1, <1>2, <2>3, <2>4, <2>5 DEF Holds
<1> QED
  BY <1>3, <1>4

\* What a command has to leave for its execution.
Kept(x) == HostInv' /\ Course(x)' /\ Holds(x)'

LEMMA Goes ==
    ASSUME Types, NEW x \in Exec, NEW r \in Request, Own(x) = r, NEW s, Step(x, s), Quiet, HostInv',
           s \in Physical => set.mtd = "M01", s \in Dump => set.mtd = "M02", s = "incre" => Lvl(r) = "L02",
           Clean(r)' => Halfway(r, s)'
    PROVE  Kept(x)
<1>1. exec'[x].stage = s /\ Own(x)' = r
  BY DEF Step, Types, Own
<1>2. Fixed(r) /\ set' = set
  BY DEF Quiet, Fixed, webVars
<1>3. Lvl(r)' = Lvl(r)
  BY <1>2, FixedExpects
<1>4. Course(x)'
  BY <1>1, <1>2, <1>3 DEF Course
<1>5. Holds(x)'
  BY <1>1 DEF Holds
<1> QED
  BY <1>4, <1>5 DEF Kept

\* Nobody is promised anything about an execution that lost a command.
LEMMA LostKept ==
    ASSUME Types, HostInv, NEW x \in Exec, NEW r \in Request, Own(x) = r, NEW from, NEW to, Lost(x, from, to),
           to \in Physical => set.mtd = "M01", to \in Dump => set.mtd = "M02", to = "incre" => Lvl(r) = "L02"
    PROVE  Kept(x)
<1>1. HostInv'
  BY DEF Lost, Quiet, catVars, webVars, hostVars, HostInv
<1>2. ~Clean(r)'
  BY DEF Lost, Befalls, Clean, Types
<1> QED
  BY <1>1, <1>2, Goes DEF Lost

\* Commands that leave the files of the binary logs alone.
LEMMA RanHost ==
    ASSUME HostInv, NEW x, NEW s, Ran(x, s), sql' = sql
    PROVE  HostInv'
BY DEF Ran, Quiet, catVars, webVars, HostInv

\* The lines of a log after a command has written it.
LEMMA PutLog ==
    ASSUME Types, NEW x, NEW r \in Request, Own(x) = r, NEW L, Put(x, L)
    PROVE  log'[r] = L
BY DEF Put, Types

LEMMA StepKept ==
    ASSUME IInv, DataInv, NEW x \in Exec, JobStep(x), ~ScheduleKill(x)
    PROVE  Kept(x)
<1>0. PICK r, s : r = Own(x) /\ s = exec[x].stage
  OBVIOUS
<1>1. Types /\ OwnInv /\ HostInv /\ Course(x) /\ Holds(x)
  BY DEF IInv, DataInv
<1>2. PICK t \in Active : Moves(x, t)
  BY <1>1, StepMoves
<1>3. /\ r \in Request /\ s \in Active /\ Worsens
      /\ wrk_dt[r] \in Time
  BY <1>0, <1>1, <1>2 DEF Moves, OwnInv, Own, Active, Types
<1>4. Clean(r)' => Clean(r) /\ Halfway(r, s)
  BY <1>0, <1>1, <1>3 DEF Clean, Worsens, Holds
<1>5. ASSUME Quiet
      PROVE  /\ Lvl(r)' = Lvl(r) /\ Replay(r)' = Replay(r) /\ set' = set
             /\ wrk_dt'[r] = wrk_dt[r] /\ lst_full_wrk_dt'[r] = lst_full_wrk_dt[r]
  BY <1>3, <1>5, FixedExpects DEF Quiet, Fixed, webVars
<1>6. ASSUME NEW from, NEW to, Lost(x, from, to),
             to \in Physical => set.mtd = "M01", to \in Dump => set.mtd = "M02", to = "incre" => Lvl(r) = "L02"
      PROVE  Kept(x)
  BY <1>0, <1>1, <1>3, <1>6, LostKept
<1>7. ASSUME NEW to, Ran(x, to), HostInv', Clean(r)' => Halfway(r, to)',
             to \in Physical => set.mtd = "M01", to \in Dump => set.mtd = "M02", to = "incre" => Lvl(r) = "L02"
      PROVE  Kept(x)
  BY <1>0, <1>1, <1>3, <1>7, Goes DEF Ran
<1>8. ASSUME NEW to, Ran(x, to), sql' = sql PROVE HostInv'
  BY <1>1, <1>8, RanHost
\* Stages of which nothing is promised.
<1>9. \A to \in {"env", "stop", "copy", "load", "fail", "kill"} : Halfway(r, to)'
  BY DEF Halfway, Stopped
<1>10. CASE StartLog(x)
  <2>1. CASE Ran(x, "env") /\ UNCHANGED hostVars
    BY <1>7, <1>8, <1>9, <2>1 DEF hostVars, Physical, Dump
  <2>2. CASE Lost(x, "start", "env")
    BY <1>6, <2>2 DEF Physical, Dump
  <2> QED
    BY <1>10, <2>1, <2>2 DEF StartLog
<1>11. CASE CheckEnvironment(x)
  <2>1. PICK to : /\ Ran(x, to) /\ UNCHANGED hostVars
                  /\ to \in {"stop", "load", "fail"}
                  /\ to = "stop" => set.mtd = "M01"
                  /\ to = "load" => set.mtd = "M02"
    BY <1>11 DEF CheckEnvironment
  <2> QED
    BY <1>7, <1>8, <1>9, <2>1 DEF hostVars, Physical, Dump
<1>12. CASE StopServer(x)
  <2>0. set.mtd = "M01"
    BY <1>1, <1>12 DEF StopServer, At, Lost, Course, Physical
  <2>1. CASE Ran(x, "copy") /\ UNCHANGED sql
    BY <1>7, <1>8, <1>9, <2>0, <2>1 DEF Dump
  <2>2. CASE Lost(x, "stop", "copy")
    BY <1>6, <2>0, <2>2 DEF Dump
  <2> QED
    BY <1>12, <2>1, <2>2 DEF StopServer
<1>13. CASE CopyFull(x)
  <2>0. PICK to : to = AfterBase(x, AfterCopy)
    OBVIOUS
  <2>1. to \in {"decompress", "incre", "startdb"} /\ (to = "incre" => Lvl(r) = "L02") /\ (to = "startdb" => Lvl(r) # "L02")
    BY <1>0, <2>0 DEF AfterBase, AfterCopy
  <2>2. set.mtd = "M01"
    BY <1>1, <1>13 DEF CopyFull, At, Lost, Course, Physical
  <2>3. CASE Lost(x, "copy", to)
    BY <1>6, <2>1, <2>2, <2>3 DEF Dump
  <2>4. CASE ~Lost(x, "copy", to)
    <3>1. /\ Ran(x, to) /\ UNCHANGED <<up, sql>>
          /\ IF up THEN Befalls({r}, "hot") ELSE UNCHANGED mishap
          /\ \/ /\ data' = IF up THEN Broken ELSE Copied(lst_full_wrk_dt[r])
                /\ Put(x, log[r] \ {"completed"})
             \/ /\ data' = Broken
                /\ Put(x, (log[r] \ {"completed"}) \cup {"error"})
      BY <1>0, <1>13, <2>0, <2>4 DEF CopyFull
    <3>2. Quiet /\ HostInv'
      BY <1>8, <3>1 DEF Ran
    <3>3. ASSUME Clean(r)' PROVE Halfway(r, to)'
      <4>1. ~up
        BY <1>1, <1>3, <3>1, <3>3 DEF Befalls, Clean, Types
      <4>2. ~Told(r)' => Base(r, {"packed", "ready"})'
        <5>1. CASE data' = Copied(lst_full_wrk_dt[r])
          BY <1>5, <3>2, <5>1 DEF Base, Copied
        <5>2. CASE Put(x, (log[r] \ {"completed"}) \cup {"error"})
          <6>1. log'[r] = (log[r] \ {"completed"}) \cup {"error"}
            BY <1>0, <1>1, <1>3, <5>2, PutLog
          <6> QED
            BY <6>1 DEF Told
        <5> QED
          BY <3>1, <4>1, <5>1, <5>2
      <4>3. to = "startdb" => sql'[wrk_dt'[r]] = Replay(r)'
        BY <1>1, <1>3, <1>5, <2>1, <3>1, <3>2, FullReplay
      <4> QED
        BY <1>5, <2>1, <2>2, <3>1, <3>2, <4>1, <4>2, <4>3 DEF Halfway, Stopped
    <3> QED
      BY <1>7, <2>1, <2>2, <3>1, <3>2, <3>3 DEF Dump
  <2> QED
    BY <2>3, <2>4
<1>14. CASE Decompress(x)
  <2>1. set.mtd = "M01"
    BY <1>1, <1>14 DEF Decompress, Mariabackup, At, Lost, Course, Physical
  <2>2. CASE Lost(x, "decompress", "chkdec")
    BY <1>6, <2>1, <2>2 DEF Dump
  <2>3. CASE ~Lost(x, "decompress", "chkdec")
    <3>1. s = "decompress" /\ Ran(x, "chkdec") /\ UNCHANGED <<up, sql, histVars>>
      BY <1>0, <1>14, <2>3 DEF Decompress, Mariabackup, At
    <3>2. Quiet /\ HostInv'
      BY <1>8, <3>1 DEF Ran
    <3>3. ASSUME Clean(r)' PROVE Halfway(r, "chkdec")'
      <4>1. ~up
        BY <1>4, <3>1, <3>3 DEF Halfway, Stopped
      <4>2. ~Told(r)' /\ "completed" \in log'[r] => Base(r, {"raw", "ready"})'
        <5>1. CASE Put(x, log[r] \ {"completed"})
          BY <1>0, <1>1, <1>3, <5>1, PutLog
        <5>2. CASE ~Put(x, log[r] \ {"completed"})
          <6> SUFFICES ASSUME ~Told(r)' PROVE Base(r, {"raw", "ready"})'
            OBVIOUS
          <6>1. /\ Put(x, log[r] \cup {"completed"})
                /\ data' = [data EXCEPT !.form = CASE @ = "packed" -> "raw"
                                                   [] @ = "raw" /\ "packed" = "raw" -> "ready"
                                                   [] OTHER -> @]
            BY <1>0, <1>14, <2>3, <5>2 DEF Decompress, Mariabackup
          <6>2. log'[r] = log[r] \cup {"completed"}
            BY <1>0, <1>1, <1>3, <6>1, PutLog
          <6>3. ~Told(r)
            BY <6>2 DEF Told
          <6>4. Base(r, {"packed", "ready"})
            BY <1>4, <3>1, <3>3, <6>3 DEF Halfway
          <6>5. PICK f \in {"packed", "ready"} : data = [base |-> lst_full_wrk_dt[r], form |-> f, inc |-> NoReplay]
            BY <6>4 DEF Base
          <6>6. data.form = f
            BY <6>5
          <6>7. (CASE f = "packed" -> "raw" [] f = "raw" /\ "packed" = "raw" -> "ready" [] OTHER -> f)
                   = IF f = "packed" THEN "raw" ELSE f
            BY <6>5
          <6>8. data' = [base |-> lst_full_wrk_dt[r], form |-> IF f = "packed" THEN "raw" ELSE f, inc |-> NoReplay]
            BY <6>1, <6>5, <6>6, <6>7
          <6> QED
            BY <1>5, <3>2, <6>5, <6>8 DEF Base
        <5> QED
          BY <5>1, <5>2
      <4> QED
        BY <3>1, <4>1, <4>2 DEF Halfway
    <3> QED
      BY <1>7, <2>1, <3>1, <3>2, <3>3 DEF Dump
  <2> QED
    BY <2>2, <2>3
<1>15. CASE Prepare(x)
  <2>1. set.mtd = "M01"
    BY <1>1, <1>15 DEF Prepare, Mariabackup, At, Lost, Course, Physical
  <2>2. CASE Lost(x, "prepare", "chkpre")
    BY <1>6, <2>1, <2>2 DEF Dump
  <2>3. CASE ~Lost(x, "prepare", "chkpre")
    <3>1. s = "prepare" /\ Ran(x, "chkpre") /\ UNCHANGED <<up, sql, histVars>>
      BY <1>0, <1>15, <2>3 DEF Prepare, Mariabackup, At
    <3>2. Quiet /\ HostInv'
      BY <1>8, <3>1 DEF Ran
    <3>3. ASSUME Clean(r)' PROVE Halfway(r, "chkpre")'
      <4>1. ~up
        BY <1>4, <3>1, <3>3 DEF Halfway, Stopped
      <4>2. ~Told(r)' /\ "completed" \in log'[r] => Base(r, {"ready"})'
        <5>1. CASE Put(x, log[r] \ {"completed"})
          BY <1>0, <1>1, <1>3, <5>1, PutLog
        <5>2. CASE ~Put(x, log[r] \ {"completed"})
          <6> SUFFICES ASSUME ~Told(r)' PROVE Base(r, {"ready"})'
            OBVIOUS
          <6>1. /\ Put(x, log[r] \cup {"completed"})
                /\ data' = [data EXCEPT !.form = CASE @ = "packed" -> "raw"
                                                   [] @ = "raw" /\ "raw" = "raw" -> "ready"
                                                   [] OTHER -> @]
            BY <1>0, <1>15, <2>3, <5>2 DEF Prepare, Mariabackup
          <6>2. log'[r] = log[r] \cup {"completed"}
            BY <1>0, <1>1, <1>3, <6>1, PutLog
          <6>3. ~Told(r)
            BY <6>2 DEF Told
          <6>4. Base(r, {"raw", "ready"})
            BY <1>4, <3>1, <3>3, <6>3 DEF Halfway
          <6>5. PICK f \in {"raw", "ready"} : data = [base |-> lst_full_wrk_dt[r], form |-> f, inc |-> NoReplay]
            BY <6>4 DEF Base
          <6>6. data.form = f
            BY <6>5
          <6>7. (CASE f = "packed" -> "raw" [] f = "raw" /\ "raw" = "raw" -> "ready" [] OTHER -> f) = "ready"
            BY <6>5
          <6>8. data' = [base |-> lst_full_wrk_dt[r], form |-> "ready", inc |-> NoReplay]
            BY <6>1, <6>5, <6>6, <6>7
          <6> QED
            BY <1>5, <3>2, <6>8 DEF Base
        <5> QED
          BY <5>1, <5>2
      <4> QED
        BY <3>1, <4>1, <4>2 DEF Halfway
    <3> QED
      BY <1>7, <2>1, <3>1, <3>2, <3>3 DEF Dump
  <2> QED
    BY <2>2, <2>3
<1>16. CASE CompletedCheck(x)
  <2>1. set.mtd = "M01"
    BY <1>1, <1>16 DEF CompletedCheck, TailCheck, At, Course, Physical
  <2>2. PICK to : to = AfterBase(x, "startdb")
    OBVIOUS
  <2>3. to \in {"incre", "startdb"} /\ (to = "incre" => Lvl(r) = "L02") /\ (to = "startdb" => Lvl(r) # "L02")
    BY <1>0, <2>2 DEF AfterBase
  <2>4. PICK next : /\ Ran(x, next) /\ UNCHANGED <<hostVars, histVars>>
                    /\ \/ next = "fail"
                       \/ /\ "completed" \in log[r] /\ UNCHANGED log
                          /\ \/ s = "chkdec" /\ next = "prepare"
                             \/ s = "chkpre" /\ next = to
    BY <1>0, <1>16, <2>2 DEF CompletedCheck, TailCheck, At
  <2>5. Quiet /\ HostInv'
    BY <1>8, <2>4 DEF Ran, hostVars
  <2>6. CASE next = "fail"
    BY <1>7, <1>9, <2>4, <2>5, <2>6 DEF Physical, Dump
  <2>7. CASE next # "fail"
    <3>1. Told(r)' = Told(r) /\ up' = up /\ data' = data /\ sql' = sql
      BY <2>4, <2>7 DEF Told, hostVars
    <3>2. \A F : Base(r, F)' = Base(r, F)
      BY <1>5, <2>5, <3>1 DEF Base
    <3>3. CASE s = "chkdec" /\ next = "prepare"
      <4>1. Clean(r)' => Halfway(r, "prepare")'
        BY <1>4, <2>4, <2>7, <3>1, <3>2, <3>3 DEF Halfway, Stopped
      <4> QED
        BY <1>7, <2>1, <2>4, <2>5, <3>3, <4>1 DEF Dump
    <3>4. CASE s = "chkpre" /\ next = to
      <4>1. ASSUME Clean(r)' PROVE Halfway(r, to)'
        <5>1. ~up /\ (~Told(r) => Base(r, {"packed", "ready"}))
          <6>1. ~up /\ (~Told(r) => Base(r, {"ready"}))
            BY <1>4, <2>4, <2>7, <3>4, <4>1 DEF Halfway, Stopped
          <6> QED
            BY <6>1 DEF Base
        <5>2. to = "startdb" => sql'[wrk_dt'[r]] = Replay(r)'
          BY <1>1, <1>3, <1>5, <2>3, <2>5, <3>1, FullReplay
        <5> QED
          BY <1>5, <2>1, <2>3, <2>5, <3>1, <3>2, <5>1, <5>2 DEF Halfway, Stopped
      <4> QED
        BY <1>7, <2>1, <2>3, <2>4, <2>5, <3>4, <4>1 DEF Dump
    <3> QED
      BY <2>4, <2>7, <3>3, <3>4
  <2> QED
    BY <2>6, <2>7
<1>17. CASE LoadDump(x)
  <2>0. PICK to : to = IF Lvl(r) = "L02" THEN "incre" ELSE "dbchk"
    OBVIOUS
  <2>1. set.mtd = "M02"
    BY <1>1, <1>17 DEF LoadDump, At, Lost, Course, Dump
  <2>2. CASE Lost(x, "load", to)
    BY <1>6, <2>0, <2>1, <2>2 DEF Physical
  <2>3. CASE ~Lost(x, "load", to)
    <3>1. /\ Ran(x, to) /\ UNCHANGED <<log, up, sql>>
          /\ \/ data' = [base |-> lst_full_wrk_dt[r], form |-> "ready", inc |-> NoReplay]
             \/ Befalls({r}, "load")
      BY <1>0, <1>17, <2>0, <2>3 DEF LoadDump
    <3>2. Quiet /\ HostInv'
      BY <1>8, <3>1 DEF Ran
    <3>3. ASSUME Clean(r)' PROVE Halfway(r, to)'
      <4>1. data' = [base |-> lst_full_wrk_dt[r], form |-> "ready", inc |-> NoReplay]
        BY <1>1, <1>3, <3>1, <3>3 DEF Befalls, Clean, Types
      <4>2. Base(r, {"ready"})'
        BY <1>5, <3>2, <4>1 DEF Base
      <4>3. to = "dbchk" => sql'[wrk_dt'[r]] = Replay(r)'
        BY <1>1, <1>3, <1>5, <2>0, <3>1, <3>2, FullReplay
      <4> QED
        BY <1>5, <2>0, <2>1, <3>2, <4>2, <4>3 DEF Halfway, Stopped
    <3> QED
      BY <1>7, <2>0, <2>1, <3>1, <3>2, <3>3 DEF Physical
  <2> QED
    BY <2>2, <2>3
<1>18. CASE IncreFile(x)
  <2>0. PICK to : to = IF set.mtd = "M01" THEN "startdb" ELSE "dbchk"
    OBVIOUS
  <2>1. (to = "startdb" => set.mtd = "M01") /\ (to = "dbchk" => set.mtd = "M02") /\ to \in {"startdb", "dbchk"}
    BY <1>1, <2>0 DEF HostInv
  <2>2. CASE Lost(x, "incre", to)
    BY <1>6, <2>1, <2>2 DEF Physical, Dump
  <2>3. CASE ~Lost(x, "incre", to)
    <3> DEFINE New == [d \in Time |-> IF d \in Logged(r) THEN Capped(sql[wrk_dt[r]][d] + 1) ELSE sql[wrk_dt[r]][d]]
    <3>1. /\ s = "incre" /\ Ran(x, to) /\ UNCHANGED <<data, up>>
          /\ sql' = [sql EXCEPT ![wrk_dt[r]] = New]
          /\ UNCHANGED log \/ Put(x, log[r] \cup {IF set.mtd = "M01" THEN "error" ELSE "errfile"})
          /\ mishap' = [mishap EXCEPT ![r] = @ \cup (IF sql[wrk_dt[r]] # NoReplay THEN {"leftover"} ELSE {})
                                               \cup (IF Points(r) \ dirs # {} THEN {"expired"} ELSE {})]
      BY <1>0, <1>18, <2>0, <2>3 DEF IncreFile, At
    <3>2. Quiet
      BY <3>1 DEF Ran
    <3>3. Lvl(r) = "L02"
      BY <1>0, <1>1, <3>1 DEF Course
    <3>4. /\ sql' = [d \in Time |-> sql'[d]] /\ sql'[wrk_dt[r]] = New
          /\ \A d \in Time : d # wrk_dt[r] => sql'[d] = sql[d]
      <4> HIDE DEF New
      <4>1. sql = [d \in Time |-> sql[d]]
        BY <1>1 DEF HostInv
      <4> QED
        BY <1>3, <3>1, <4>1
    <3>5. HostInv'
      BY <1>1, <3>2, <3>3, <3>4 DEF HostInv, Lvl, Quiet, catVars, webVars
    <3>6. ASSUME Clean(r)' PROVE Halfway(r, to)'
      <4>1. sql[wrk_dt[r]] = NoReplay /\ Points(r) \subseteq dirs
        BY <1>1, <1>3, <3>1, <3>6 DEF Clean, Types
      <4>2. New = Replay(r)
        <5>1. Logged(r) = Points(r) /\ Expected(r) = Points(r)
          BY <3>3, <4>1 DEF Logged, Expected
        <5>2. \A d \in Time : sql[wrk_dt[r]][d] = 0
          BY <4>1 DEF NoReplay
        <5>3. Capped(0 + 1) = 1
          BY DEF Capped
        <5> QED
          BY <5>1, <5>2, <5>3 DEF Replay
      <4>3. sql'[wrk_dt'[r]] = Replay(r)'
        BY <1>5, <3>2, <3>4, <4>2
      <4>4. ~Told(r)' => ~Told(r)
        <5>1. CASE UNCHANGED log
          BY <5>1 DEF Told
        <5>2. CASE Put(x, log[r] \cup {IF set.mtd = "M01" THEN "error" ELSE "errfile"})
          <6>1. log'[r] = log[r] \cup {IF set.mtd = "M01" THEN "error" ELSE "errfile"}
            BY <1>0, <1>1, <1>3, <5>2, PutLog
          <6> QED
            BY <6>1 DEF Told
        <5> QED
          BY <3>1, <5>1, <5>2
      <4>5. \A F : Base(r, F)' = Base(r, F)
        BY <1>5, <3>1, <3>2 DEF Base
      <4>6. CASE set.mtd = "M01"
        <5>1. ~up /\ (~Told(r) => Base(r, {"packed", "ready"}))
          BY <1>4, <3>1, <3>6, <4>6 DEF Halfway
        <5> QED
          BY <2>0, <3>1, <4>3, <4>4, <4>5, <4>6, <5>1 DEF Halfway
      <4>7. CASE set.mtd # "M01"
        <5>1. ~Told(r) => Base(r, {"ready"})
          BY <1>1, <1>4, <3>1, <3>6, <4>7 DEF Halfway, HostInv
        <5> QED
          BY <2>0, <3>1, <4>3, <4>4, <4>5, <4>7, <5>1 DEF Halfway, Stopped
      <4> QED
        BY <4>6, <4>7
    <3> QED
      BY <1>7, <2>1, <3>1, <3>5, <3>6 DEF Physical, Dump
  <2> QED
    BY <2>2, <2>3
<1>19. CASE StartServer(x)
  <2>1. set.mtd = "M01"
    BY <1>1, <1>19 DEF StartServer, At, Lost, Course, Physical
  <2>2. CASE Lost(x, "startdb", "status")
    BY <1>6, <2>1, <2>2 DEF Dump
  <2>3. CASE ~Lost(x, "startdb", "status")
    <3>1. /\ s = "startdb" /\ Ran(x, "status") /\ UNCHANGED <<log, data, sql>>
          /\ up' \in {up} \cup (IF data.form = "packed" THEN {} ELSE {TRUE})
      BY <1>0, <1>19, <2>3 DEF StartServer, At
    <3>2. Quiet /\ HostInv'
      BY <1>8, <3>1 DEF Ran
    <3>3. ASSUME Clean(r)' PROVE Halfway(r, "status")'
      <4>1. /\ ~up /\ sql[wrk_dt[r]] = Replay(r)
            /\ ~Told(r) => Base(r, {"packed", "ready"})
        BY <1>4, <3>1, <3>3 DEF Halfway, Stopped
      <4>2. Told(r)' = Told(r) /\ sql'[wrk_dt'[r]] = Replay(r)'
        BY <1>5, <3>1, <3>2, <4>1 DEF Told
      <4>3. ~Told(r) /\ up' => Base(r, {"ready"})'
        <5> SUFFICES ASSUME ~Told(r), up' PROVE Base(r, {"ready"})'
          OBVIOUS
        <5>1. PICK f \in {"packed", "ready"} : data = [base |-> lst_full_wrk_dt[r], form |-> f, inc |-> NoReplay]
          BY <4>1 DEF Base
        <5>2. f # "packed"
          BY <3>1, <4>1, <5>1
        <5> QED
          BY <1>5, <3>1, <3>2, <5>1, <5>2 DEF Base
      <4> QED
        BY <4>2, <4>3 DEF Halfway, Stopped
    <3> QED
      BY <1>7, <2>1, <3>1, <3>2, <3>3 DEF Dump
  <2> QED
    BY <2>2, <2>3
<1>20. CASE StatusCheck(x)
  <2>1. CASE Lost(x, "status", "kill")
    BY <1>6, <2>1 DEF Physical, Dump
  <2>2. CASE ~Lost(x, "status", "kill")
    <3>1. PICK to : /\ s = "status" /\ Ran(x, to) /\ UNCHANGED <<log, hostVars, histVars>>
                    /\ to = IF up THEN AfterStart(x) ELSE "fail"
      BY <1>0, <1>20, <2>2 DEF StatusCheck, At
    <3>2. Quiet /\ HostInv'
      BY <1>8, <3>1 DEF Ran, hostVars
    <3>3. CASE ~up
      BY <1>7, <1>9, <3>1, <3>2, <3>3 DEF Physical, Dump
    <3>4. CASE up
      <4>1. to \in {"apply", "errchk"} /\ (to = "errchk" => Lvl(r) # "L02")
        BY <1>0, <3>1, <3>4 DEF AfterStart
      <4>2. Told(r)' = Told(r) /\ up' = up /\ data' = data /\ sql' = sql
        BY <3>1 DEF Told, hostVars
      <4>3. (\A F : Base(r, F)' = Base(r, F)) /\ Restored(r)' = Restored(r)
        <5>1. Expected(r)' = Expected(r)
          BY <1>3, <3>2, FixedExpects DEF Fixed, Quiet, webVars
        <5> QED
          BY <1>5, <3>2, <4>2, <5>1 DEF Base, Restored
      <4>4. ASSUME Clean(r)' PROVE Halfway(r, to)'
        <5>1. sql[wrk_dt[r]] = Replay(r) /\ (~Told(r) => Base(r, {"ready"}))
          BY <1>4, <3>1, <3>4, <4>4 DEF Halfway
        <5>2. ~Told(r) /\ to = "errchk" => Restored(r)
          BY <1>1, <1>3, <4>1, <5>1, FullReplay, BaseRestored
        <5> QED
          BY <1>5, <3>2, <4>1, <4>2, <4>3, <5>1, <5>2 DEF Halfway, Stopped
      <4> QED
        BY <1>7, <3>1, <3>2, <4>1, <4>4 DEF Physical, Dump
    <3> QED
      BY <3>3, <3>4
  <2> QED
    BY <2>1, <2>2
<1>21. CASE DbCheck(x)
  <2>1. PICK to : /\ s = "dbchk" /\ Ran(x, to) /\ UNCHANGED <<log, hostVars, histVars>>
                  /\ to \in {"apply", "fail"}
    BY <1>0, <1>21 DEF DbCheck, At
  <2>2. Quiet /\ HostInv'
    BY <1>8, <2>1 DEF Ran, hostVars
  <2>3. CASE to = "fail"
    BY <1>7, <1>9, <2>1, <2>2, <2>3 DEF Physical, Dump
  <2>4. CASE to = "apply"
    <3>1. Told(r)' = Told(r) /\ data' = data /\ sql' = sql
      BY <2>1 DEF Told, hostVars
    <3>2. \A F : Base(r, F)' = Base(r, F)
      BY <1>5, <2>2, <3>1 DEF Base
    <3>3. ASSUME Clean(r)' PROVE Halfway(r, "apply")'
      <4>1. sql[wrk_dt[r]] = Replay(r) /\ (~Told(r) => Base(r, {"ready"}))
        BY <1>4, <2>1, <3>3 DEF Halfway
      <4> QED
        BY <1>5, <2>2, <3>1, <3>2, <4>1 DEF Halfway, Stopped
    <3> QED
      BY <1>7, <2>1, <2>2, <2>4, <3>3 DEF Physical, Dump
  <2> QED
    BY <2>1, <2>3, <2>4
<1>22. CASE ApplyIncre(x)
  <2>1. CASE Lost(x, "apply", "errchk")
    BY <1>6, <2>1 DEF Physical, Dump
  <2>2. CASE ~Lost(x, "apply", "errchk")
    <3> DEFINE File == sql[wrk_dt[r]]
    <3>1. /\ s = "apply" /\ Ran(x, "errchk")
          /\ sql' = [sql EXCEPT ![wrk_dt[r]] = NoReplay]
          /\ \/ /\ data' = [data EXCEPT !.inc = [d \in Time |-> Capped(data.inc[d] + File[d])]]
                /\ UNCHANGED log
             \/ Put(x, log[r] \cup {"error"})
             \/ /\ File = NoReplay
                /\ UNCHANGED <<data, log>>
      BY <1>0, <1>22, <2>2 DEF ApplyIncre, At
    <3>2. Quiet
      BY <3>1 DEF Ran
    <3>3. HostInv'
      <4>1. sql = [d \in Time |-> sql[d]]
        BY <1>1 DEF HostInv
      <4>2. sql' = [d \in Time |-> sql'[d]] /\ \A d \in Time : sql'[d] \in {sql[d], NoReplay}
        BY <1>3, <3>1, <4>1
      <4> QED
        BY <1>1, <3>2, <4>2 DEF HostInv, Quiet, catVars, webVars
    <3>4. ASSUME Clean(r)' PROVE Halfway(r, "errchk")'
      <4> SUFFICES ASSUME ~Told(r)' PROVE Restored(r)'
        BY DEF Halfway, Stopped
      <4>0. ~Put(x, log[r] \cup {"error"})
        <5>1. ASSUME Put(x, log[r] \cup {"error"}) PROVE FALSE
          <6>1. log'[r] = log[r] \cup {"error"}
            BY <1>0, <1>1, <1>3, <5>1, PutLog
          <6> QED
            BY <6>1 DEF Told
        <5> QED
          BY <5>1
      <4>1. UNCHANGED log
        BY <3>1, <4>0
      <4>2. ~Told(r)
        BY <4>1 DEF Told
      <4>3. File = Replay(r) /\ Base(r, {"ready"})
        BY <1>4, <3>1, <3>4, <4>2 DEF Halfway
      <4>4. data = [base |-> lst_full_wrk_dt[r], form |-> "ready", inc |-> NoReplay]
        BY <4>3 DEF Base
      <4>5. CASE data' = [data EXCEPT !.inc = [d \in Time |-> Capped(data.inc[d] + File[d])]]
        <5>1. [d \in Time |-> Capped(data.inc[d] + File[d])] = Replay(r)
          <6>1. \A d \in Time : data.inc[d] = 0 /\ File[d] \in {0, 1} /\ File[d] = Replay(r)[d]
            BY <4>3, <4>4 DEF NoReplay, Replay
          <6>2. Capped(0 + 0) = 0 /\ Capped(0 + 1) = 1
            BY DEF Capped
          <6>3. \A d \in Time : Capped(data.inc[d] + File[d]) = Replay(r)[d]
            BY <6>1, <6>2
          <6> QED
            BY <6>3 DEF Replay
        <5> HIDE DEF File
        <5>2. data' = [base |-> lst_full_wrk_dt[r], form |-> "ready", inc |-> Replay(r)]
          BY <4>4, <4>5, <5>1
        <5> QED
          BY <1>5, <3>2, <5>2 DEF Restored, Replay
      <4>6. CASE File = NoReplay /\ UNCHANGED data
        <5>1. data' = [base |-> lst_full_wrk_dt[r], form |-> "ready", inc |-> Replay(r)]
          BY <4>3, <4>4, <4>6
        <5> QED
          BY <1>5, <3>2, <5>1 DEF Restored, Replay
      <4> QED
        BY <3>1, <4>0, <4>5, <4>6
    <3> QED
      BY <1>7, <3>1, <3>3, <3>4 DEF Physical, Dump
  <2> QED
    BY <2>1, <2>2
<1>23. CASE ErrorLogCheck(x)
  <2>1. CASE Lost(x, "errchk", "kill")
    BY <1>6, <2>1 DEF Physical, Dump
  <2>2. CASE ~Lost(x, "errchk", "kill")
    <3>1. /\ s = "errchk" /\ Ran(x, IF Told(r) THEN "fail" ELSE "success")
          /\ UNCHANGED <<log, hostVars, histVars>>
      BY <1>0, <1>23, <2>2 DEF ErrorLogCheck, At, Told
    <3>2. Quiet /\ HostInv'
      BY <1>8, <3>1 DEF Ran, hostVars
    <3>3. CASE Told(r)
      BY <1>7, <1>9, <3>1, <3>2, <3>3 DEF Physical, Dump
    <3>4. CASE ~Told(r)
      <4>1. ASSUME Clean(r)' PROVE Halfway(r, "success")'
        <5>1. Restored(r)
          BY <1>4, <3>1, <3>4, <4>1 DEF Halfway
        <5>2. Expected(r)' = Expected(r)
          BY <1>3, <3>2, FixedExpects DEF Fixed, Quiet, webVars
        <5>3. Restored(r)' /\ ~Told(r)'
          BY <1>5, <3>1, <3>2, <3>4, <5>1, <5>2 DEF Restored, Told, hostVars
        <5> QED
          BY <5>3 DEF Halfway, Stopped
      <4> QED
        BY <1>7, <3>1, <3>2, <3>4, <4>1 DEF Physical, Dump
    <3> QED
      BY <3>3, <3>4
  <2> QED
    BY <2>1, <2>2
<1>24. CASE LogSuccess(x) \/ LogFail(x)
  <2>1. CASE Ran(x, "kill") /\ UNCHANGED hostVars
    BY <1>7, <1>8, <1>9, <2>1 DEF hostVars, Physical, Dump
  <2>2. ASSUME NEW from, Lost(x, from, "kill") PROVE Kept(x)
    BY <1>6, <2>2 DEF Physical, Dump
  <2> QED
    BY <1>24, <2>1, <2>2 DEF LogSuccess, LogFail, LogResult
<1> QED
  BY <1>10, <1>11, <1>12, <1>13, <1>14, <1>15, <1>16, <1>17, <1>18, <1>19, <1>20, <1>21, <1>22, <1>23,
     <1>24 DEF JobStep

\* An execution that another one works beside has overlapped it.
LEMMA BesideKept ==
    ASSUME IInv, DataInv, NEW x \in Exec, exec[x].stage \in Active, Worsens,
           NEW y \in Exec, y # x, exec'[y] = exec[y], Quiet
    PROVE  Course(y)' /\ Holds(y)'
<1>0. PICK q : q = Own(y)
  OBVIOUS
<1>1. Types /\ OwnInv /\ Course(y)
  BY DEF IInv, DataInv
<1>2. Own(y)' = q /\ set' = set
  BY <1>0 DEF Own, Quiet
<1>3. CASE exec[y].stage \in Active
  <2>1. q \in Request /\ Befallen(q, "overlap")
    BY <1>0, <1>1, <1>3 DEF IInv, RunInv, OverlapInv, OwnInv, Own, Active
  <2>2. Lvl(q)' = Lvl(q)
    BY <2>1, FixedExpects DEF Fixed, Quiet, webVars
  <2>3. ~Clean(q)'
    BY <2>1 DEF Befallen, Worsens, Clean
  <2> QED
    BY <1>0, <1>1, <1>2, <2>2, <2>3 DEF Course, Holds
<1>4. CASE exec[y].stage \notin Active
  BY <1>4 DEF Course, Holds, Active, Physical, Dump
<1> QED
  BY <1>3, <1>4

LEMMA DataNext == IInv /\ DataInv /\ [Next]_vars => DataInv'
<1> SUFFICES ASSUME IInv, DataInv, [Next]_vars PROVE DataInv'
  OBVIOUS
<1>0. Types /\ OwnInv /\ HostInv
  BY DEF IInv, DataInv
<1>1. \A x \in Exec : exec[x].stage \in Active => Own(x) \in Request /\ pc[Own(x)] \in Answered
  BY <1>0 DEF OwnInv, Own, Active
\* Steps of windows, of the clock and of the expiry leave commands alone.
<1>2. ASSUME UNCHANGED <<set, exec, log, hostVars, mishap>>, dirs' \subseteq dirs,
             lst_full_wrk_dt' \in [Request -> Time \cup {None}],
             \A r \in Request : pc[r] \in Answered => wrk_dt'[r] = wrk_dt[r] /\ lst_full_wrk_dt'[r] = lst_full_wrk_dt[r]
      PROVE  DataInv'
  <2>1. HostInv'
    BY <1>0, <1>2 DEF HostInv, hostVars
  <2>2. \A x \in Exec : Course(x)' /\ Holds(x)'
    BY <1>1, <1>2, HoldsElsewhere DEF Fixed, hostVars
  <2> QED
    BY <2>1, <2>2 DEF DataInv
<1>3. ASSUME NEW r \in Request, RsrRunExe(r) PROVE DataInv'
  <2>1. /\ lst_full_wrk_dt' \in [Request -> Time \cup {None}]
        /\ \A q \in Request : pc[q] \in Answered
              => wrk_dt'[q] = wrk_dt[q] /\ lst_full_wrk_dt'[q] = lst_full_wrk_dt[q]
    <3>1. CASE Choose(r)
      BY <1>0, <3>1 DEF Choose, Types, HostInv, Answered
    <3>2. CASE FindBakRunLst(r)
      <4>1. \A t \in Fulls : t \in Time
        BY <1>0 DEF Fulls, Types
      <4>2. \/ lst_full_wrk_dt' = lst_full_wrk_dt
            \/ \E t \in Time : lst_full_wrk_dt' = [lst_full_wrk_dt EXCEPT ![r] = t]
        BY <3>2, <4>1 DEF FindBakRunLst
      <4>3. wrk_dt' = wrk_dt /\ pc[r] = "chosen"
        BY <3>2 DEF FindBakRunLst
      <4> QED
        BY <1>0, <4>2, <4>3 DEF HostInv, Answered
    <3>3. CASE DropOldJob(r) \/ RegiSchedulerRestore(r)
      <4>1. wrk_dt' = wrk_dt /\ lst_full_wrk_dt' = lst_full_wrk_dt
        BY <3>3 DEF DropOldJob, RegiSchedulerRestore
      <4> QED
        BY <1>0, <4>1 DEF HostInv
    <3> QED
      BY <1>3, <3>1, <3>2, <3>3 DEF RsrRunExe
  <2>2. UNCHANGED <<set, exec, log, hostVars, mishap, dirs>>
    BY <1>3 DEF RsrRunExe, Choose, FindBakRunLst, DropOldJob, RegiSchedulerRestore, catVars, histVars
  <2> QED
    BY <1>2, <2>1, <2>2
<1>4. ASSUME NEW r \in Request, RsrRunEndChk(r) PROVE DataInv'
  BY <1>0, <1>2, <1>4 DEF HostInv, RsrRunEndChk, PollEnd, PollJob, InsertLog, WebOnly, catVars, histVars
<1>5. ASSUME NEW j \in jobs, Repeat(j) PROVE DataInv'
  BY <1>0, <1>2, <1>5 DEF HostInv, Repeat, catVars, webVars, histVars
<1>6. ASSUME NEW t \in Time, DelBackup(t) \/ DeleteRun(t) PROVE DataInv'
  BY <1>0, <1>2, <1>6 DEF HostInv, DelBackup, DeleteRun, webVars, histVars
<1>7. CASE UNCHANGED vars
  BY <1>0, <1>2, <1>7 DEF HostInv, vars, catVars, webVars, histVars
<1>8. ASSUME NEW j \in jobs, NEW x \in Exec, Fire(x, j) PROVE DataInv'
  <2>1. /\ UNCHANGED <<set, webVars, dirs, log, hostVars>>
        /\ exec' = [exec EXCEPT ![x] = [stage |-> "start", own |-> j.own]]
    BY <1>8 DEF Fire, catVars
  <2>2. HostInv'
    BY <1>0, <2>1 DEF HostInv, hostVars, webVars
  <2>3. exec'[x].stage = "start" /\ \A y \in Exec \ {x} : exec'[y] = exec[y]
    BY <1>0, <2>1 DEF Types
  <2>4. Course(x)' /\ Holds(x)'
    BY <2>3 DEF Course, Holds, Halfway, Physical, Dump, Stopped
  <2>5. ASSUME NEW y \in Exec, y # x PROVE Course(y)' /\ Holds(y)'
    <3>1. CASE mishap' = mishap
      BY <1>1, <2>1, <2>3, <2>5, <3>1, HoldsElsewhere DEF Fixed, webVars, hostVars
    <3>2. CASE mishap' # mishap
      <4>1. PICK R : Befalls(R, "overlap") /\ \A q \in Request : Running(q) # {} => q \in R
        BY <1>8, <3>2 DEF Fire
      <4>2. exec'[y] = exec[y] /\ Own(y)' = Own(y)
        BY <2>3, <2>5 DEF Own
      <4>3. CASE exec[y].stage \notin Active
        BY <4>2, <4>3 DEF Course, Holds, Active, Physical, Dump
      <4>4. CASE exec[y].stage \in Active
        <5>1. PICK q \in Request : q = Own(y)
          BY <1>1, <4>4
        <5>2. Running(q) # {}
          BY <4>4, <5>1 DEF Running, Own
        <5>3. ~Clean(q)'
          BY <4>1, <5>1, <5>2 DEF Befalls, Clean
        <5>4. Lvl(q)' = Lvl(q) /\ Course(y)
          BY <2>1 DEF Lvl, webVars, DataInv
        <5> QED
          BY <2>1, <4>2, <5>1, <5>3, <5>4 DEF Course, Holds
      <4> QED
        BY <4>3, <4>4
    <3> QED
      BY <3>1, <3>2
  <2> QED
    BY <2>2, <2>4, <2>5 DEF DataInv
\* A command: nobody else has a promise to keep.
<1>9. ASSUME NEW x \in Exec, exec[x].stage \in Active, NEW s, Step(x, s), Worsens, Quiet, Kept(x)
      PROVE  DataInv'
  <2>1. \A y \in Exec : y # x => exec'[y] = exec[y]
    BY <1>0, <1>9 DEF Step, Types
  <2>2. \A y \in Exec : y # x => Course(y)' /\ Holds(y)'
    BY <1>9, <2>1, BesideKept
  <2> QED
    BY <1>9, <2>2 DEF DataInv, Kept
<1>10. ASSUME NEW x \in Exec, JobStep(x), ~ScheduleKill(x) PROVE DataInv'
  <2>1. PICK t \in Active : Moves(x, t)
    BY <1>0, <1>10, StepMoves
  <2>2. exec[x].stage \in Active /\ Step(x, t) /\ Worsens
    BY <2>1 DEF Moves, Step
  <2>3. Quiet
    BY <1>10 DEF JobStep, StartLog, CheckEnvironment, StopServer, CopyFull, Decompress, Prepare, Mariabackup,
       CompletedCheck, TailCheck, LoadDump, IncreFile, StartServer, StatusCheck, DbCheck, ApplyIncre,
       ErrorLogCheck, LogSuccess, LogFail, LogResult, Lost, Ran
  <2> QED
    BY <1>9, <1>10, <2>2, <2>3, StepKept
\* The end of an execution.
<1>11. ASSUME NEW x \in Exec, NEW s \in {"ended", "crashed"}, exec[x].stage \in Active, Step(x, s), Worsens, Quiet,
              UNCHANGED hostVars
       PROVE  DataInv'
  <2>1. HostInv'
    BY <1>0, <1>11 DEF HostInv, hostVars, Quiet, catVars, webVars
  <2>2. exec'[x].stage = s
    BY <1>0, <1>11 DEF Step, Types
  <2>3. Course(x)' /\ Holds(x)'
    BY <2>2 DEF Course, Holds, Active, Physical, Dump
  <2> QED
    BY <1>9, <1>11, <2>1, <2>3 DEF Kept
<1>12. ASSUME NEW x \in Exec, ScheduleKill(x) PROVE DataInv'
  BY <1>0, <1>11, <1>12, SameMore DEF ScheduleKill, At, Active, histVars
<1>13. ASSUME NEW x \in Exec, Abort(x) PROVE DataInv'
  BY <1>0, <1>11, <1>13, BefallsMore DEF Abort, Mishap
<1> QED
  BY <1>3, <1>4, <1>5, <1>6, <1>7, <1>8, <1>10, <1>12, <1>13 DEF Next

\* RestoreExcute reports a success only over the full backup of the restore, prepared and
\* with every binary log after it replayed once, for any windows, faults and repetitions,
\* unless one of the named mishaps got past all its checks.
THEOREM SuccessMeansRestored == Spec => SuccessIsRestored
<1>1. IInv /\ DataInv /\ [Next]_vars =>
        [\A x \in Exec : Reports(x) =>
            Restored(Own(x)) \/ mishap[Own(x)] \cap (Mishap \ {"aborted"}) # {}]_vars
  <2> SUFFICES ASSUME IInv, DataInv, NEW x \in Exec, Reports(x), ~Restored(Own(x))
               PROVE  mishap[Own(x)] \cap (Mishap \ {"aborted"}) # {}
    OBVIOUS
  <2>1. exec[x].stage = "success" /\ Own(x) \in Request
    BY DEF Reports, At, IInv, OwnInv, Own
  <2>2. ~Clean(Own(x))
    <3>1. ASSUME Clean(Own(x)) PROVE FALSE
      <4>1. Halfway(Own(x), "success")
        BY <2>1, <3>1 DEF DataInv, Holds, Active
      <4> QED
        BY <4>1 DEF Halfway
    <3> QED
      BY <3>1
  <2>3. mishap[Own(x)] \subseteq Mishap
    BY <2>1 DEF IInv, Types
  <2> QED
    BY <2>2, <2>3 DEF Clean
<1> QED
  BY <1>1, Inductive, DataInit, DataNext, PTL DEF Spec, SuccessIsRestored
=============================================================================
