------------------------- MODULE RunCatalogue_proof -------------------------
(***************************************************************************)
(* For any number of database servers, browser windows, runs and faults:   *)
(* no run is recorded twice (RecordedOnce), and a reported run is only     *)
(* dropped for the two reasons ReportedRunIsLogged names.                  *)
(*                                                                         *)
(* RecordedOnce is inductive once it is known where a run can be.  A run   *)
(* that is under way, one that was reported by its script and one that a   *)
(* window records are three different runs (Apart), a row that waits in    *)
(* SCDIPETB or in the pass of clientTaskShell has no row in the catalogue  *)
(* yet (Waiting), and a run that starts is new because every run known     *)
(* anywhere is at most as young as latest (Known).                         *)
(*                                                                         *)
(* The tree of the restore points: a new row gets its place, because the   *)
(* MAX that the queries ask for exists (Numbers) and a target has one run  *)
(* in a second (Seconds); the cascade takes what was found below           *)
(* an expired id (Cascade), so in a tree in order it takes nothing that    *)
(* builds on a full backup which stays (CascadeSparesOthers).              *)
(***************************************************************************)
EXTENDS RunCatalogue, WellFoundedInduction, TLAPS

Shape ==
    /\ clock \in 1 .. MaxClock
    /\ latest \in [Target -> Nat]
    /\ running \subseteq Run
    /\ \A d \in reported : d.run \in Run
    /\ \A b \in bakruntb : b.run \in Run
    /\ web = [w \in Web |-> web[w]]
    /\ \A w \in Web : /\ web[w] = [stage |-> web[w].stage, cur |-> web[w].cur, ids |-> web[w].ids]
                      /\ \A d \in web[w].cur : d.run \in Run

Known ==
    /\ \A run \in running : run.dt <= latest[run.t]
    /\ \A d \in reported : d.run.dt <= latest[d.run.t]
    /\ \A b \in bakruntb : b.run.dt <= latest[b.run.t]
    /\ \A w \in Web : \A d \in web[w].cur : d.run.dt <= latest[d.run.t]

FromReports == scdipetb \subseteq reported /\ shell.rows \subseteq reported /\ shell.cur \subseteq reported

Apart ==
    /\ \A d, e \in reported : d.run = e.run => d = e
    /\ \A run \in running : /\ \A d \in reported : d.run # run
                            /\ \A b \in bakruntb : b.run # run
                            /\ \A w \in Web : \A d \in web[w].cur : d.run # run
    /\ \A w \in Web : \A d \in web[w].cur :
          /\ \A e \in reported : e.run # d.run
          /\ \A v \in Web : \A e \in web[v].cur : e.run = d.run => v = w /\ e = d

Waiting ==
    /\ \A b \in bakruntb : /\ \A d \in scdipetb : d.run # b.run
                           /\ \A d \in shell.rows : d.run # b.run
                           /\ \A d \in shell.cur : d.run # b.run
    /\ \A w \in Web : web[w].stage = "ids" =>
          \A d \in web[w].cur : \A b \in bakruntb : b.run # d.run

\* The row being recorded is one row and no longer among those that wait.
OneAtATime == \A d \in shell.cur : d \notin shell.rows /\ \A e \in shell.cur : e = d

CInv == Shape /\ Known /\ FromReports /\ Apart /\ Waiting /\ OneAtATime /\ RecordedOnce

-----------------------------------------------------------------------------
\* Nothing can break the invariant that adds no run anywhere: rows may go, the
\* pass may take rows over or end, and windows may end.
LEMMA NothingNew ==
    ASSUME CInv,
           UNCHANGED <<latest, running, reported>>,
           clock' \in 1 .. MaxClock,
           bakruntb' \subseteq bakruntb,
           scdipetb' \subseteq scdipetb,
           shell'.rows \subseteq shell.rows \cup scdipetb,
           shell'.cur \subseteq shell.cur \cup shell.rows,
           OneAtATime',
           web' = [w \in Web |-> web'[w]],
           \A w \in Web : web'[w] \in {web[w], NoWeb}
    PROVE  CInv'
<1>0. \A w \in Web : /\ web'[w] = [stage |-> web'[w].stage, cur |-> web'[w].cur, ids |-> web'[w].ids]
                     /\ web'[w].cur \subseteq web[w].cur
                     /\ web'[w].stage = "ids" => web[w].stage = "ids"
  BY DEF CInv, Shape, NoWeb
<1>1. Shape'
  BY <1>0 DEF CInv, Shape
<1>2. Known'
  BY <1>0 DEF CInv, Known
<1>3. FromReports'
  BY DEF CInv, FromReports
<1>4. Apart'
  BY <1>0 DEF CInv, Apart
<1>5. Waiting'
  <2>1. \A b \in bakruntb' : /\ \A d \in scdipetb' : d.run # b.run
                             /\ \A d \in shell'.rows : d.run # b.run
                             /\ \A d \in shell'.cur : d.run # b.run
    BY DEF CInv, Waiting
  <2>2. \A w \in Web : web'[w].stage = "ids" =>
           \A d \in web'[w].cur : \A b \in bakruntb' : b.run # d.run
    BY <1>0 DEF CInv, Waiting
  <2> QED BY <2>1, <2>2 DEF Waiting
<1>6. RecordedOnce'
  BY DEF CInv, RecordedOnce
<1> QED BY <1>1, <1>2, <1>3, <1>4, <1>5, <1>6 DEF CInv

\* A run that starts is younger than every run known of its target.
LEMMA StartInv == CInv /\ Start => CInv'
<1> SUFFICES ASSUME CInv, Start PROVE CInv'
  OBVIOUS
<1> USE BoundAssumption
<1>1. PICK t \in Target, l \in {"L01", "L02"}, y \in {"BT01", "BT02"} :
         /\ latest[t] < clock
         /\ latest' = [latest EXCEPT ![t] = clock]
         /\ running' = running \cup {[t |-> t, dt |-> clock, lvl |-> l, typ |-> y]}
  BY DEF Start
<1> DEFINE run == [t |-> t, dt |-> clock, lvl |-> l, typ |-> y]
<1>2. run \in Run /\ clock \in Nat
  BY DEF CInv, Shape, Run
<1>3. \A r \in Run : r.dt <= latest[r.t] => r # run /\ r.dt <= latest'[r.t]
  BY <1>1, <1>2 DEF CInv, Shape, Run
<1>4. UNCHANGED <<clock, reported, bakruntb, scdipetb, shell, web>>
  BY DEF Start, tabVars, hist
<1>5. Shape'
  BY <1>1, <1>2, <1>4 DEF CInv, Shape
<1>6. Known'
  <2>1. \A r \in running' : r.dt <= latest'[r.t]
    <3>1. run.dt <= latest'[run.t]
      BY <1>1, <1>2 DEF CInv, Shape
    <3> QED BY <1>1, <1>3, <3>1 DEF CInv, Known, Shape
  <2> QED BY <2>1, <1>3, <1>4 DEF CInv, Known, Shape
<1>7. Apart'
  <2>1. /\ \A d \in reported : d.run # run
        /\ \A b \in bakruntb : b.run # run
        /\ \A w \in Web : \A d \in web[w].cur : d.run # run
    BY <1>3 DEF CInv, Known, Shape
  <2> QED BY <1>1, <1>4, <2>1 DEF CInv, Apart
<1>8. FromReports' /\ Waiting' /\ OneAtATime' /\ RecordedOnce'
  BY <1>4 DEF CInv, FromReports, Waiting, OneAtATime, RecordedOnce
<1> QED BY <1>5, <1>6, <1>7, <1>8 DEF CInv

\* The script of a scheduled run reports it: it leaves running for SCDIPETB.
LEMMA EndScheduledInv == CInv /\ EndScheduled => CInv'
<1> SUFFICES ASSUME CInv, EndScheduled PROVE CInv'
  OBVIOUS
<1>1. PICK run \in running, s \in {"S01", "S02"} :
         /\ running' = running \ {run}
         /\ scdipetb' = scdipetb \cup {[run |-> run, suc |-> s]}
         /\ reported' = reported \cup {[run |-> run, suc |-> s]}
  BY DEF EndScheduled
<1>2. UNCHANGED <<clock, latest, bakruntb, shell, web>>
  BY DEF EndScheduled
<1>3. Shape' /\ Known'
  BY <1>1, <1>2 DEF CInv, Shape, Known
<1>4. FromReports' /\ OneAtATime' /\ RecordedOnce'
  BY <1>1, <1>2 DEF CInv, FromReports, OneAtATime, RecordedOnce
<1>5. Apart'
  BY <1>1, <1>2 DEF CInv, Apart
<1>6. Waiting'
  BY <1>1, <1>2 DEF CInv, Waiting, Apart
<1> QED BY <1>3, <1>4, <1>5, <1>6 DEF CInv

\* A window takes over a run that has ended.
LEMMA WebReadIdsInv == ASSUME NEW w \in Web PROVE CInv /\ WebReadIds(w) => CInv'
<1> SUFFICES ASSUME CInv, WebReadIds(w) PROVE CInv'
  OBVIOUS
<1>1. PICK run \in running, s \in {"S01", "S02"} :
         LET d == [run |-> run, suc |-> s] IN
         /\ running' = running \ {run}
         /\ web' = [web EXCEPT ![w] = IF Unplaceable(d) THEN NoWeb
                                      ELSE [stage |-> "ids", cur |-> {d}, ids |-> NewIds(d)]]
  BY DEF WebReadIds
<1> DEFINE d == [run |-> run, suc |-> s]
<1>2. UNCHANGED <<clock, latest, reported, bakruntb, scdipetb, shell>>
  BY DEF WebReadIds, tabVars, hist
<1>3. \A v \in Web : v # w => web'[v] = web[v]
  BY <1>1 DEF CInv, Shape
<1>4. web'[w] = NoWeb \/ web'[w] = [stage |-> "ids", cur |-> {d}, ids |-> NewIds(d)]
  BY <1>1 DEF CInv, Shape
<1>5. /\ web'[w] = [stage |-> web'[w].stage, cur |-> web'[w].cur, ids |-> web'[w].ids]
      /\ web'[w].cur \subseteq {d}
  BY <1>4 DEF NoWeb
<1>6. Shape'
  <2>1. web' = [v \in Web |-> web'[v]]
    BY <1>1 DEF CInv, Shape
  <2>2. \A v \in Web : /\ web'[v] = [stage |-> web'[v].stage, cur |-> web'[v].cur, ids |-> web'[v].ids]
                       /\ \A e \in web'[v].cur : e.run \in Run
    <3>1. ASSUME NEW v \in Web, v # w
          PROVE  /\ web'[v] = [stage |-> web'[v].stage, cur |-> web'[v].cur, ids |-> web'[v].ids]
                 /\ \A e \in web'[v].cur : e.run \in Run
      BY <1>3, <3>1 DEF CInv, Shape
    <3>2. \A e \in web'[w].cur : e.run \in Run
      BY <1>5 DEF CInv, Shape
    <3> HIDE DEF d
    <3> QED BY <1>5, <3>1, <3>2
  <2>3. running' \subseteq Run
    BY <1>1 DEF CInv, Shape
  <2> QED BY <1>2, <2>1, <2>2, <2>3 DEF CInv, Shape
<1>7. Known'
  BY <1>1, <1>2, <1>3, <1>5 DEF CInv, Known
<1>8. Apart'
  BY <1>1, <1>2, <1>3, <1>5 DEF CInv, Apart
<1>9. Waiting'
  BY <1>1, <1>2, <1>3, <1>5 DEF CInv, Waiting, Apart
<1>10. FromReports' /\ OneAtATime' /\ RecordedOnce'
  BY <1>2 DEF CInv, FromReports, OneAtATime, RecordedOnce
<1> QED BY <1>6, <1>7, <1>8, <1>9, <1>10 DEF CInv

-----------------------------------------------------------------------------
\* A new row names the run that is recorded.
LEMMA NewRowNames == ASSUME NEW d, NEW ids PROVE \A b \in NewRow(d, ids) : b.run = d.run /\ \A c \in NewRow(d, ids) : c = b
BY DEF NewRow

\* The first transaction of a window.
LEMMA WebInsertBakRunInv == ASSUME NEW w \in Web PROVE CInv /\ WebInsertBakRun(w) => CInv'
<1> SUFFICES ASSUME CInv, WebInsertBakRun(w) PROVE CInv'
  OBVIOUS
<1>1. PICK d \in web[w].cur : bakruntb' = bakruntb \cup NewRow(d, web[w].ids)
  BY DEF WebInsertBakRun
<1>2. /\ web[w].stage = "ids"
      /\ web' = [web EXCEPT ![w].stage = "log"]
      /\ UNCHANGED <<clock, latest, running, reported, scdipetb, shell>>
  BY DEF WebInsertBakRun, diskVars
<1>3. \A b \in bakruntb' : b \in bakruntb \/ b.run = d.run
  BY <1>1, NewRowNames
<1>4. \A v \in Web : v # w => web'[v] = web[v]
  BY <1>2 DEF CInv, Shape
<1>5. web'[w] = [stage |-> "log", cur |-> web[w].cur, ids |-> web[w].ids]
  BY <1>2 DEF CInv, Shape
<1>6. \A v \in Web : web'[v].cur = web[v].cur
  BY <1>4, <1>5
<1>7. Shape'
  BY <1>2, <1>3, <1>4, <1>5, <1>6 DEF CInv, Shape
<1>8. Known'
  BY <1>2, <1>3, <1>6 DEF CInv, Known
<1>9. Apart'
  BY <1>2, <1>3, <1>6 DEF CInv, Apart
<1>10. Waiting'
  <2>1. \A b \in bakruntb' : /\ \A e \in scdipetb' : e.run # b.run
                             /\ \A e \in shell'.rows : e.run # b.run
                             /\ \A e \in shell'.cur : e.run # b.run
    BY <1>2, <1>3 DEF CInv, Waiting, Apart, FromReports
  <2>2. ASSUME NEW v \in Web, web'[v].stage = "ids" PROVE \A e \in web'[v].cur : \A b \in bakruntb' : b.run # e.run
    <3>1. v # w
      BY <1>5, <2>2
    <3> QED BY <1>3, <1>4, <2>2, <3>1 DEF CInv, Waiting, Apart
  <2> QED BY <2>1, <2>2 DEF Waiting
<1>11. RecordedOnce'
  <2>1. \A b \in bakruntb : b.run # d.run
    BY <1>2 DEF CInv, Waiting
  <2> QED BY <1>1, <2>1, NewRowNames DEF CInv, RecordedOnce
<1>12. FromReports' /\ OneAtATime'
  BY <1>2 DEF CInv, FromReports, OneAtATime
<1> QED BY <1>7, <1>8, <1>9, <1>10, <1>11, <1>12 DEF CInv

\* The transaction of the task: the new row appears as the waiting one goes.
LEMMA CronJobInv == CInv /\ CronJob => CInv'
<1> SUFFICES ASSUME CInv, CronJob PROVE CInv'
  OBVIOUS
<1>1. PICK d \in shell.cur : /\ bakruntb' = bakruntb \cup NewRow(d, shell.ids)
                             /\ scdipetb' = {e \in scdipetb : e.run.dt # d.run.dt}
  BY DEF CronJob, cronDelete
<1>2. /\ UNCHANGED <<clock, latest, running, reported, web>>
      /\ shell' = NextShell(shell.rows)
  BY DEF CronJob, diskVars
<1>3. \A b \in bakruntb' : b \in bakruntb \/ b.run = d.run
  BY <1>1, NewRowNames
<1>4. shell'.rows \subseteq shell.rows /\ shell'.cur = {}
  BY <1>2 DEF NextShell, NoShell
<1>5. d \in reported /\ d \notin shell.rows
  BY DEF CInv, FromReports, OneAtATime
<1>6. Shape' /\ Known'
  BY <1>2, <1>3, <1>5 DEF CInv, Shape, Known
<1>7. FromReports' /\ OneAtATime'
  BY <1>1, <1>2, <1>4 DEF CInv, FromReports, OneAtATime
<1>8. Apart'
  BY <1>2, <1>3, <1>5 DEF CInv, Apart
<1>9. Waiting'
  <2>1. \A e \in scdipetb' : e \in scdipetb /\ e.run # d.run
    BY <1>1
  <2>2. \A e \in shell'.rows : e \in shell.rows /\ e.run # d.run
    BY <1>4, <1>5 DEF CInv, FromReports, Apart
  <2>3. \A v \in Web : \A e \in web[v].cur : e.run # d.run
    BY <1>5 DEF CInv, Apart
  <2>4. \A b \in bakruntb' : /\ \A e \in scdipetb' : e.run # b.run
                             /\ \A e \in shell'.rows : e.run # b.run
                             /\ \A e \in shell'.cur : e.run # b.run
    BY <1>3, <1>4, <2>1, <2>2 DEF CInv, Waiting
  <2>5. \A v \in Web : web'[v].stage = "ids" => \A e \in web'[v].cur : \A b \in bakruntb' : b.run # e.run
    BY <1>2, <1>3, <2>3 DEF CInv, Waiting
  <2> QED BY <2>4, <2>5 DEF Waiting
<1>10. RecordedOnce'
  <2>1. \A b \in bakruntb : b.run # d.run
    BY DEF CInv, Waiting
  <2> QED BY <1>1, <2>1, NewRowNames DEF CInv, RecordedOnce
<1> QED BY <1>6, <1>7, <1>8, <1>9, <1>10 DEF CInv

-----------------------------------------------------------------------------
\* The steps of the windows.
LEMMA WebInv ==
    ASSUME NEW w \in Web
    PROVE  CInv /\ (WebReadIds(w) \/ WebInsertBakRun(w) \/ WebInsertLog(w) \/ WebFails(w)) => CInv'
<1> SUFFICES ASSUME CInv, WebInsertLog(w) \/ WebFails(w) PROVE CInv'
  BY WebReadIdsInv, WebInsertBakRunInv
<1>1. /\ web' = [web EXCEPT ![w] = NoWeb]
      /\ UNCHANGED <<clock, latest, running, reported, scdipetb, bakruntb, shell>>
  BY DEF WebInsertLog, WebFails, diskVars, tabVars, hist
<1>2. web' = [v \in Web |-> web'[v]] /\ \A v \in Web : web'[v] \in {web[v], NoWeb}
  BY <1>1 DEF CInv, Shape
<1>3. OneAtATime' /\ clock' \in 1 .. MaxClock
  BY <1>1 DEF CInv, OneAtATime, Shape
<1> QED BY <1>1, <1>2, <1>3, NothingNew

\* The steps of clientTaskShell.
LEMMA ShellInv == CInv /\ (CronSelect \/ ShellStep) => CInv'
<1> SUFFICES ASSUME CInv, CronSelect \/ ReadGinianLog \/ CronJobFails PROVE CInv'
  BY CronJobInv DEF ShellStep
<1>1. UNCHANGED <<clock, latest, running, reported, bakruntb, web>>
  BY DEF CronSelect, ReadGinianLog, CronJobFails, diskVars, tabVars, hist
<1>2. /\ scdipetb' \subseteq scdipetb
      /\ shell'.rows \subseteq shell.rows \cup scdipetb
      /\ shell'.cur \subseteq shell.cur \cup shell.rows
      /\ OneAtATime'
  <2>1. CASE CronSelect
    BY <2>1 DEF CronSelect, NextShell, NoShell, OneAtATime, tabVars
  <2>2. CASE CronJobFails
    BY <2>2 DEF CronJobFails, NoShell, OneAtATime, tabVars
  <2>3. CASE ReadGinianLog
    <3>1. PICK d \in shell.rows :
             \/ /\ shell' = [stage |-> "job", rows |-> shell.rows \ {d}, cur |-> {d}, ids |-> NewIds(d)]
                /\ scdipetb' = scdipetb
             \/ shell' = NoShell /\ scdipetb' = scdipetb
             \/ shell' = NextShell(shell.rows \ {d}) /\ (cronDelete(d) \/ scdipetb' = scdipetb)
      BY <2>3 DEF ReadGinianLog
    <3>2. /\ scdipetb' \subseteq scdipetb
          /\ shell'.rows \subseteq shell.rows \ {d}
          /\ shell'.cur = {} \/ shell'.cur = {d}
      <4>1. NextShell(shell.rows \ {d}).rows = shell.rows \ {d} /\ NextShell(shell.rows \ {d}).cur = {}
        BY DEF NextShell, NoShell
      <4>2. cronDelete(d) => scdipetb' \subseteq scdipetb
        BY DEF cronDelete
      <4>3. NoShell.rows = {} /\ NoShell.cur = {}
        BY DEF NoShell
      <4> QED BY <3>1, <4>1, <4>2, <4>3
    <3> QED BY <3>2 DEF OneAtATime
  <2> QED BY <2>1, <2>2, <2>3
<1> QED BY <1>1, <1>2, NothingNew DEF CInv, Shape

\* The steps of clientTaskBackup.
LEMMA PurgeInv == CInv /\ (ListDelSchTarget \/ ListUnlisted \/ PurgeStep) => CInv'
<1> SUFFICES ASSUME CInv, ListDelSchTarget \/ ListUnlisted \/ PurgeStep PROVE CInv'
  OBVIOUS
<1>1. UNCHANGED <<clock, latest, running, reported, scdipetb, web, shell>> /\ bakruntb' \subseteq bakruntb
  BY DEF ListDelSchTarget, ListUnlisted, PurgeStep, DelBackup, DelUnlisted, ListSchPidTarget, DeleteIDRun,
         CascadeCommit, diskVars, tabVars, hist
<1> QED BY <1>1, NothingNew DEF CInv, Shape, OneAtATime

\* A server that is deleted or taken out of use.
LEMMA ServerInv == ASSUME CInv, NEW t \in Target, DeleteTgtSvr(t) \/ DeleteSvr(t) PROVE CInv'
<1>1. UNCHANGED <<clock, latest, running, reported, scdipetb, web, shell>> /\ bakruntb' \subseteq bakruntb
  BY DEF DeleteTgtSvr, DeleteSvr, tabVars, hist
<1> QED BY <1>1, NothingNew DEF CInv, Shape, OneAtATime

LEMMA CInvNext == CInv /\ [Next]_vars => CInv'
<1> SUFFICES ASSUME CInv, [Next]_vars PROVE CInv'
  OBVIOUS
<1>1. CASE Start \/ EndScheduled
  BY <1>1, StartInv, EndScheduledInv
<1>2. CASE Tick
  <2>1. UNCHANGED <<latest, running, reported, scdipetb, bakruntb, shell, web>> /\ clock' \in 1 .. MaxClock
    BY <1>2, BoundAssumption DEF Tick, tabVars, hist, CInv, Shape
  <2> QED BY <2>1, NothingNew DEF CInv, Shape, OneAtATime
<1>3. CASE \E w \in Web : WebReadIds(w) \/ WebInsertBakRun(w) \/ WebInsertLog(w) \/ WebFails(w)
  BY <1>3, WebInv
<1>4. CASE CronSelect \/ ShellStep
  BY <1>4, ShellInv
<1>5. CASE ListDelSchTarget \/ ListUnlisted \/ PurgeStep
  BY <1>5, PurgeInv
<1>6. CASE Restart
  <2>1. /\ UNCHANGED <<clock, latest, running, reported, scdipetb, bakruntb>>
        /\ shell'.rows = {} /\ shell'.cur = {}
        /\ web' = [w \in Web |-> IF web[w].stage = "idle" THEN web[w] ELSE NoWeb]
    BY <1>6 DEF Restart, diskVars, tabVars, hist, NoShell
  <2>2. web' = [w \in Web |-> web'[w]] /\ \A w \in Web : web'[w] \in {web[w], NoWeb}
    BY <2>1
  <2> QED BY <2>1, <2>2, NothingNew DEF CInv, Shape, OneAtATime
<1>7. CASE UNCHANGED vars
  <2>1. UNCHANGED <<clock, latest, running, reported, scdipetb, bakruntb, shell, web>>
    BY <1>7 DEF vars, diskVars, tabVars, hist
  <2> QED BY <2>1, NothingNew DEF CInv, Shape, OneAtATime
<1>8. CASE \E t \in Target : DeleteTgtSvr(t) \/ DeleteSvr(t)
  BY <1>8, ServerInv
<1> QED BY <1>1, <1>2, <1>3, <1>4, <1>5, <1>6, <1>7, <1>8 DEF Next

LEMMA CInvInit == Init => CInv
BY BoundAssumption DEF Init, CInv, Shape, Known, FromReports, Apart, Waiting, OneAtATime, RecordedOnce,
   NoShell, NoWeb

LEMMA CInvAlways == Spec => []CInv
BY CInvInit, CInvNext, PTL DEF Spec

-----------------------------------------------------------------------------
\* No run is in the catalogue twice: neither the repetition of a failed
\* transaction nor the two writers that race can insert a second row for it
\* (ScheduleServiceImpl.cronJob, SetupController.bak_run_endChk).
THEOREM OneRowPerRun == Spec => []RecordedOnce
<1>1. CInv => RecordedOnce
  BY DEF CInv
<1> QED BY <1>1, CInvAlways, PTL

\* A row leaves SCDIPETB only into the work log, when the log of its run could not
\* be read, or with a row of the same second.
LEMMA RowLeaves ==
    ASSUME CInv, [Next]_vars, NEW d \in scdipetb, d \notin scdipetb'
    PROVE  d \in wrklogtb' \/ shell.stage = "shell" \/ \E e \in reported : e # d /\ e.run.dt = d.run.dt
<1>1. CASE CronJob
  <2>1. PICK c \in shell.cur : /\ c \in wrklogtb'
                               /\ scdipetb' = {e \in scdipetb : e.run.dt # c.run.dt}
    BY <1>1 DEF CronJob, cronDelete
  <2> QED BY <2>1 DEF CInv, FromReports
<1>2. CASE ReadGinianLog
  BY <1>2 DEF ReadGinianLog
<1>3. CASE EndScheduled
  BY <1>3 DEF EndScheduled
<1>4. scdipetb' = scdipetb \/ CronJob \/ ReadGinianLog \/ EndScheduled
  BY DEF Next, vars, tabVars, Start, Tick, WebReadIds, WebInsertBakRun, WebInsertLog, WebFails, CronSelect,
         ShellStep, CronJobFails, ListDelSchTarget, ListUnlisted, PurgeStep, DelBackup, DelUnlisted,
         ListSchPidTarget, DeleteIDRun, CascadeCommit, Restart, DeleteTgtSvr, DeleteSvr
<1> QED BY <1>1, <1>2, <1>3, <1>4

\* Whatever fails or restarts, a scheduled run that was reported is still waiting or
\* logged, or was dropped for one of the two reasons (ClientTask.clientTaskShell).
THEOREM ReportsAreLogged == Spec => ReportedRunIsLogged
<1>1. CInv /\ [Next]_vars => [\A d \in scdipetb \ scdipetb' :
          \/ d \in wrklogtb'
          \/ shell.stage = "shell"
          \/ \E e \in reported : e # d /\ e.run.dt = d.run.dt]_vars
  BY RowLeaves
<1> QED BY <1>1, CInvAlways, PTL DEF Spec, ReportedRunIsLogged
-----------------------------------------------------------------------------
(***************************************************************************)
(* The tree of restore points.  Three more invariants are needed.          *)
(*                                                                         *)
(* Seconds: two runs of a target that are known anywhere differ in their   *)
(* second, so a restore point is found again by it (delbackup.sh and the   *)
(* deletion of its row go by the second).                                  *)
(***************************************************************************)
RunsOf(S)  == {x.run : x \in S}
Everywhere == running \cup RunsOf(reported) \cup RunsOf(bakruntb) \cup RunsOf(purge.rows)
                 \cup RunsOf(UNION {web[w].cur : w \in Web})
Seconds ==
    /\ \A r, s \in Everywhere : r.t = s.t /\ r.dt = s.dt => r = s
    /\ \A r \in Everywhere : r \in Run /\ r.dt <= latest[r.t]
    /\ \A b, c \in purge.rows : b.run = c.run => b = c

(***************************************************************************)
(* Numbers: what the ids say of a row whatever the order in which rows     *)
(* came and went, and that ids which were not overtaken are those the      *)
(* queries would give now.                                                 *)
(***************************************************************************)
Numbered(lvl, ids) ==
    /\ ids.id \in Nat /\ ids.pid \in Nat
    /\ lvl = "L01" => ids.pid = 1 /\ ids.id >= 11
    /\ lvl = "L02" => ids.pid = 0 \/ (ids.pid >= 11 /\ ids.id > 1000 * ids.pid)
Pending(d, ids) ==
    /\ Kept(d) => Numbered(d.run.lvl, ids)
    /\ d.run \in overtaken \/ (ids = NewIds(d) /\ ~Unplaceable(d))
Numbers ==
    /\ \A b \in bakruntb : Numbered(b.run.lvl, b)
    /\ \E n \in Nat : \A b \in bakruntb : b.id <= n /\ b.pid <= n
    /\ \A d \in shell.cur : Pending(d, shell.ids)
    /\ \A w \in Web : web[w].stage = "ids" => \A d \in web[w].cur : Pending(d, web[w].ids)

(***************************************************************************)
(* Cascade: the full backup that clientTaskBackup has let expire has no    *)
(* directory any more, and its row is still there, unless its id is one    *)
(* that incremental rows can have too: the transaction of the cascade      *)
(* deletes rows by their ids.  The row can also go with its server.        *)
(***************************************************************************)
Lasting(b)  == b.run.lvl = "L01" /\ b.id < 1000 /\ b.run.t \in named => b \in bakruntb
Expired(b)  == /\ b.run.lvl = "L01" /\ b.run \notin disk /\ Lasting(b)
               /\ b.run \in Run /\ b.run.dt <= latest[b.run.t] /\ b.id \in Nat /\ b.id >= 11
Below(c, b) == /\ c.run.t \in named => c \in bakruntb
               /\ c.run.t = b.run.t /\ c.run.lvl = "L02" /\ c.pid = b.id /\ Numbered("L02", c)
Cascade ==
    /\ \A b \in purge.rows : Lasting(b) /\ Numbered(b.run.lvl, b)
    /\ purge.stage = "expired" => \A b \in purge.kids : Expired(b)
    /\ purge.stage = "cascade" =>
          /\ \E b : Expired(b) /\ \A c \in purge.kids : Below(c, b)
          /\ \A g \in purge.gone : g[2] >= 1000

\* A step that makes no run known.
LEMMA NoNewRun ==
    ASSUME CInv, Seconds, latest' = latest, Everywhere' \subseteq Everywhere,
           (\A b, c \in purge.rows : b.run = c.run => b = c)'
    PROVE  Seconds'
BY DEF CInv, Shape, Seconds

\* What a step leaves of the rows of a pass.
LEMMA NextPurgeIs == ASSUME NEW R PROVE NextPurge(R).rows = R
BY DEF NextPurge, NoPurge, Pass

\* Where the runs of a step come from.
LEMMA RunsStay ==
    ASSUME CInv, Seconds, [Next]_vars, ~Start
    PROVE  /\ running' \subseteq running
           /\ RunsOf(reported') \subseteq running \cup RunsOf(reported)
           /\ RunsOf(bakruntb') \subseteq Everywhere
           /\ \A w \in Web : \A d \in web'[w].cur : d.run \in Everywhere
           /\ purge'.rows \subseteq purge.rows \/ purge'.rows \subseteq bakruntb
           /\ latest' = latest
<1>1. CASE EndScheduled
  BY <1>1 DEF EndScheduled, RunsOf, Everywhere
<1>2. ASSUME NEW w \in Web, WebReadIds(w) \/ WebInsertBakRun(w) \/ WebInsertLog(w) \/ WebFails(w)
      PROVE  /\ running' \subseteq running
             /\ RunsOf(reported') \subseteq running \cup RunsOf(reported)
             /\ RunsOf(bakruntb') \subseteq Everywhere
             /\ \A v \in Web : \A d \in web'[v].cur : d.run \in Everywhere
             /\ purge' = purge /\ latest' = latest
  <2>1. running' \subseteq running /\ reported' = reported /\ purge' = purge /\ latest' = latest
    BY <1>2 DEF WebReadIds, WebInsertBakRun, WebInsertLog, WebFails, diskVars, hist
  <2>2. RunsOf(bakruntb') \subseteq Everywhere
    <3>1. bakruntb' = bakruntb \/ \E d \in web[w].cur : bakruntb' = bakruntb \cup NewRow(d, web[w].ids)
      BY <1>2 DEF WebReadIds, WebInsertBakRun, WebInsertLog, WebFails, tabVars
    <3> QED BY <3>1, NewRowNames DEF RunsOf, Everywhere
  <2>3. \A v \in Web : \A d \in web'[v].cur : d \in web[v].cur \/ d.run \in running
    <3>1. ASSUME NEW v \in Web, v # w PROVE web'[v] = web[v]
      BY <1>2, <3>1 DEF WebReadIds, WebInsertBakRun, WebInsertLog, WebFails, CInv, Shape
    <3>2. CASE WebReadIds(w)
      <4>1. PICK run \in running, s \in {"S01", "S02"} :
              web' = [web EXCEPT ![w] = IF Unplaceable([run |-> run, suc |-> s]) THEN NoWeb
                                        ELSE [stage |-> "ids", cur |-> {[run |-> run, suc |-> s]},
                                              ids |-> NewIds([run |-> run, suc |-> s])]]
        BY <3>2 DEF WebReadIds
      <4>2. web'[w].cur \subseteq {[run |-> run, suc |-> s]}
        BY <4>1 DEF CInv, Shape, NoWeb
      <4> QED BY <3>1, <4>2
    <3>3. CASE WebInsertBakRun(w)
      <4>1. web'[w].cur = web[w].cur
        BY <3>3 DEF WebInsertBakRun, CInv, Shape
      <4> QED BY <3>1, <4>1
    <3>4. CASE WebInsertLog(w) \/ WebFails(w)
      <4>1. web'[w].cur = {}
        BY <3>4 DEF WebInsertLog, WebFails, CInv, Shape, NoWeb
      <4> QED BY <3>1, <4>1
    <3> QED BY <1>2, <3>2, <3>3, <3>4
  <2> QED BY <2>1, <2>2, <2>3 DEF RunsOf, Everywhere
<1>3. CASE CronSelect \/ ReadGinianLog \/ CronJobFails \/ Tick
  BY <1>3 DEF CronSelect, ReadGinianLog, CronJobFails, Tick, diskVars, tabVars, hist, RunsOf, Everywhere
<1>4. CASE CronJob
  <2>1. RunsOf(bakruntb') \subseteq RunsOf(bakruntb) \cup RunsOf(reported)
    BY <1>4, NewRowNames DEF CronJob, RunsOf, CInv, FromReports
  <2>2. UNCHANGED <<running, reported, web, purge, latest>>
    BY <1>4 DEF CronJob, diskVars
  <2> QED BY <2>1, <2>2 DEF RunsOf, Everywhere
<1>5. CASE ListDelSchTarget \/ ListUnlisted \/ PurgeStep
  <2>1. UNCHANGED <<running, reported, web, latest>> /\ bakruntb' \subseteq bakruntb
    BY <1>5 DEF ListDelSchTarget, ListUnlisted, PurgeStep, DelBackup, DelUnlisted, ListSchPidTarget,
         DeleteIDRun, CascadeCommit, diskVars, tabVars, hist
  <2>2. purge'.rows \subseteq purge.rows \/ purge'.rows \subseteq bakruntb
    <3>1. CASE ListDelSchTarget
      BY <3>1, NextPurgeIs DEF ListDelSchTarget
    <3>2. CASE ListUnlisted \/ DelUnlisted
      BY <3>2 DEF ListUnlisted, DelUnlisted, NoPurge, Pass
    <3>3. CASE DelBackup
      BY <3>3, NextPurgeIs DEF DelBackup, NoPurge, Pass
    <3>4. CASE ListSchPidTarget
      BY <3>4, NextPurgeIs DEF ListSchPidTarget, NoPurge, Pass
    <3>5. CASE DeleteIDRun
      BY <3>5 DEF DeleteIDRun, NoPurge, Pass
    <3>6. CASE CascadeCommit
      BY <3>6, NextPurgeIs DEF CascadeCommit
    <3> QED BY <1>5, <3>1, <3>2, <3>3, <3>4, <3>5, <3>6 DEF PurgeStep
  <2> QED BY <2>1, <2>2 DEF RunsOf, Everywhere
<1>6. CASE Restart
  <2>1. UNCHANGED <<running, reported, bakruntb, latest>> /\ purge'.rows = {}
        /\ web' = [w \in Web |-> IF web[w].stage = "idle" THEN web[w] ELSE NoWeb]
    BY <1>6 DEF Restart, NoPurge, Pass, diskVars, tabVars, hist
  <2>2. \A w \in Web : web'[w].cur \subseteq web[w].cur
    BY <2>1 DEF NoWeb
  <2> QED BY <2>1, <2>2 DEF RunsOf, Everywhere
<1>7. CASE UNCHANGED vars
  BY <1>7 DEF vars, diskVars, tabVars, hist, RunsOf, Everywhere
<1>8. CASE \E t \in Target : DeleteTgtSvr(t) \/ DeleteSvr(t)
  <2>1. UNCHANGED <<running, reported, web, purge, latest>> /\ bakruntb' \subseteq bakruntb
    BY <1>8 DEF DeleteTgtSvr, DeleteSvr, tabVars, hist
  <2> QED BY <2>1 DEF RunsOf, Everywhere
<1> QED BY <1>1, <1>2, <1>3, <1>4, <1>5, <1>6, <1>7, <1>8 DEF Next, ShellStep

LEMMA SecondsNext == CInv /\ Seconds /\ [Next]_vars => Seconds'
<1> SUFFICES ASSUME CInv, Seconds, [Next]_vars PROVE Seconds'
  OBVIOUS
<1>1. CASE Start
  <2>1. PICK t \in Target, l \in {"L01", "L02"}, y \in {"BT01", "BT02"} :
           /\ latest[t] < clock
           /\ latest' = [latest EXCEPT ![t] = clock]
           /\ running' = running \cup {[t |-> t, dt |-> clock, lvl |-> l, typ |-> y]}
    BY <1>1 DEF Start
  <2> DEFINE run == [t |-> t, dt |-> clock, lvl |-> l, typ |-> y]
  <2>2. run \in Run /\ run.t = t /\ run.dt = clock /\ clock \in Nat
    BY BoundAssumption DEF CInv, Shape, Run
  <2>3. Everywhere' = Everywhere \cup {run} /\ purge' = purge
    BY <1>1, <2>1 DEF Start, Everywhere, tabVars, hist
  <2>4. \A r \in Everywhere : r \in Run /\ (r.dt < clock \/ r.t # t)
    BY <2>1, <2>2 DEF Seconds, CInv, Shape, Run
  <2>5. latest'[t] = clock /\ \A x \in Target \ {t} : latest'[x] = latest[x]
    BY <2>1 DEF CInv, Shape
  <2> HIDE DEF run
  <2>6. \A r \in Everywhere : r \in Run /\ r.t \in Target /\ r.dt \in Nat /\ r.dt <= latest[r.t]
    BY BoundAssumption DEF Seconds, Run
  <2>7. \A r \in Everywhere' : r \in Run /\ r.dt <= latest'[r.t]
    BY <2>2, <2>3, <2>4, <2>5, <2>6
  <2>8. \A r, s \in Everywhere' : r.t = s.t /\ r.dt = s.dt => r = s
    BY <2>2, <2>3, <2>4, <2>6 DEF Seconds
  <2> QED BY <2>3, <2>7, <2>8 DEF Seconds
<1>2. CASE ~Start
  <2>1. Everywhere' \subseteq Everywhere
    BY <1>2, RunsStay DEF Everywhere, RunsOf
  <2>2. (\A b, c \in purge.rows : b.run = c.run => b = c)'
    BY <1>2, RunsStay DEF Seconds, CInv, RecordedOnce
  <2> QED BY <1>2, <2>1, <2>2, RunsStay, NoNewRun
<1> QED BY <1>1, <1>2

LEMMA SecondsInit == Init => Seconds
BY DEF Init, Seconds, Everywhere, RunsOf, NoPurge, Pass, NoWeb

-----------------------------------------------------------------------------
\* MAX of a bounded set of numbers that is not empty: it is there, and it is the largest.
LEMMA LargestIs ==
    ASSUME NEW S \in SUBSET Nat, S # {}, NEW n \in Nat, \A x \in S : x <= n
    PROVE  Largest(S) \in S /\ \A m \in S : m <= Largest(S)
<1> DEFINE T == {k \in Nat : n - k \in S}
<1>1. T \subseteq Nat /\ T # {}
  <2>1. PICK x \in S : TRUE
    OBVIOUS
  <2>2. n - x \in Nat /\ n - (n - x) = x
    OBVIOUS
  <2> QED BY <2>1, <2>2
<1>2. PICK k \in T : \A j \in T : <<j, k>> \notin OpToRel(<, Nat)
  <2> HIDE DEF T
  <2> QED BY <1>1, NatLessThanWellFounded, WFMin
<1>3. \A j \in T : ~(j < k)
  BY <1>2 DEF OpToRel
<1>4. n - k \in S /\ \A m \in S : m <= n - k
  <2>1. k \in Nat /\ n - k \in S
    OBVIOUS
  <2>2. ASSUME NEW m \in S PROVE m <= n - k
    <3>1. n - m \in Nat /\ n - (n - m) = m
      OBVIOUS
    <3>2. n - m \in T
      BY <3>1
    <3>3. ~(n - m < k)
      BY <1>3, <3>2
    <3> QED BY <2>1, <3>1, <3>3
  <2> QED BY <2>1, <2>2
<1> HIDE DEF T
<1> QED BY <1>4 DEF Largest

\* The three queries, on rows numbered as the invariant says.
LEMMA FullIds ==
    ASSUME CInv, Numbers, NEW t
    PROVE  LET S == {b.id : b \in {c \in Rows(t) : c.run.lvl = "L01"}} IN
           S # {} => /\ Largest(S) \in S /\ Largest(S) \in Nat /\ Largest(S) >= 11
                     /\ \A m \in S : m <= Largest(S)
<1> DEFINE S == {b.id : b \in {c \in Rows(t) : c.run.lvl = "L01"}}
<1> SUFFICES ASSUME S # {} PROVE /\ Largest(S) \in S /\ Largest(S) \in Nat /\ Largest(S) >= 11
                                 /\ \A m \in S : m <= Largest(S)
  OBVIOUS
<1>1. \A x \in S : x \in Nat /\ x >= 11
  BY DEF Numbers, Numbered, Rows
<1>2. PICK n \in Nat : \A x \in S : x <= n
  BY DEF Numbers, Rows
<1> HIDE DEF S
<1> QED BY <1>1, <1>2, LargestIs

LEMMA FullIdsByPid ==
    ASSUME CInv, Numbers, NEW t
    PROVE  {b.id : b \in {c \in Rows(t) : c.pid = 1}} = {b.id : b \in {c \in Rows(t) : c.run.lvl = "L01"}}
<1>1. \A c \in Rows(t) : c.pid = 1 <=> c.run.lvl = "L01"
  BY DEF Numbers, Numbered, Rows, CInv, Shape, Run
<1> QED BY <1>1

LEMMA IncIds ==
    ASSUME CInv, Numbers, NEW t
    PROVE  LET S == {b \in Rows(t) : b.run.lvl = "L02"}
               I == {b.id : b \in S}
               P == {b.pid : b \in S}
           IN  S # {} => /\ Largest(I) \in I /\ Largest(I) \in Nat /\ \A m \in I : m <= Largest(I)
                         /\ Largest(P) \in P /\ Largest(P) \in Nat /\ \A m \in P : m <= Largest(P)
<1> DEFINE S == {b \in Rows(t) : b.run.lvl = "L02"}
           I == {b.id : b \in S}
           P == {b.pid : b \in S}
<1> SUFFICES ASSUME S # {}
             PROVE  /\ Largest(I) \in I /\ Largest(I) \in Nat /\ \A m \in I : m <= Largest(I)
                    /\ Largest(P) \in P /\ Largest(P) \in Nat /\ \A m \in P : m <= Largest(P)
  OBVIOUS
<1>1. I \in SUBSET Nat /\ P \in SUBSET Nat /\ I # {} /\ P # {}
  BY DEF Numbers, Numbered, Rows
<1>2. PICK n \in Nat : \A b \in bakruntb : b.id <= n /\ b.pid <= n
  BY DEF Numbers
<1>3. (\A x \in I : x <= n) /\ (\A x \in P : x <= n)
  BY <1>2 DEF Rows
<1> HIDE DEF I, P
<1> QED BY <1>1, <1>3, LargestIs

\* The new ids are numbered as those of the other rows are.
LEMMA NewIdsNumbered ==
    ASSUME CInv, Numbers, NEW d, d.run \in Run, Kept(d)
    PROVE  Numbered(d.run.lvl, NewIds(d))
<1> DEFINE t == d.run.t
           F == {b.id : b \in {c \in Rows(t) : c.run.lvl = "L01"}}
           J == {b \in Rows(t) : b.run.lvl = "L02"}
           I == {b.id : b \in J}
           P == {b.pid : b \in J}
<1>1. d.run.lvl \in {"L01", "L02"}
  BY DEF Run
<1>2. F # {} => Largest(F) \in Nat /\ Largest(F) >= 11
  BY FullIds
<1>3. CASE d.run.lvl = "L01"
  <2>1. NewIds(d) = [id |-> (IF F = {} THEN 10 ELSE Largest(F)) + 1, pid |-> 1]
    BY <1>3, FullIdsByPid DEF NewIds, findRunFllMaxId
  <2> HIDE DEF F
  <2> QED BY <1>2, <1>3, <2>1 DEF Numbered
<1>4. CASE d.run.lvl = "L02" /\ LstLvl(t) = "L01"
  <2>1. NewIds(d) = IF F = {} THEN NoId ELSE [id |-> Largest(F) * 1000 + 1, pid |-> Largest(F)]
    BY <1>4 DEF NewIds, findRunIncMaxId1
  <2> HIDE DEF F
  <2> QED BY <1>2, <1>4, <2>1 DEF Numbered, NoId
<1>5. CASE d.run.lvl = "L02" /\ LstLvl(t) # "L01"
  <2>1. NewIds(d) = IF J = {} THEN NoId ELSE [id |-> Largest(I) + 1, pid |-> Largest(P)]
    BY <1>5 DEF NewIds, findRunIncMaxId2
  <2>2. CASE J = {}
    BY <1>5, <2>1, <2>2 DEF Numbered, NoId
  <2>3. CASE J # {}
    <3>1. Largest(I) \in Nat /\ (\A m \in I : m <= Largest(I)) /\ Largest(P) \in P /\ Largest(P) \in Nat
      BY <2>3, IncIds
    <3>2. PICK p \in J : p.pid = Largest(P)
      BY <3>1
    <3>3. p.id <= Largest(I) /\ Numbered("L02", p)
      BY <3>1, <3>2 DEF Numbers, Rows
    <3> HIDE DEF I, P, J
    <3> QED BY <1>5, <2>1, <2>3, <3>1, <3>2, <3>3 DEF Numbered
  <2> QED BY <2>2, <2>3
<1> QED BY <1>1, <1>3, <1>4, <1>5

\* A row that is read is pending, and it stays so until it is committed itself.
LEMMA PendingWhenRead ==
    ASSUME CInv, Numbers, NEW d, d.run \in Run, ~Unplaceable(d)
    PROVE  Pending(d, NewIds(d))
BY NewIdsNumbered DEF Pending

LEMMA StillPending ==
    ASSUME NEW d, NEW ids, Pending(d, ids), overtaken \subseteq overtaken',
           \/ d.run \in overtaken'
           \/ Rows(d.run.t)' = Rows(d.run.t) /\ Logs(d.run.t)' = Logs(d.run.t)
    PROVE  Pending(d, ids)'
<1>1. CASE Rows(d.run.t)' = Rows(d.run.t) /\ Logs(d.run.t)' = Logs(d.run.t)
  <2>1. NewIds(d)' = NewIds(d)
    BY <1>1 DEF NewIds, findRunFllMaxId, findRunIncMaxId1, findRunIncMaxId2, LstLvl
  <2>2. Unplaceable(d)' = Unplaceable(d)
    BY <1>1 DEF Unplaceable
  <2> QED BY <2>1, <2>2 DEF Pending
<1>2. CASE d.run \in overtaken'
  BY <1>2 DEF Pending
<1> QED BY <1>1, <1>2

\* A commit on the targets T; it inserts the row of own, if any.
LEMMA NumbersStep ==
    ASSUME CInv, Numbers, NEW T, NEW own,
           \A t : t \notin T => Rows(t)' = Rows(t) /\ Logs(t)' = Logs(t),
           Overtake(T, own) \/ (T = {} /\ overtaken' = overtaken),
           \/ bakruntb' \subseteq bakruntb
           \/ \E d, ids : d.run \in Run /\ Pending(d, ids) /\ bakruntb' = bakruntb \cup NewRow(d, ids),
           \A d \in shell'.cur : d \notin own /\ Pending(d, shell'.ids) /\ (d \in Open \/ T = {}),
           \A w \in Web : web'[w].stage = "ids" =>
              \A d \in web'[w].cur : d \notin own /\ Pending(d, web'[w].ids) /\ (d \in Open \/ T = {})
    PROVE  Numbers'
<1>1. ASSUME NEW d, NEW ids, d \notin own, Pending(d, ids), d \in Open \/ T = {}
      PROVE  Pending(d, ids)'
  <2>1. overtaken \subseteq overtaken'
    BY DEF Overtake
  <2>2. d.run.t \in T => d.run \in overtaken'
    BY <1>1 DEF Overtake
  <2> QED BY <1>1, <2>1, <2>2, StillPending
<1>2. \A d \in shell'.cur : Pending(d, shell.ids)'
  <2> SUFFICES ASSUME NEW d \in shell'.cur PROVE Pending(d, shell.ids)'
    OBVIOUS
  <2>1. PICK ids : ids = shell'.ids
    OBVIOUS
  <2>2. Pending(d, ids)'
    BY <1>1, <2>1
  <2> QED BY <2>1, <2>2 DEF Pending
<1>3. \A w \in Web : web'[w].stage = "ids" => \A d \in web'[w].cur : Pending(d, web[w].ids)'
  <2> SUFFICES ASSUME NEW w \in Web, web'[w].stage = "ids", NEW d \in web'[w].cur
               PROVE  Pending(d, web[w].ids)'
    OBVIOUS
  <2>1. PICK ids : ids = web'[w].ids
    OBVIOUS
  <2>2. Pending(d, ids)'
    BY <1>1, <2>1
  <2> QED BY <2>1, <2>2 DEF Pending
<1>4. /\ \A b \in bakruntb' : Numbered(b.run.lvl, b)
      /\ \E n \in Nat : \A b \in bakruntb' : b.id <= n /\ b.pid <= n
  <2>1. PICK n \in Nat : \A b \in bakruntb : b.id <= n /\ b.pid <= n
    BY DEF Numbers
  <2>2. CASE bakruntb' \subseteq bakruntb
    BY <2>1, <2>2 DEF Numbers
  <2>3. ASSUME NEW d, NEW ids, d.run \in Run, Pending(d, ids), bakruntb' = bakruntb \cup NewRow(d, ids),
               Kept(d)
        PROVE  /\ \A b \in bakruntb' : Numbered(b.run.lvl, b)
               /\ \E m \in Nat : \A b \in bakruntb' : b.id <= m /\ b.pid <= m
    <3> DEFINE b == [id |-> ids.id, pid |-> ids.pid, run |-> d.run]
    <3>1. bakruntb' = bakruntb \cup {b} /\ Numbered(d.run.lvl, ids)
      BY <2>3 DEF NewRow, Pending
    <3>2. Numbered(b.run.lvl, b) /\ b.id \in Nat /\ b.pid \in Nat
      BY <3>1 DEF Numbered
    <3> HIDE DEF b
    <3>3. \A c \in bakruntb' : Numbered(c.run.lvl, c)
      BY <3>1, <3>2 DEF Numbers
    <3>4. n + b.id + b.pid \in Nat /\ \A c \in bakruntb' : c.id <= n + b.id + b.pid /\ c.pid <= n + b.id + b.pid
      BY <2>1, <3>1, <3>2 DEF Numbers, Numbered
    <3> QED BY <3>3, <3>4
  <2>4. ASSUME NEW d, NEW ids, bakruntb' = bakruntb \cup NewRow(d, ids), ~Kept(d)
        PROVE  bakruntb' \subseteq bakruntb
    BY <2>4 DEF NewRow
  <2> QED BY <2>2, <2>3, <2>4
<1> QED BY <1>2, <1>3, <1>4 DEF Numbers

\* Most steps leave the catalogue and the work log alone.
LEMMA NumbersQuiet ==
    ASSUME CInv, Numbers, UNCHANGED <<bakruntb, wrklogtb, overtaken>>,
           \A d \in shell'.cur : Pending(d, shell'.ids),
           \A w \in Web : web'[w].stage = "ids" => \A d \in web'[w].cur : Pending(d, web'[w].ids)
    PROVE  Numbers'
<1> DEFINE T == {}
<1>1. \A t : t \notin T => Rows(t)' = Rows(t) /\ Logs(t)' = Logs(t)
  BY DEF Rows, Logs
<1>2. T = {} /\ overtaken' = overtaken /\ bakruntb' \subseteq bakruntb
  OBVIOUS
<1>3. \A d \in shell'.cur : d \notin T /\ Pending(d, shell'.ids) /\ (d \in Open \/ T = {})
  OBVIOUS
<1>4. \A w \in Web : web'[w].stage = "ids" =>
         \A d \in web'[w].cur : d \notin T /\ Pending(d, web'[w].ids) /\ (d \in Open \/ T = {})
  OBVIOUS
<1> HIDE DEF T
<1> QED BY <1>1, <1>2, <1>3, <1>4, NumbersStep

LEMMA NumbersCommit ==
    ASSUME CInv, Numbers, NEW d, NEW ids, d.run \in Run, Pending(d, ids),
           bakruntb' = bakruntb \cup NewRow(d, ids) \/ bakruntb' = bakruntb,
           wrklogtb' = wrklogtb \cup {d} \/ wrklogtb' = wrklogtb,
           Overtake({d.run.t}, {d}),
           shell'.cur = {} \/ (shell' = shell /\ d \notin shell.cur),
           \A w \in Web : web'[w].stage = "ids" => web'[w] = web[w] /\ d \notin web[w].cur
    PROVE  Numbers'
<1>1. \A t : t \notin {d.run.t} => Rows(t)' = Rows(t) /\ Logs(t)' = Logs(t)
  BY DEF Rows, Logs, NewRow
<1>2. \A e \in shell'.cur : e \notin {d} /\ Pending(e, shell'.ids) /\ e \in Open
  BY DEF Numbers, Open
<1>3. \A w \in Web : web'[w].stage = "ids" =>
         \A e \in web'[w].cur : e \notin {d} /\ Pending(e, web'[w].ids) /\ e \in Open
  BY DEF Numbers, Open
<1> QED BY <1>1, <1>2, <1>3, NumbersStep

LEMMA NumbersDelete ==
    ASSUME CInv, Numbers, NEW T, bakruntb' \subseteq bakruntb, wrklogtb' \subseteq wrklogtb,
           UNCHANGED <<shell, web>>,
           \A b \in bakruntb \ bakruntb' : b.run.t \in T,
           \A l \in wrklogtb \ wrklogtb' : l.run.t \in T,
           Overtake(T, {})
    PROVE  Numbers'
<1>1. \A t : t \notin T => Rows(t)' = Rows(t) /\ Logs(t)' = Logs(t)
  BY DEF Rows, Logs
<1>2. \A e \in shell'.cur : e \notin {} /\ Pending(e, shell'.ids) /\ e \in Open
  BY DEF Numbers, Open
<1>3. \A w \in Web : web'[w].stage = "ids" =>
         \A e \in web'[w].cur : e \notin {} /\ Pending(e, web'[w].ids) /\ e \in Open
  BY DEF Numbers, Open
<1> QED BY <1>1, <1>2, <1>3, NumbersStep

LEMMA NumbersWeb ==
    ASSUME CInv, Numbers, NEW w \in Web
    PROVE  WebReadIds(w) \/ WebInsertBakRun(w) \/ WebInsertLog(w) \/ WebFails(w) => Numbers'
<1>1. CASE WebReadIds(w)
  <2>1. PICK run \in running, s \in {"S01", "S02"} :
          web' = [web EXCEPT ![w] = IF Unplaceable([run |-> run, suc |-> s]) THEN NoWeb
                                    ELSE [stage |-> "ids", cur |-> {[run |-> run, suc |-> s]},
                                          ids |-> NewIds([run |-> run, suc |-> s])]]
    BY <1>1 DEF WebReadIds
  <2>2. PICK d : d = [run |-> run, suc |-> s]
    OBVIOUS
  <2>3. d.run \in Run
    BY <2>2 DEF CInv, Shape
  <2>4. web'[w] = (IF Unplaceable(d) THEN NoWeb ELSE [stage |-> "ids", cur |-> {d}, ids |-> NewIds(d)])
        /\ \A v \in Web \ {w} : web'[v] = web[v]
    BY <2>1, <2>2 DEF CInv, Shape
  <2>5. web'[w].stage = "ids" => \A e \in web'[w].cur : Pending(e, web'[w].ids)
    <3>1. CASE Unplaceable(d)
      BY <2>4, <3>1 DEF NoWeb
    <3>2. CASE ~Unplaceable(d)
      <4>1. Pending(d, NewIds(d))
        BY <2>3, <3>2, PendingWhenRead
      <4> QED BY <2>4, <3>2, <4>1
    <3> QED BY <3>1, <3>2
  <2>6. UNCHANGED <<bakruntb, wrklogtb, overtaken, shell>>
    BY <1>1 DEF WebReadIds, tabVars, hist
  <2>7. \A v \in Web : web'[v].stage = "ids" => \A e \in web'[v].cur : Pending(e, web'[v].ids)
    BY <2>4, <2>5 DEF Numbers
  <2>8. \A e \in shell'.cur : Pending(e, shell'.ids)
    BY <2>6 DEF Numbers
  <2> QED BY <2>6, <2>7, <2>8, NumbersQuiet
<1>2. CASE WebInsertBakRun(w)
  <2>1. PICK d \in web[w].cur : bakruntb' = bakruntb \cup NewRow(d, web[w].ids) /\ Overtake({d.run.t}, {d})
    BY <1>2 DEF WebInsertBakRun
  <2>2. /\ web[w].stage = "ids" /\ UNCHANGED <<wrklogtb, shell>>
        /\ web'[w].stage # "ids" /\ \A v \in Web \ {w} : web'[v] = web[v]
    BY <1>2 DEF WebInsertBakRun, CInv, Shape
  <2>3. Pending(d, web[w].ids) /\ d.run \in Run
    BY <2>2 DEF Numbers, CInv, Shape
  <2>4. d \notin shell.cur /\ \A v \in Web \ {w} : d \notin web[v].cur
    BY DEF CInv, Apart, FromReports
  <2>5. \A v \in Web : web'[v].stage = "ids" => web'[v] = web[v] /\ d \notin web[v].cur
    BY <2>2, <2>4
  <2> QED BY <2>1, <2>2, <2>3, <2>4, <2>5, NumbersCommit
<1>3. CASE WebInsertLog(w)
  <2>1. PICK d \in web[w].cur : wrklogtb' = wrklogtb \cup {d} /\ Overtake({d.run.t}, {d})
    BY <1>3 DEF WebInsertLog
  <2>2. /\ web[w].stage = "log" /\ UNCHANGED <<bakruntb, shell>>
        /\ web'[w].stage # "ids" /\ \A v \in Web \ {w} : web'[v] = web[v]
    BY <1>3 DEF WebInsertLog, CInv, Shape, NoWeb
  <2>3. d \notin shell.cur /\ \A v \in Web \ {w} : d \notin web[v].cur
    BY DEF CInv, Apart, FromReports
  <2>4. \A t : t \notin {d.run.t} => Rows(t)' = Rows(t) /\ Logs(t)' = Logs(t)
    BY <2>1, <2>2 DEF Rows, Logs
  <2>5. \A e \in shell'.cur : e \notin {d} /\ Pending(e, shell'.ids) /\ e \in Open
    BY <2>2, <2>3 DEF Numbers, Open
  <2>6. \A v \in Web : web'[v].stage = "ids" =>
           \A e \in web'[v].cur : e \notin {d} /\ Pending(e, web'[v].ids) /\ e \in Open
    BY <2>2, <2>3 DEF Numbers, Open
  <2>7. bakruntb' \subseteq bakruntb
    BY <2>2
  <2> QED BY <2>1, <2>4, <2>5, <2>6, <2>7, NumbersStep
<1>4. CASE WebFails(w)
  <2>1. UNCHANGED <<bakruntb, wrklogtb, overtaken, shell>>
        /\ web'[w].stage # "ids" /\ \A v \in Web \ {w} : web'[v] = web[v]
    BY <1>4 DEF WebFails, tabVars, hist, CInv, Shape, NoWeb
  <2>2. \A e \in shell'.cur : Pending(e, shell'.ids)
    BY <2>1 DEF Numbers
  <2>3. \A v \in Web : web'[v].stage = "ids" => \A e \in web'[v].cur : Pending(e, web'[v].ids)
    BY <2>1 DEF Numbers
  <2> QED BY <2>1, <2>2, <2>3, NumbersQuiet
<1> QED BY <1>1, <1>2, <1>3, <1>4

LEMMA NumbersShell == ASSUME CInv, Numbers, CronSelect \/ ShellStep PROVE Numbers'
<1>1. web' = web
  BY DEF CronSelect, ShellStep, ReadGinianLog, CronJob, CronJobFails
<1>2. \A w \in Web : web'[w].stage = "ids" => \A e \in web'[w].cur : Pending(e, web'[w].ids)
  BY <1>1 DEF Numbers
<1>3. \A R : NextShell(R).cur = {}
  BY DEF NextShell, NoShell
<1>4. CASE CronSelect \/ CronJobFails
  <2>1. UNCHANGED <<bakruntb, wrklogtb, overtaken>> /\ shell'.cur = {}
    BY <1>3, <1>4 DEF CronSelect, CronJobFails, NoShell, tabVars, hist
  <2> QED BY <1>2, <2>1, NumbersQuiet
<1>5. CASE ReadGinianLog
  <2>1. UNCHANGED <<bakruntb, wrklogtb, overtaken>>
    BY <1>5 DEF ReadGinianLog, hist
  <2>2. PICK d \in shell.rows :
           \/ /\ ~Unplaceable(d)
              /\ shell' = [stage |-> "job", rows |-> shell.rows \ {d}, cur |-> {d}, ids |-> NewIds(d)]
           \/ shell' = NoShell
           \/ shell' = NextShell(shell.rows \ {d})
    BY <1>5 DEF ReadGinianLog
  <2>3. d.run \in Run
    BY DEF CInv, Shape, FromReports
  <2>4. ~Unplaceable(d) => Pending(d, NewIds(d))
    BY <2>3, PendingWhenRead
  <2>5. \A e \in shell'.cur : Pending(e, shell'.ids)
    BY <1>3, <2>2, <2>4 DEF NoShell
  <2> QED BY <1>2, <2>1, <2>5, NumbersQuiet
<1>6. CASE CronJob
  <2>1. PICK d \in shell.cur : /\ bakruntb' = bakruntb \cup NewRow(d, shell.ids)
                               /\ wrklogtb' = wrklogtb \cup {d} /\ Overtake({d.run.t}, {d})
    BY <1>6 DEF CronJob
  <2>2. shell'.cur = {}
    BY <1>3, <1>6 DEF CronJob
  <2>3. Pending(d, shell.ids) /\ d.run \in Run /\ d \in reported
    BY DEF Numbers, CInv, Shape, FromReports
  <2>4. \A w \in Web : web'[w].stage = "ids" => web'[w] = web[w] /\ d \notin web[w].cur
    BY <1>1, <2>3 DEF CInv, Apart
  <2> QED BY <2>1, <2>2, <2>3, <2>4, NumbersCommit
<1> QED BY <1>4, <1>5, <1>6 DEF ShellStep

LEMMA NumbersPurge ==
    ASSUME CInv, Numbers, ListDelSchTarget \/ ListUnlisted \/ PurgeStep
    PROVE  Numbers'
<1>1. UNCHANGED <<wrklogtb, shell, web>>
  BY DEF ListDelSchTarget, ListUnlisted, PurgeStep, DelBackup, DelUnlisted, ListSchPidTarget, DeleteIDRun,
         CascadeCommit, tabVars
<1>2. CASE UNCHANGED <<bakruntb, overtaken>>
  <2>1. \A e \in shell'.cur : Pending(e, shell'.ids)
    BY <1>1 DEF Numbers
  <2>2. \A w \in Web : web'[w].stage = "ids" => \A e \in web'[w].cur : Pending(e, web'[w].ids)
    BY <1>1 DEF Numbers
  <2> QED BY <1>1, <1>2, <2>1, <2>2, NumbersQuiet
<1>3. CASE DelBackup /\ ~UNCHANGED <<bakruntb, overtaken>>
  <2>1. PICK b \in purge.rows : /\ bakruntb' = {c \in bakruntb : ~(c.run.t = b.run.t /\ c.run.dt = b.run.dt)}
                                /\ Overtake({b.run.t}, {})
    BY <1>3 DEF DelBackup
  <2>2. bakruntb' \subseteq bakruntb /\ \A c \in bakruntb \ bakruntb' : c.run.t \in {b.run.t}
    BY <2>1
  <2> QED BY <1>1, <2>1, <2>2, NumbersDelete
<1>4. CASE CascadeCommit
  <2>1. /\ bakruntb' = {c \in bakruntb : <<c.run.t, c.id>> \notin purge.gone}
        /\ Overtake({g[1] : g \in purge.gone}, {})
    BY <1>4 DEF CascadeCommit
  <2>2. bakruntb' \subseteq bakruntb /\ \A c \in bakruntb \ bakruntb' : c.run.t \in {g[1] : g \in purge.gone}
    BY <2>1
  <2> QED BY <1>1, <2>1, <2>2, NumbersDelete
<1>5. ListDelSchTarget \/ ListUnlisted \/ DelUnlisted \/ ListSchPidTarget \/ DeleteIDRun =>
         UNCHANGED <<bakruntb, overtaken>>
  BY DEF ListDelSchTarget, ListUnlisted, DelUnlisted, ListSchPidTarget, DeleteIDRun, tabVars, hist
<1> QED BY <1>2, <1>3, <1>4, <1>5 DEF PurgeStep

LEMMA NumbersNext == CInv /\ Numbers /\ [Next]_vars => Numbers'
<1> SUFFICES ASSUME CInv, Numbers, [Next]_vars PROVE Numbers'
  OBVIOUS
<1>1. CASE Start \/ EndScheduled \/ Tick \/ UNCHANGED vars
  <2>1. UNCHANGED <<bakruntb, wrklogtb, overtaken, shell, web>>
    BY <1>1 DEF Start, EndScheduled, Tick, vars, tabVars, hist
  <2>2. \A e \in shell'.cur : Pending(e, shell'.ids)
    BY <2>1 DEF Numbers
  <2>3. \A w \in Web : web'[w].stage = "ids" => \A e \in web'[w].cur : Pending(e, web'[w].ids)
    BY <2>1 DEF Numbers
  <2> QED BY <2>1, <2>2, <2>3, NumbersQuiet
<1>2. CASE Restart
  <2>1. UNCHANGED <<bakruntb, wrklogtb, overtaken>> /\ shell'.cur = {}
    BY <1>2 DEF Restart, tabVars, hist, NoShell
  <2>2. \A w \in Web : web'[w].stage # "ids"
    BY <1>2 DEF Restart, NoWeb
  <2> QED BY <2>1, <2>2, NumbersQuiet
<1>3. ASSUME NEW t \in Target, DeleteTgtSvr(t) PROVE Numbers'
  <2>1. /\ bakruntb' = bakruntb \ Rows(t) /\ wrklogtb' = {l \in wrklogtb : l.run.t # t}
        /\ Overtake({t}, {}) /\ UNCHANGED <<shell, web>>
    BY <1>3 DEF DeleteTgtSvr
  <2>2. /\ \A b \in bakruntb \ bakruntb' : b.run.t \in {t}
        /\ \A l \in wrklogtb \ wrklogtb' : l.run.t \in {t}
    BY <2>1 DEF Rows
  <2> QED BY <2>1, <2>2, NumbersDelete
<1>4. CASE \E t \in Target : DeleteSvr(t)
  <2>1. UNCHANGED <<bakruntb, wrklogtb, overtaken, shell, web>>
    BY <1>4 DEF DeleteSvr, tabVars, hist
  <2>2. \A e \in shell'.cur : Pending(e, shell'.ids)
    BY <2>1 DEF Numbers
  <2>3. \A w \in Web : web'[w].stage = "ids" => \A e \in web'[w].cur : Pending(e, web'[w].ids)
    BY <2>1 DEF Numbers
  <2> QED BY <2>1, <2>2, <2>3, NumbersQuiet
<1> QED BY <1>1, <1>2, <1>3, <1>4, NumbersWeb, NumbersShell, NumbersPurge DEF Next

LEMMA NumbersInit == Init => Numbers
BY DEF Init, Numbers, NoShell, NoWeb

-----------------------------------------------------------------------------
(***************************************************************************)
(* Where a row comes to stand.                                             *)
(***************************************************************************)

\* What the order of the tree says of a row, in one place.
LEMMA RowType ==
    ASSUME CInv, Numbers, NEW c \in bakruntb
    PROVE  c.run.lvl \in {"L01", "L02"} /\ c.run.dt \in Nat /\ c.run.dt <= MaxClock /\ c.id \in Nat /\ c.pid \in Nat
BY BoundAssumption DEF CInv, Shape, Run, Numbers, Numbered

LEMMA OneRowPerSecond ==
    ASSUME CInv, Seconds, NEW b \in bakruntb, NEW c \in bakruntb, b.run.t = c.run.t, b.run.dt = c.run.dt
    PROVE  b = c
BY DEF Seconds, Everywhere, RunsOf, CInv, RecordedOnce

LEMMA FullInOrder ==
    ASSUME NEW t, InOrder(t), NEW c \in Rows(t), c.run.lvl = "L01"
    PROVE  /\ c.pid = 1 /\ c.id \in 11 .. 999
           /\ \A f \in Rows(t) : f.run.lvl = "L01" /\ f.run.dt < c.run.dt => f.id < c.id
<1>1. Placed(c, bakruntb) /\ c.run.t = t
  BY DEF InOrder, Rows
<1> QED BY <1>1 DEF Placed, Fulls, Rows

LEMMA IncInOrder ==
    ASSUME NEW t, InOrder(t), NEW c \in Rows(t), c.run.lvl = "L02"
    PROVE  /\ c.id \in 1000 * c.pid + 1 .. 1000 * c.pid + 999
           /\ \E f \in Rows(t) : /\ f.run.lvl = "L01" /\ c.pid = f.id /\ f.run.dt < c.run.dt
                                 /\ \A g \in Rows(t) : g.run.lvl = "L01" /\ g.run.dt < c.run.dt
                                       => g.run.dt <= f.run.dt
<1>1. Placed(c, bakruntb) /\ c.run.t = t
  BY DEF InOrder, Rows
<1> QED BY <1>1 DEF Placed, Fulls, Rows

LEMMA Remainder == ASSUME NEW k \in Nat PROVE (1000 * k + 999) % 1000 = 999
OBVIOUS

\* The newest log entry is that of the newest row, so its level is that of a row
\* no other is younger than.
LEMMA NewestLog ==
    ASSUME CInv, Numbers, NEW t, InOrder(t), Logs(t) # {}
    PROVE  \E b \in Rows(t) : b.run.lvl = LstLvl(t) /\ \A c \in Rows(t) : c.run.dt <= b.run.dt
<1>1. {l.run : l \in Logs(t)} = {b.run : b \in Rows(t)}
  BY DEF InOrder
<1> DEFINE D == {b.run.dt : b \in Rows(t)}
<1>2. D \in SUBSET Nat /\ D # {} /\ \A x \in D : x <= MaxClock
  <2>1. Rows(t) # {}
    BY <1>1
  <2> QED BY <2>1, RowType DEF Rows
<1>3. Largest(D) \in D /\ \A m \in D : m <= Largest(D)
  <2> HIDE DEF D
  <2> QED BY <1>2, LargestIs, BoundAssumption
<1>4. PICK b \in Rows(t) : \A c \in Rows(t) : c.run.dt <= b.run.dt
  BY <1>3
<1>5. \E l \in Logs(t) : \A k \in Logs(t) : k.run.dt <= l.run.dt
  <2>1. PICK l \in Logs(t) : l.run = b.run
    BY <1>1
  <2>2. \A k \in Logs(t) : \E c \in Rows(t) : k.run = c.run
    BY <1>1
  <2> QED BY <1>4, <2>1, <2>2
<1>6. PICK l \in Logs(t) : (\A k \in Logs(t) : k.run.dt <= l.run.dt) /\ LstLvl(t) = l.run.lvl
  BY <1>5 DEF LstLvl
<1>7. PICK c \in Rows(t) : c.run = l.run
  BY <1>1
<1>8. \A e \in Rows(t) : e.run.dt <= c.run.dt
  BY <1>1, <1>6, <1>7
<1> QED BY <1>6, <1>7, <1>8

\* The ids that the queries give for the next run of a tree in order.
LEMMA NextFull ==
    ASSUME CInv, Numbers, NEW t, InOrder(t), Room(t), NEW n, n = findRunFllMaxId(t).id
    PROVE  n \in 11 .. 999 /\ \A c \in Rows(t) : c.id # n /\ (c.run.lvl = "L01" => c.id < n)
<1> DEFINE F == {b.id : b \in {c \in Rows(t) : c.run.lvl = "L01"}}
<1>1. n = (IF F = {} THEN 10 ELSE Largest(F)) + 1
  BY FullIdsByPid DEF findRunFllMaxId
<1>2. F # {} => Largest(F) \in F /\ \A m \in F : m <= Largest(F)
  BY FullIds
<1>3. \A c \in Rows(t) : c.run.lvl = "L01" => c.id \in F /\ c.id \in Nat /\ c.id >= 11 /\ c.id <= 998
  <2> SUFFICES ASSUME NEW c \in Rows(t), c.run.lvl = "L01"
               PROVE  c.id \in F /\ c.id \in Nat /\ c.id >= 11 /\ c.id <= 998
    OBVIOUS
  <2>1. c.id \in 11 .. 999 /\ c.id % 1000 # 999
    BY FullInOrder DEF Room
  <2>2. c.id # 999
    <3>1. 999 % 1000 = 999
      OBVIOUS
    <3> QED BY <2>1, <3>1
  <2>3. c.id \in F
    OBVIOUS
  <2>4. c.id \in Nat /\ c.id >= 11 /\ c.id <= 998
    <3> HIDE DEF F
    <3> QED BY <2>1, <2>2
  <2> QED BY <2>3, <2>4
<1>4. \A m \in F : m \in Nat /\ m >= 11 /\ m <= 998
  BY <1>3
<1>5. \A c \in Rows(t) : c.run.lvl = "L02" => c.id > 11000
  <2>1. \A c \in Rows(t) : c.run.lvl = "L02" => c.pid \in Nat /\ c.pid >= 11 /\ c.id >= 1000 * c.pid + 1 /\ c.id \in Nat
    BY <1>3, IncInOrder, RowType DEF Rows
  <2> QED BY <2>1
<1>6. \A c \in Rows(t) : c.run.lvl \in {"L01", "L02"}
  BY RowType DEF Rows
<1>7. n \in 11 .. 999 /\ \A m \in F : m < n
  <2> HIDE DEF F
  <2>1. CASE F = {}
    BY <1>1, <2>1
  <2>2. CASE F # {}
    <3>1. PICK x \in F : x = Largest(F) /\ x \in Nat /\ x >= 11 /\ x <= 998
      BY <1>2, <1>4, <2>2
    <3>2. n = x + 1 /\ \A m \in F : m <= x
      BY <1>1, <1>2, <2>2, <3>1
    <3>3. \A m \in F : m < n
      BY <1>4, <3>1, <3>2
    <3> QED BY <3>1, <3>2, <3>3
  <2> QED BY <2>1, <2>2
<1>8. ASSUME NEW c \in Rows(t), c.run.lvl = "L01" PROVE c.id < n /\ c.id # n
  <2>1. c.id \in F /\ c.id \in Nat
    BY <1>3, <1>8
  <2> HIDE DEF F
  <2> QED BY <1>7, <2>1
<1>9. ASSUME NEW c \in Rows(t), c.run.lvl = "L02" PROVE c.id # n
  BY <1>5, <1>7, <1>9
<1> QED BY <1>6, <1>7, <1>8, <1>9

\* The newest full backup of a tree in order has the largest id, and the rows below
\* it have the largest ids of all.
LEMMA NewestFull ==
    ASSUME CInv, Seconds, Numbers, NEW t, InOrder(t), NEW f \in Rows(t), f.run.lvl = "L01",
           \A g \in Rows(t) : g.run.lvl = "L01" => g.run.dt <= f.run.dt
    PROVE  /\ \A g \in Rows(t) : g.run.lvl = "L01" => g.id <= f.id
           /\ \A c \in Rows(t) : c.run.lvl = "L02" =>
                 /\ c.pid <= f.id
                 /\ c.run.dt > f.run.dt => c.pid = f.id
                 /\ c.pid = f.id => c.run.dt > f.run.dt
<1>1. ASSUME NEW g \in Rows(t), g.run.lvl = "L01" PROVE g = f \/ (g.id < f.id /\ g.run.dt < f.run.dt)
  <2>1. g.run.dt <= f.run.dt /\ g.run.dt \in Nat /\ f.run.dt \in Nat /\ g.run.t = f.run.t
    BY <1>1, RowType DEF Rows
  <2>2. g.run.dt = f.run.dt => g = f
    BY <2>1, OneRowPerSecond DEF Rows
  <2>3. g.run.dt < f.run.dt => g.id < f.id
    BY <1>1, FullInOrder
  <2> QED BY <2>1, <2>2, <2>3
<1>2. \A g \in Rows(t) : g.run.lvl = "L01" => g.id <= f.id
  BY <1>1, RowType DEF Rows
<1>3. ASSUME NEW c \in Rows(t), c.run.lvl = "L02"
      PROVE  c.pid <= f.id /\ (c.run.dt > f.run.dt <=> c.pid = f.id)
  <2>1. PICK p \in Rows(t) : /\ p.run.lvl = "L01" /\ c.pid = p.id /\ p.run.dt < c.run.dt
                             /\ \A g \in Rows(t) : g.run.lvl = "L01" /\ g.run.dt < c.run.dt
                                   => g.run.dt <= p.run.dt
    BY <1>3, IncInOrder
  <2>2. p = f \/ (p.id < f.id /\ p.run.dt < f.run.dt)
    BY <1>1, <2>1
  <2>3. /\ p.id \in Nat /\ f.id \in Nat
        /\ p.run.dt \in Nat /\ f.run.dt \in Nat /\ c.run.dt \in Nat
    BY RowType DEF Rows
  <2> QED BY <2>1, <2>2, <2>3
<1> QED BY <1>2, <1>3

\* An incremental run is placed below the newest full backup.
LEMMA NextInc ==
    ASSUME CInv, Seconds, Numbers, NEW t, InOrder(t), Room(t), Logs(t) # {}, NEW ids,
           ids = IF LstLvl(t) = "L01" THEN findRunIncMaxId1(t) ELSE findRunIncMaxId2(t)
    PROVE  \E f \in Rows(t) :
              /\ f.run.lvl = "L01" /\ ids.pid = f.id
              /\ \A g \in Rows(t) : g.run.lvl = "L01" => g.run.dt <= f.run.dt
              /\ ids.id \in 1000 * f.id + 1 .. 1000 * f.id + 999
              /\ \A c \in Rows(t) : c.id # ids.id
<1> DEFINE F == {b.id : b \in {c \in Rows(t) : c.run.lvl = "L01"}}
           J == {b \in Rows(t) : b.run.lvl = "L02"}
           I == {b.id : b \in J}
           P == {b.pid : b \in J}
<1>1. PICK l \in Rows(t) : l.run.lvl = LstLvl(t) /\ \A c \in Rows(t) : c.run.dt <= l.run.dt
  BY NewestLog
<1>2. l.run.lvl \in {"L01", "L02"}
  BY RowType DEF Rows
<1>3. ASSUME NEW c \in Rows(t)
      PROVE  /\ c.run.lvl \in {"L01", "L02"} /\ c.run.dt \in Nat /\ c.id \in Nat /\ c.pid \in Nat
             /\ c.run.lvl = "L01" => c.id >= 11 /\ c.id <= 999
             /\ c.run.lvl = "L02" => c.id >= 1000 * c.pid + 1 /\ c.id <= 1000 * c.pid + 999
  <2>1. c.run.lvl \in {"L01", "L02"} /\ c.run.dt \in Nat /\ c.id \in Nat /\ c.pid \in Nat
    BY RowType DEF Rows
  <2>2. c.run.lvl = "L01" => c.id \in 11 .. 999
    BY FullInOrder
  <2>3. c.run.lvl = "L02" => c.id \in 1000 * c.pid + 1 .. 1000 * c.pid + 999
    BY IncInOrder
  <2> QED BY <2>1, <2>2, <2>3
<1>4. CASE l.run.lvl = "L01"
  <2>1. /\ \A g \in Rows(t) : g.run.lvl = "L01" => g.id <= l.id
        /\ \A c \in Rows(t) : c.run.lvl = "L02" => c.pid <= l.id /\ c.pid # l.id
    <3>1. \A c \in Rows(t) : c.run.dt <= l.run.dt /\ c.run.dt \in Nat
      BY <1>1, <1>3
    <3>2. /\ \A g \in Rows(t) : g.run.lvl = "L01" => g.id <= l.id
          /\ \A c \in Rows(t) : c.run.lvl = "L02" =>
                 c.pid <= l.id /\ (c.pid = l.id => c.run.dt > l.run.dt)
      BY <1>1, <1>4, NewestFull
    <3> QED BY <3>1, <3>2
  <2>2. F # {} /\ l.id \in F
    BY <1>4
  <2>3. Largest(F) = l.id
    <3>1. Largest(F) \in F /\ \A m \in F : m <= Largest(F)
      BY <2>2, FullIds
    <3>2. Largest(F) <= l.id /\ Largest(F) \in Nat
      BY <1>3, <2>1, <3>1
    <3>3. l.id <= Largest(F) /\ l.id \in Nat
      BY <1>3, <2>2, <3>1
    <3> QED BY <3>2, <3>3
  <2>4. ids = [id |-> l.id * 1000 + 1, pid |-> l.id]
    BY <1>1, <1>4, <2>2, <2>3 DEF findRunIncMaxId1
  <2>5. ASSUME NEW c \in Rows(t) PROVE c.id # l.id * 1000 + 1
    <3>1. CASE c.run.lvl = "L01"
      <4>1. c.id <= 999 /\ c.id \in Nat /\ l.id >= 11 /\ l.id \in Nat
        BY <1>3, <1>4, <3>1
      <4> QED BY <4>1
    <3>2. CASE c.run.lvl = "L02"
      <4>1. c.pid < l.id /\ c.pid \in Nat /\ l.id \in Nat
        BY <1>3, <2>1, <3>2
      <4>2. c.id <= 1000 * c.pid + 999 /\ c.id \in Nat
        BY <1>3, <3>2
      <4> QED BY <4>1, <4>2
    <3> QED BY <1>3, <3>1, <3>2
  <2>6. l.id \in Nat /\ l.id * 1000 + 1 \in 1000 * l.id + 1 .. 1000 * l.id + 999
    BY <1>3
  <2> QED BY <1>1, <1>4, <2>4, <2>5, <2>6
<1>5. CASE l.run.lvl = "L02"
  <2>1. PICK f \in Rows(t) : /\ f.run.lvl = "L01" /\ l.pid = f.id /\ f.run.dt < l.run.dt
                             /\ \A g \in Rows(t) : g.run.lvl = "L01" /\ g.run.dt < l.run.dt
                                   => g.run.dt <= f.run.dt
    BY <1>5, IncInOrder
  <2>2. ASSUME NEW g \in Rows(t), g.run.lvl = "L01" PROVE g.run.dt <= f.run.dt
    <3>1. g.run.dt # l.run.dt
      <4>1. g # l /\ g.run.t = l.run.t
        BY <1>5, <2>2 DEF Rows
      <4> QED BY <4>1, OneRowPerSecond DEF Rows
    <3>2. g.run.dt < l.run.dt
      BY <1>1, <1>3, <3>1
    <3> QED BY <2>1, <2>2, <3>2
  <2>3. \A c \in Rows(t) : c.run.lvl = "L02" => c.pid <= f.id
    BY <2>1, <2>2, NewestFull
  <2>4. l \in J /\ l.pid \in P /\ l.id \in I /\ J # {}
    BY <1>5
  <2>5. /\ Largest(I) \in I /\ \A m \in I : m <= Largest(I)
        /\ Largest(P) \in P /\ \A m \in P : m <= Largest(P)
    BY <2>4, IncIds
  <2>6. Largest(P) = f.id
    <3>1. Largest(P) <= f.id /\ Largest(P) \in Nat
      BY <1>3, <2>3, <2>5
    <3>2. f.id <= Largest(P) /\ f.id \in Nat
      BY <1>3, <2>1, <2>4, <2>5
    <3> QED BY <3>1, <3>2
  <2>7. PICK m \in Rows(t) : m.run.lvl = "L02" /\ m.id = Largest(I)
    BY <2>5
  <2>8. m.id \in 1000 * f.id + 1 .. 1000 * f.id + 998
    <3>1. m.pid <= f.id /\ m.id <= 1000 * m.pid + 999 /\ m.pid \in Nat /\ f.id \in Nat /\ m.id \in Nat
      BY <1>3, <2>3, <2>7
    <3>2. l.id <= m.id /\ l.id >= 1000 * f.id + 1 /\ l.id \in Nat
      BY <1>3, <1>5, <2>1, <2>4, <2>5, <2>7
    <3>3. m.pid = f.id
      BY <3>1, <3>2
    <3>4. m.id # 1000 * f.id + 999
      <4>1. m.id % 1000 # 999
        BY DEF Room
      <4> QED BY <3>1, <4>1, Remainder
    <3> QED BY <3>1, <3>2, <3>3, <3>4
  <2>9. ids = [id |-> m.id + 1, pid |-> f.id]
    BY <1>1, <1>5, <2>4, <2>6, <2>7 DEF findRunIncMaxId2
  <2>10. ASSUME NEW c \in Rows(t) PROVE c.id # m.id + 1
    <3>1. CASE c.run.lvl = "L01"
      <4>1. c.id <= 999 /\ c.id \in Nat /\ f.id >= 11 /\ f.id \in Nat
        BY <1>3, <2>1, <3>1
      <4>2. m.id > 1000 /\ m.id \in Nat
        BY <2>8, <4>1
      <4> QED BY <4>1, <4>2
    <3>2. CASE c.run.lvl = "L02"
      <4>1. c.id \in I
        BY <3>2
      <4>2. c.id <= m.id /\ c.id \in Nat /\ m.id \in Nat
        BY <1>3, <2>5, <2>7, <4>1
      <4> QED BY <4>2
    <3> QED BY <1>3, <3>1, <3>2
  <2>11. m.id + 1 \in 1000 * f.id + 1 .. 1000 * f.id + 999
    BY <1>3, <2>8
  <2> QED BY <2>1, <2>2, <2>9, <2>10, <2>11
<1> QED BY <1>2, <1>4, <1>5


\* A new row of a tree in order is placed, if its ids are those the queries give now.
LEMMA NextIsPlaced ==
    ASSUME CInv, Seconds, Numbers, NEW d, d.run \in Run, Kept(d), ~Unplaceable(d),
           InOrder(d.run.t), Room(d.run.t), \A c \in Rows(d.run.t) : c.run.dt < d.run.dt,
           NEW b, b = [id |-> NewIds(d).id, pid |-> NewIds(d).pid, run |-> d.run]
    PROVE  Placed(b, bakruntb \cup {b})
<1> DEFINE t == d.run.t
           B == bakruntb \cup {b}
<1>0. b.run = d.run /\ b.id = NewIds(d).id /\ b.pid = NewIds(d).pid
  OBVIOUS
<1>1. b.run.t = t /\ b.run.lvl \in {"L01", "L02"} /\ b.run.dt \in Nat
  BY <1>0, BoundAssumption DEF Run
<1>2. \A c \in B : c.run.t = t => c \in Rows(t) \/ c = b
  BY DEF Rows
<1>3. Rows(t) \subseteq B
  BY DEF Rows
<1>4. \A c \in Rows(t) : c.run.t = t
  BY DEF Rows
<1>5. CASE b.run.lvl = "L01"
  <2>1. b.id = findRunFllMaxId(t).id /\ b.pid = 1
    BY <1>0, <1>5 DEF NewIds, findRunFllMaxId
  <2>2. b.id \in 11 .. 999 /\ \A c \in Rows(t) : c.id # b.id /\ (c.run.lvl = "L01" => c.id < b.id)
    BY <2>1, NextFull
  <2>3. \A f \in Fulls(B, t) : f.run.dt < b.run.dt => f.id < b.id
    <3> SUFFICES ASSUME NEW f \in Fulls(B, t), f.run.dt < b.run.dt PROVE f.id < b.id
      OBVIOUS
    <3>1. f \in B /\ f.run.t = t /\ f.run.lvl = "L01"
      BY DEF Fulls
    <3>2. f # b
      BY <1>1
    <3> QED BY <1>2, <2>2, <3>1, <3>2
  <2>4. \A c \in B : c.run.t = b.run.t /\ c # b => c.id # b.id
    BY <1>1, <1>2, <2>2
  <2> HIDE DEF B
  <2>5. Placed(b, B)
    BY <1>1, <1>5, <2>1, <2>2, <2>3, <2>4 DEF Placed
  <2> QED BY <2>5 DEF B
<1>6. CASE b.run.lvl = "L02"
  <2>1. Logs(t) # {}
    BY <1>0, <1>6 DEF Unplaceable
  <2>2. NewIds(d) = IF LstLvl(t) = "L01" THEN findRunIncMaxId1(t) ELSE findRunIncMaxId2(t)
    BY <1>0, <1>6 DEF NewIds
  <2>3. PICK f \in Rows(t) :
           /\ f.run.lvl = "L01" /\ b.pid = f.id
           /\ \A g \in Rows(t) : g.run.lvl = "L01" => g.run.dt <= f.run.dt
           /\ b.id \in 1000 * f.id + 1 .. 1000 * f.id + 999
           /\ \A c \in Rows(t) : c.id # b.id
    <3>1. PICK ids : ids = NewIds(d)
      OBVIOUS
    <3>2. \E f \in Rows(t) :
             /\ f.run.lvl = "L01" /\ ids.pid = f.id
             /\ \A g \in Rows(t) : g.run.lvl = "L01" => g.run.dt <= f.run.dt
             /\ ids.id \in 1000 * f.id + 1 .. 1000 * f.id + 999
             /\ \A c \in Rows(t) : c.id # ids.id
      BY <2>1, <2>2, <3>1, NextInc
    <3> QED BY <1>0, <3>1, <3>2
  <2>4. \A g \in Fulls(B, t) : g \in Rows(t) /\ g.run.lvl = "L01"
    BY <1>2, <1>6 DEF Fulls
  <2>5. f \in Fulls(B, t) /\ f.run.dt < b.run.dt
    BY <1>0, <1>3, <1>4, <2>3 DEF Fulls
  <2>6. \A g \in Fulls(B, t) : g.run.dt <= f.run.dt
    BY <2>3, <2>4
  <2>7. \A c \in B : c.run.t = b.run.t /\ c # b => c.id # b.id
    BY <1>1, <1>2, <2>3
  <2>8. b.id \in 1000 * b.pid + 1 .. 1000 * b.pid + 999
    BY <2>3
  <2> HIDE DEF B
  <2>9. Placed(b, B)
    BY <1>1, <1>6, <2>3, <2>5, <2>6, <2>7, <2>8 DEF Placed
  <2> QED BY <2>9 DEF B
<1> QED BY <1>1, <1>5, <1>6

\* The commit of d: its row is new only if its ids were not overtaken.
LEMMA CommitPlaces ==
    ASSUME CInv, Seconds, Numbers, NEW d, d.run \in Run, NEW ids, Pending(d, ids),
           bakruntb' = bakruntb \cup NewRow(d, ids),
           NEW b \in bakruntb' \ bakruntb,
           InOrder(b.run.t), Room(b.run.t), b.run \notin overtaken
    PROVE  Placed(b, bakruntb') \/ \E c \in Rows(b.run.t) : c.run.dt >= b.run.dt
<1>1. b \in NewRow(d, ids)
  OBVIOUS
<1>2. Kept(d) /\ b = [id |-> ids.id, pid |-> ids.pid, run |-> d.run] /\ bakruntb' = bakruntb \cup {b}
  BY <1>1 DEF NewRow
<1>3. b.run = d.run
  BY <1>2
<1>4. ids = NewIds(d) /\ ~Unplaceable(d)
  BY <1>3 DEF Pending
<1>5. CASE \A c \in Rows(d.run.t) : c.run.dt < d.run.dt
  <2>1. Placed(b, bakruntb \cup {b})
    BY <1>2, <1>3, <1>4, <1>5, NextIsPlaced
  <2> QED BY <1>2, <2>1
<1>6. CASE ~\A c \in Rows(d.run.t) : c.run.dt < d.run.dt
  <2>1. PICK c \in Rows(d.run.t) : ~(c.run.dt < d.run.dt)
    BY <1>6
  <2>2. c.run.dt \in Nat /\ d.run.dt \in Nat
    BY RowType, BoundAssumption DEF Rows, Run
  <2> QED BY <1>3, <2>1, <2>2
<1> QED BY <1>5, <1>6

LEMMA TreeAlways == Spec => [](CInv /\ Seconds /\ Numbers)
<1>1. Init => CInv /\ Seconds /\ Numbers
  BY CInvInit, SecondsInit, NumbersInit
<1>2. (CInv /\ Seconds /\ Numbers) /\ [Next]_vars => (CInv /\ Seconds /\ Numbers)'
  BY CInvNext, SecondsNext, NumbersNext
<1> QED BY <1>1, <1>2, PTL DEF Spec

\* For any number of targets, windows and runs: the next run of a tree that is in
\* order is recorded at its place (SetupServiceImpl.insertBakRun), unless its
\* ids were overtaken by another commit or the digits of an id are used up.
THEOREM NewRowsArePlaced == Spec => NewRowIsPlaced
<1>1. CInv /\ Seconds /\ Numbers /\ [Next]_vars =>
        [\A b \in bakruntb' \ bakruntb :
          InOrder(b.run.t) /\ Room(b.run.t) /\ b.run \notin overtaken
             => \/ Placed(b, bakruntb')
                \/ \E c \in Rows(b.run.t) : c.run.dt >= b.run.dt]_vars
  <2> SUFFICES ASSUME CInv, Seconds, Numbers, [Next]_vars, NEW b \in bakruntb' \ bakruntb,
                      InOrder(b.run.t), Room(b.run.t), b.run \notin overtaken
               PROVE  Placed(b, bakruntb') \/ \E c \in Rows(b.run.t) : c.run.dt >= b.run.dt
    OBVIOUS
  <2>1. ASSUME NEW w \in Web, WebInsertBakRun(w)
        PROVE  Placed(b, bakruntb') \/ \E c \in Rows(b.run.t) : c.run.dt >= b.run.dt
    <3>1. PICK d \in web[w].cur : bakruntb' = bakruntb \cup NewRow(d, web[w].ids)
      BY <2>1 DEF WebInsertBakRun
    <3>2. Pending(d, web[w].ids) /\ d.run \in Run
      BY <2>1 DEF WebInsertBakRun, Numbers, CInv, Shape
    <3> QED BY <3>1, <3>2, CommitPlaces
  <2>2. CASE CronJob
    <3>1. PICK d \in shell.cur : bakruntb' = bakruntb \cup NewRow(d, shell.ids)
      BY <2>2 DEF CronJob
    <3>2. Pending(d, shell.ids) /\ d.run \in Run
      BY DEF Numbers, CInv, Shape, FromReports
    <3> QED BY <3>1, <3>2, CommitPlaces
  <2>3. CronJob \/ \E w \in Web : WebInsertBakRun(w)
    BY DEF Next, vars, tabVars, Start, EndScheduled, Tick, WebReadIds, WebInsertLog, WebFails, CronSelect,
           ShellStep, ReadGinianLog, CronJobFails, ListDelSchTarget, ListUnlisted, PurgeStep, DelBackup,
           DelUnlisted, ListSchPidTarget, DeleteIDRun, CascadeCommit, Restart, DeleteTgtSvr, DeleteSvr
  <2> QED BY <2>1, <2>2, <2>3
<1> QED BY <1>1, TreeAlways, PTL DEF Spec, NewRowIsPlaced

-----------------------------------------------------------------------------
(***************************************************************************)
(* What an expired full backup takes along.                                *)
(***************************************************************************)
LEMMA CascadeKept ==
    ASSUME CInv, Cascade, purge' = purge, named' \subseteq named, bakruntb \subseteq bakruntb',
           \A t \in Target : latest[t] <= latest'[t] /\ latest'[t] \in Nat,
           \A run \in disk' \ disk : run.dt > latest[run.t]
    PROVE  Cascade'
<1>1. \A b : Lasting(b) => Lasting(b)'
  BY DEF Lasting
<1>2. ASSUME NEW b, Expired(b) PROVE Expired(b)'
  <2>1. b.run \in Run /\ b.run.t \in Target /\ b.run.dt \in Nat /\ b.run.dt <= latest[b.run.t]
    BY <1>2, BoundAssumption DEF Expired, Run
  <2>2. latest[b.run.t] \in Nat
    BY <2>1 DEF CInv, Shape
  <2>3. b.run \notin disk' /\ b.run.dt <= latest'[b.run.t]
    BY <1>2, <2>1, <2>2 DEF Expired
  <2> QED BY <1>1, <1>2, <2>3 DEF Expired
<1>3. \A c, b : Below(c, b) => Below(c, b)'
  BY DEF Below, Numbered
<1>4. (\A b \in purge.rows : Lasting(b) /\ Numbered(b.run.lvl, b))'
  BY <1>1 DEF Cascade, Numbered
<1>5. (purge.stage = "expired" => \A b \in purge.kids : Expired(b))'
  BY <1>2 DEF Cascade
<1>6. (purge.stage = "cascade" =>
          /\ \E b : Expired(b) /\ \A c \in purge.kids : Below(c, b)
          /\ \A g \in purge.gone : g[2] >= 1000)'
  <2> SUFFICES ASSUME purge.stage = "cascade"
               PROVE  /\ (\E b : Expired(b) /\ \A c \in purge.kids : Below(c, b))'
                      /\ (\A g \in purge.gone : g[2] >= 1000)'
    OBVIOUS
  <2>1. PICK b : Expired(b) /\ \A c \in purge.kids : Below(c, b)
    BY DEF Cascade
  <2>2. Expired(b)' /\ (\A c \in purge.kids : Below(c, b))'
    BY <1>2, <1>3, <2>1
  <2> QED BY <2>2 DEF Cascade
<1> QED BY <1>4, <1>5, <1>6 DEF Cascade

\* The pass goes on to the next row, or is over.
LEMMA CascadeOn ==
    ASSUME Cascade, NEW R, R \subseteq purge.rows,
           purge' = NextPurge(R) \/ purge' = NoPurge,
           \A b \in R : Lasting(b) => Lasting(b)'
    PROVE  Cascade'
<1>1. purge'.stage \in {"idle", "purge"} /\ purge'.rows \subseteq R
  BY DEF NextPurge, NoPurge, Pass
<1> QED BY <1>1 DEF Cascade, Numbered

LEMMA CascadeDelBackup == ASSUME CInv, Seconds, Cascade, DelBackup PROVE Cascade'
<1>1. PICK b \in purge.rows :
         \/ /\ bakruntb' = {c \in bakruntb : ~(c.run.t = b.run.t /\ c.run.dt = b.run.dt)}
            /\ purge' = NextPurge(purge.rows \ {b})
         \/ /\ bakruntb' = bakruntb
            /\ purge' = NextPurge(purge.rows \ {b}) \/ purge' = NoPurge
         \/ /\ bakruntb' = bakruntb /\ b.run.lvl # "L02" /\ disk' = disk \ {b.run}
            /\ purge' = Pass("expired", purge.rows \ {b}, {b}, {})
  BY DEF DelBackup
<1>2. latest' = latest /\ named' = named
  BY DEF DelBackup, regVars
<1>3. CASE /\ bakruntb' = {c \in bakruntb : ~(c.run.t = b.run.t /\ c.run.dt = b.run.dt)}
           /\ purge' = NextPurge(purge.rows \ {b})
  <2>1. ASSUME NEW e \in purge.rows \ {b}, Lasting(e) PROVE Lasting(e)'
    <3>1. e.run # b.run
      BY DEF Seconds
    <3>2. ~(e.run.t = b.run.t /\ e.run.dt = b.run.dt)
      BY <3>1 DEF Seconds, Everywhere, RunsOf
    <3> QED BY <1>2, <1>3, <2>1, <3>2 DEF Lasting
  <2> QED BY <1>3, <2>1, CascadeOn
<1>4. CASE bakruntb' = bakruntb /\ (purge' = NextPurge(purge.rows \ {b}) \/ purge' = NoPurge)
  BY <1>2, <1>4, CascadeOn DEF Lasting
<1>5. CASE /\ bakruntb' = bakruntb /\ b.run.lvl # "L02" /\ disk' = disk \ {b.run}
           /\ purge' = Pass("expired", purge.rows \ {b}, {b}, {})
  <2>1. b.run \in Run /\ b.run.dt <= latest[b.run.t]
    BY DEF Seconds, Everywhere, RunsOf
  <2>2. b.run.lvl = "L01"
    BY <1>5, <2>1 DEF Run
  <2>3. Lasting(b)' /\ b.id \in Nat /\ b.id >= 11
    BY <1>2, <1>5, <2>2 DEF Cascade, Lasting, Numbered
  <2>4. Expired(b)'
    BY <1>2, <1>5, <2>1, <2>2, <2>3 DEF Expired
  <2>5. purge'.stage = "expired" /\ purge'.kids = {b} /\ purge'.rows \subseteq purge.rows
    BY <1>5 DEF Pass
  <2>6. \A e \in purge.rows : Lasting(e)' /\ Numbered(e.run.lvl, e)
    BY <1>2, <1>5 DEF Cascade, Lasting
  <2> QED BY <2>4, <2>5, <2>6 DEF Cascade, Numbered
<1> QED BY <1>1, <1>3, <1>4, <1>5

LEMMA CascadeListSchPid == ASSUME CInv, Numbers, Cascade, ListSchPidTarget PROVE Cascade'
<1>1. PICK b \in purge.kids : purge' = IF Kids(b) = {} THEN NextPurge(purge.rows)
                                       ELSE IF b.run.t \notin named THEN NoPurge
                                       ELSE Pass("cascade", purge.rows, Kids(b), {})
  BY DEF ListSchPidTarget
<1>2. UNCHANGED <<bakruntb, disk, latest, named>> /\ purge.stage = "expired"
  BY DEF ListSchPidTarget, tabVars, diskVars, regVars
<1>3. \A e : (Lasting(e) => Lasting(e)') /\ (Expired(e) => Expired(e)')
  BY <1>2 DEF Lasting, Expired
<1>4. CASE Kids(b) = {}
  <2>1. purge' = NextPurge(purge.rows)
    BY <1>1, <1>4
  <2> QED BY <1>3, <2>1, CascadeOn
<1>5. CASE Kids(b) # {} /\ b.run.t \notin named
  <2>1. purge' = NoPurge
    BY <1>1, <1>5
  <2> QED BY <1>3, <2>1, CascadeOn
<1>6. CASE Kids(b) # {} /\ b.run.t \in named
  <2>1. /\ purge'.stage = "cascade" /\ purge'.rows = purge.rows
        /\ purge'.kids = Kids(b) /\ purge'.gone = {}
    BY <1>1, <1>6 DEF Pass
  <2>2. Expired(b)'
    BY <1>2, <1>3 DEF Cascade
  <2>3. \A c \in Kids(b) : Below(c, b)'
    BY <1>2 DEF Kids, Below, Rows, Numbers, Numbered
  <2>4. (\E e : Expired(e) /\ \A c \in purge.kids : Below(c, e))'
    BY <2>1, <2>2, <2>3
  <2>5. (\A e \in purge.rows : Lasting(e) /\ Numbered(e.run.lvl, e))'
    BY <1>3, <2>1 DEF Cascade, Numbered
  <2> QED BY <2>1, <2>4, <2>5 DEF Cascade
<1> QED BY <1>4, <1>5, <1>6

LEMMA CascadeDeleteIDRun == ASSUME CInv, Numbers, Cascade, DeleteIDRun PROVE Cascade'
<1>1. PICK c \in purge.kids :
         /\ purge' = NoPurge
            \/ purge' = Pass("cascade", purge.rows, purge.kids \ {c}, purge.gone \cup {<<c.run.t, c.id>>})
         /\ disk' \subseteq disk
  BY DEF DeleteIDRun
<1>2. UNCHANGED <<bakruntb, latest, named>> /\ purge.stage = "cascade"
  BY DEF DeleteIDRun, tabVars, regVars
<1>3. CASE purge' = NoPurge
  BY <1>3 DEF Cascade, NoPurge, Pass
<1>4. CASE purge' = Pass("cascade", purge.rows, purge.kids \ {c}, purge.gone \cup {<<c.run.t, c.id>>})
  <2>1. /\ purge'.stage = "cascade" /\ purge'.rows = purge.rows
        /\ purge'.kids = purge.kids \ {c} /\ purge'.gone = purge.gone \cup {<<c.run.t, c.id>>}
    BY <1>4 DEF Pass
  <2>2. PICK b : Expired(b) /\ \A e \in purge.kids : Below(e, b)
    BY <1>2 DEF Cascade
  <2>3. Expired(b)' /\ \A e \in purge.kids : Below(e, b)'
    BY <1>1, <1>2, <2>2 DEF Expired, Lasting, Below, Numbered
  <2>4. c.id >= 1000
    <3>1. c.pid = b.id /\ b.id \in Nat /\ b.id >= 11 /\ Numbered("L02", c)
      BY <2>2 DEF Expired, Below
    <3> QED BY <3>1 DEF Numbered
  <2>5. (\E e : Expired(e) /\ \A x \in purge.kids : Below(x, e))'
    BY <2>1, <2>3
  <2>6. \A g \in purge'.gone : g[2] >= 1000
    BY <1>2, <2>1, <2>4 DEF Cascade
  <2>7. (\A e \in purge.rows : Lasting(e) /\ Numbered(e.run.lvl, e))'
    BY <1>2, <2>1 DEF Cascade, Lasting, Numbered
  <2> QED BY <2>1, <2>5, <2>6, <2>7 DEF Cascade
<1> QED BY <1>1, <1>3, <1>4

LEMMA CascadeCommits == ASSUME CInv, Cascade, CascadeCommit PROVE Cascade'
<1>1. /\ bakruntb' = {c \in bakruntb : <<c.run.t, c.id>> \notin purge.gone}
      /\ purge' = NextPurge(purge.rows) /\ purge.stage = "cascade" /\ named' = named
  BY DEF CascadeCommit, diskVars, regVars
<1>2. ASSUME NEW b \in purge.rows, Lasting(b) PROVE Lasting(b)'
  <2> SUFFICES ASSUME b.run.lvl = "L01", b.id < 1000, b.run.t \in named PROVE b \in bakruntb'
    BY <1>1 DEF Lasting
  <2>1. b.id \in Nat /\ b \in bakruntb
    BY <1>2 DEF Cascade, Numbered, Lasting
  <2>2. <<b.run.t, b.id>> \notin purge.gone
    BY <1>1, <2>1 DEF Cascade
  <2> QED BY <1>1, <2>1, <2>2
<1> QED BY <1>1, <1>2, CascadeOn

\* The deletion of a server: its rows are no longer asked for.  It waits for the rows
\* that a cascade has deleted.
LEMMA CascadeDeleteTgt == ASSUME CInv, Cascade, NEW t \in Target, DeleteTgtSvr(t) PROVE Cascade'
<1>1. /\ named' = named \ {t} /\ bakruntb' = bakruntb \ Rows(t) /\ disk' \subseteq disk
      /\ purge' = purge /\ latest' = latest
  BY DEF DeleteTgtSvr
<1>2. \A b : Lasting(b) => Lasting(b)'
  BY <1>1 DEF Lasting, Rows
<1>3. \A b : Expired(b) => Expired(b)'
  BY <1>1, <1>2 DEF Expired
<1>4. (\A b \in purge.rows : Lasting(b) /\ Numbered(b.run.lvl, b))'
  BY <1>1, <1>2 DEF Cascade, Numbered
<1>5. (purge.stage = "expired" => \A b \in purge.kids : Expired(b))'
  BY <1>1, <1>3 DEF Cascade
<1>6. (purge.stage = "cascade" =>
          /\ \E b : Expired(b) /\ \A c \in purge.kids : Below(c, b)
          /\ \A g \in purge.gone : g[2] >= 1000)'
  <2>1. \A c, b : Below(c, b) => Below(c, b)'
    BY <1>1 DEF Below, Rows, Numbered
  <2> SUFFICES ASSUME purge.stage = "cascade"
               PROVE  /\ (\E b : Expired(b) /\ \A c \in purge.kids : Below(c, b))'
                      /\ (\A g \in purge.gone : g[2] >= 1000)'
    BY <1>1
  <2>2. PICK b : Expired(b) /\ \A c \in purge.kids : Below(c, b)
    BY DEF Cascade
  <2>3. Expired(b)' /\ (\A c \in purge.kids : Below(c, b))'
    BY <1>1, <1>3, <2>1, <2>2
  <2> QED BY <1>1, <2>3 DEF Cascade
<1> QED BY <1>4, <1>5, <1>6 DEF Cascade

LEMMA CascadeNext == CInv /\ Seconds /\ Numbers /\ Cascade /\ [Next]_vars => Cascade'
<1> SUFFICES ASSUME CInv, Seconds, Numbers, Cascade, [Next]_vars PROVE Cascade'
  OBVIOUS
<1>0. \A t \in Target : latest[t] \in Nat /\ latest[t] <= latest[t]
  BY DEF CInv, Shape
<1>1. CASE Start
  <2>1. PICK t \in Target, l \in {"L01", "L02"}, y \in {"BT01", "BT02"} :
           /\ latest[t] < clock
           /\ latest' = [latest EXCEPT ![t] = clock]
           /\ disk' = disk \cup {[t |-> t, dt |-> clock, lvl |-> l, typ |-> y]}
    BY <1>1 DEF Start
  <2>2. \A x \in Target : latest[x] <= latest'[x] /\ latest'[x] \in Nat
    BY <2>1, BoundAssumption DEF CInv, Shape
  <2>3. \A run \in disk' \ disk : run.dt > latest[run.t]
    BY <2>1, BoundAssumption DEF CInv, Shape
  <2>4. purge' = purge /\ bakruntb' = bakruntb /\ named' = named
    BY <1>1 DEF Start, tabVars, regVars
  <2> QED BY <2>2, <2>3, <2>4, CascadeKept
<1>2. CASE EndScheduled \/ Tick \/ CronSelect \/ ShellStep \/ UNCHANGED vars
  <2>1. /\ purge' = purge /\ bakruntb \subseteq bakruntb' /\ latest' = latest /\ disk' \subseteq disk
        /\ named' = named
    BY <1>2 DEF EndScheduled, Tick, CronSelect, ShellStep, ReadGinianLog, CronJob, CronJobFails,
         vars, diskVars, regVars, tabVars
  <2> QED BY <1>0, <2>1, CascadeKept
<1>3. ASSUME NEW w \in Web, WebReadIds(w) \/ WebInsertBakRun(w) \/ WebInsertLog(w) \/ WebFails(w)
      PROVE  Cascade'
  <2>1. purge' = purge /\ bakruntb \subseteq bakruntb' /\ latest' = latest /\ disk' = disk /\ named' = named
    BY <1>3 DEF WebReadIds, WebInsertBakRun, WebInsertLog, WebFails, diskVars, regVars, tabVars
  <2> QED BY <1>0, <2>1, CascadeKept
<1>4. CASE ListDelSchTarget
  <2>1. PICK R \in SUBSET bakruntb : purge' = NextPurge(R) /\ bakruntb' = bakruntb
    BY <1>4 DEF ListDelSchTarget, tabVars
  <2>2. purge'.stage \in {"idle", "purge"} /\ purge'.rows \subseteq bakruntb
    BY <2>1 DEF NextPurge, NoPurge, Pass
  <2> QED BY <2>1, <2>2 DEF Cascade, Lasting, Numbers, Numbered
<1>5. CASE Restart
  BY <1>5 DEF Restart, Cascade, NoPurge, Pass
<1>6. CASE ListUnlisted \/ DelUnlisted
  <2>1. CASE purge' = purge
    <3>1. bakruntb' = bakruntb /\ latest' = latest /\ disk' \subseteq disk /\ named' = named
      BY <1>6 DEF ListUnlisted, DelUnlisted, diskVars, regVars, tabVars
    <3> QED BY <1>0, <2>1, <3>1, CascadeKept
  <2>2. CASE purge'.stage \in {"idle", "unlisted"} /\ purge'.rows = {}
    BY <2>2 DEF Cascade
  <2> QED BY <1>6, <2>1, <2>2 DEF ListUnlisted, DelUnlisted, NoPurge, Pass
<1>7. ASSUME NEW t \in Target, DeleteTgtSvr(t) PROVE Cascade'
  BY <1>7, CascadeDeleteTgt
<1>8. CASE \E t \in Target : DeleteSvr(t)
  <2>1. purge' = purge /\ bakruntb' = bakruntb /\ latest' = latest /\ disk' = disk /\ named' = named
    BY <1>8 DEF DeleteSvr, tabVars
  <2> QED BY <1>0, <2>1, CascadeKept
<1> QED BY <1>1, <1>2, <1>3, <1>4, <1>5, <1>6, <1>7, <1>8, CascadeDelBackup, CascadeListSchPid, CascadeDeleteIDRun,
           CascadeCommits DEF Next, PurgeStep

LEMMA CascadeInit == Init => Cascade
BY DEF Init, Cascade, NoPurge, Pass

\* The full backup below which a run of the cascade stands is the expired one.
LEMMA SparesOthers ==
    ASSUME CInv, Seconds, Numbers, Cascade, purge.stage = "cascade", NEW c \in purge.kids, c.run.t \in named,
           \A b \in Rows(c.run.t) : Placed(b, bakruntb),
           NEW f \in Fulls(bakruntb, c.run.t), f.run \in disk, f.run.dt < c.run.dt
    PROVE  \E g \in Fulls(bakruntb, c.run.t) : f.run.dt < g.run.dt /\ g.run.dt < c.run.dt
<1> DEFINE t == c.run.t
<1>1. PICK b : Expired(b) /\ Below(c, b)
  BY DEF Cascade
<1>2. c \in Rows(t) /\ c.run.lvl = "L02" /\ c.pid = b.id /\ b.run.t = t
  BY <1>1 DEF Below, Rows
<1>3. PICK p \in Fulls(bakruntb, t) :
         /\ c.pid = p.id /\ p.run.dt < c.run.dt
         /\ \A g \in Fulls(bakruntb, t) : g.run.dt < c.run.dt => g.run.dt <= p.run.dt
  BY <1>2 DEF Placed
<1>4. p \in Rows(t) /\ p.run.lvl = "L01" /\ p \in bakruntb /\ p.run.t = t
  BY DEF Fulls, Rows
<1>5. p.id \in 11 .. 999
  BY <1>4 DEF Placed
<1>6. b \in bakruntb
  BY <1>1, <1>2, <1>3, <1>5 DEF Expired, Lasting
<1>7. b = p
  <2>1. \A x \in bakruntb : x.run.t = p.run.t /\ x # p => x.id # p.id
    <3>1. Placed(p, bakruntb)
      BY <1>4
    <3> QED BY <3>1 DEF Placed
  <2>2. b.id = p.id
    BY <1>2, <1>3
  <2>3. b.run.t = p.run.t
    BY <1>2, <1>4
  <2> QED BY <1>6, <2>1, <2>2, <2>3
<1>8. f \in bakruntb /\ f.run.t = t /\ f # p
  BY <1>1, <1>7 DEF Fulls, Expired
<1>9. f.run.dt <= p.run.dt /\ f.run.dt # p.run.dt /\ f.run.dt \in Nat /\ p.run.dt \in Nat
  BY <1>3, <1>4, <1>8, OneRowPerSecond, RowType
<1> QED BY <1>3, <1>9

\* For any number of targets and runs, and whatever fails: while the tree of a target that
\* is registered is in order, the expiry of a full backup deletes no run that builds on
\* another full backup whose directory is there (ScheduleServiceImpl.listSchDtTarget).
THEOREM CascadeIsBounded == Spec => CascadeSparesOthers
<1>1. CInv /\ Seconds /\ Numbers /\ Cascade /\ [Next]_vars =>
        [purge.stage = "cascade" =>
          \A run \in disk \ disk' :
             run.t \in named' /\ (\A b \in Rows(run.t) : Placed(b, bakruntb)) =>
                 \A f \in Fulls(bakruntb, run.t) :
                    f.run \in disk /\ f.run.dt < run.dt =>
                       \E g \in Fulls(bakruntb, run.t) : f.run.dt < g.run.dt /\ g.run.dt < run.dt]_vars
  <2> SUFFICES ASSUME CInv, Seconds, Numbers, Cascade, [Next]_vars, purge.stage = "cascade",
                      NEW run \in disk \ disk', run.t \in named',
                      \A b \in Rows(run.t) : Placed(b, bakruntb),
                      NEW f \in Fulls(bakruntb, run.t), f.run \in disk, f.run.dt < run.dt
               PROVE  \E g \in Fulls(bakruntb, run.t) : f.run.dt < g.run.dt /\ g.run.dt < run.dt
    OBVIOUS
  <2>1. DeleteIDRun
    <3>1. ~DelBackup /\ ~DelUnlisted
      BY DEF DelBackup, DelUnlisted
    <3>2. ~\E t \in Target : DeleteTgtSvr(t)
      BY DEF DeleteTgtSvr
    <3>3. disk \subseteq disk' \/ DelBackup \/ DelUnlisted \/ DeleteIDRun \/ \E t \in Target : DeleteTgtSvr(t)
      BY DEF Next, vars, diskVars, Start, EndScheduled, Tick, WebReadIds, WebInsertBakRun, WebInsertLog,
             WebFails, CronSelect, ShellStep, ReadGinianLog, CronJob, CronJobFails, ListDelSchTarget,
             ListUnlisted, PurgeStep, ListSchPidTarget, CascadeCommit, Restart, DeleteSvr
    <3> QED BY <3>1, <3>2, <3>3
  <2>2. PICK c \in purge.kids : c.run = run
    BY <2>1 DEF DeleteIDRun
  <2>3. c.run.t \in named
    BY <2>1, <2>2 DEF DeleteIDRun, regVars
  <2> QED BY <2>2, <2>3, SparesOthers
<1>2. Init => Cascade
  BY CascadeInit
<1> QED BY <1>1, <1>2, CascadeNext, TreeAlways, PTL DEF Spec, CascadeSparesOthers

=============================================================================
