---------------------------- MODULE RunCatalogue ----------------------------
(***************************************************************************)
(* The catalogue of restore points.  Three actors write BAKRUNTB:          *)
(*   - ClientTask.clientTaskShell, every minute: takes the rows that the   *)
(*     backup scripts of the crontab left in SCDIPETB and records each one *)
(*     in one transaction (ScheduleServiceImpl.cronJob);                   *)
(*   - SetupController.bak_run_endChk, for an immediate run: two           *)
(*     transactions, insertBakRun and insertLog;                           *)
(*   - ClientTask.clientTaskBackup, every hour: deletes the directories    *)
(*     whose retention period is over, the incremental backups below an    *)
(*     expired full one, and the rows whose directory is gone.             *)
(* The two tasks share one thread.  The rows form a tree by run_id and     *)
(* run_pid, which insertBakRun computes from MAX(...) queries.             *)
(* Meanwhile a server can be deleted (SetupServiceImpl.deleteTgtSvr,       *)
(* deleteMngSvr): its rows go, but not those in SCDIPETB nor those a       *)
(* request or a pass under way still inserts.                              *)
(***************************************************************************)
EXTENDS Naturals, FiniteSets

CONSTANTS
    Target,     \* database servers
    Web,        \* browser windows that end an immediate run
    MaxClock,   \* bound: seconds in which runs start
    MaxFault    \* bound: SSH calls and transactions that fail, restarts

ASSUME BoundAssumption == MaxClock \in Nat \ {0} /\ MaxFault \in Nat

VARIABLES
    clock,       \* the current second
    latest,      \* the second of the newest run of each target
    running,     \* runs under way
    disk,        \* runs whose directory exists
    named,       \* targets whose row is there (bms_nam and bts_nam can be looked up)
    served,      \* targets whose management server is in use (findSvrMap finds it)
    scdipetb,    \* SCDIPETB: finished scheduled runs that wait to be recorded
    wrklogtb,    \* WRKLOGTB: the work log
    bakruntb,    \* BAKRUNTB: the catalogue
    shell,       \* a pass of clientTaskShell
    purge,       \* a pass of clientTaskBackup
    web,         \* the requests that record an immediate run
    faults,
    reported,    \* history: rows that entered SCDIPETB
    overtaken    \* history: runs whose ids were read before another commit on their target

tabVars  == <<scdipetb, wrklogtb, bakruntb>>
regVars  == <<named, served>>
diskVars == <<clock, latest, running, disk, regVars>>
hist     == <<reported, overtaken>>
vars     == <<diskVars, tabVars, shell, purge, web, faults, hist>>

Run  == [t : Target, dt : 1 .. MaxClock, lvl : {"L01", "L02"}, typ : {"BT01", "BT02"}]
Done == [run : Run, suc : {"S01", "S02"}]          \* a row of SCDIPETB or WRKLOGTB
Row  == [id : Nat, pid : Nat, run : Run]           \* a row of BAKRUNTB

NoId    == [id |-> 0, pid |-> 0]
NoShell == [stage |-> "idle", rows |-> {}, cur |-> {}, ids |-> NoId]
Pass(g, rows, kids, gone) == [stage |-> g, rows |-> rows, kids |-> kids, gone |-> gone]
NoPurge == Pass("idle", {}, {}, {})
NoWeb   == [stage |-> "over", cur |-> {}, ids |-> NoId]
ThreadFree == shell = NoShell /\ purge = NoPurge     \* @Scheduled: one thread
Fault == faults < MaxFault /\ faults' = faults + 1
Kept(d)  == d.suc = "S01" /\ d.run.typ = "BT01"     \* these become restore points
Rows(t)  == {b \in bakruntb : b.run.t = t}
Logs(t)  == {l \in wrklogtb : l.run.t = t /\ l.suc = "S01"}
Largest(S) == CHOOSE n \in S : \A m \in S : m <= n

-----------------------------------------------------------------------------
(***************************************************************************)
(* insertBakRun: the ids of the new row.  A MAX over no row is null; a row *)
(* of nulls is no map, and both ids stay 0.                                *)
(***************************************************************************)
findRunFllMaxId(t) ==
    LET S == {b.id : b \in {c \in Rows(t) : c.pid = 1}}
    IN  [id |-> (IF S = {} THEN 10 ELSE Largest(S)) + 1, pid |-> 1]

FullCounted(t) ==                         \* mutant: MAX(run_id) without '000'
    LET S == {b.id : b \in {c \in Rows(t) : c.run.lvl = "L01"}}
    IN  IF S = {} THEN NoId ELSE [id |-> Largest(S) + 1, pid |-> Largest(S)]
findRunIncMaxId1(t) ==
    LET S == {b.id : b \in {c \in Rows(t) : c.run.lvl = "L01"}}
    IN  IF S = {} THEN NoId ELSE [id |-> Largest(S) * 1000 + 1, pid |-> Largest(S)]

findRunIncMaxId2(t) ==
    LET S == {b \in Rows(t) : b.run.lvl = "L02"}
    IN  IF S = {} THEN NoId
        ELSE [id |-> Largest({b.id : b \in S}) + 1, pid |-> Largest({b.pid : b \in S})]

\* findLstLog: the newest successful run in the work log, of any type.
LstLvl(t) == (CHOOSE l \in Logs(t) : \A k \in Logs(t) : k.run.dt <= l.run.dt).run.lvl

\* An incremental run of a target without a successful log is a NullPointerException.
Unplaceable(d) == Kept(d) /\ d.run.lvl = "L02" /\ Logs(d.run.t) = {}
NewIds(d) ==
    IF ~Kept(d) THEN NoId
    ELSE IF d.run.lvl = "L01" THEN findRunFllMaxId(d.run.t)
    ELSE IF LstLvl(d.run.t) = "L01" THEN findRunIncMaxId1(d.run.t)
    ELSE findRunIncMaxId2(d.run.t)
NewRow(d, ids) == IF Kept(d) THEN {[id |-> ids.id, pid |-> ids.pid, run |-> d.run]} ELSE {}

\* The other insertions that are open on the targets of a commit work with old ids
\* from now on: own is the row that is committed, if the commit inserts one.
Open == shell.cur \cup UNION {web[w].cur : w \in {v \in Web : web[v].stage = "ids"}}
Overtake(T, own) == overtaken' = overtaken \cup {o.run : o \in {p \in Open \ own : p.run.t \in T}}

-----------------------------------------------------------------------------
(***************************************************************************)
(* External: backups start and end.  A run of the crontab ends with a row  *)
(* in SCDIPETB, an immediate one with a poll of its browser.               *)
(***************************************************************************)
Start ==
    /\ \E t \in Target, l \in {"L01", "L02"}, y \in {"BT01", "BT02"} :
          LET run == [t |-> t, dt |-> clock, lvl |-> l, typ |-> y] IN
          /\ latest[t] < clock                \* else it would share a directory
          /\ latest' = [latest EXCEPT ![t] = clock]
          /\ running' = running \cup {run}
          /\ disk' = disk \cup {run}
    /\ UNCHANGED <<clock, regVars, tabVars, shell, purge, web, faults, hist>>

EndScheduled ==
    /\ \E run \in running, s \in {"S01", "S02"} :
          /\ running' = running \ {run}
          /\ scdipetb' = scdipetb \cup {[run |-> run, suc |-> s]}
          /\ reported' = reported \cup {[run |-> run, suc |-> s]}
    /\ UNCHANGED <<clock, regVars, latest, disk, wrklogtb, bakruntb, shell, purge, web, faults, overtaken>>

Tick ==
    /\ clock < MaxClock
    /\ clock' = clock + 1
    /\ UNCHANGED <<regVars, latest, running, disk, tabVars, shell, purge, web, faults, hist>>

\* A server is deleted: its rows go from BAKRUNTB and WRKLOGTB, and its directories if
\* the connection holds, while SCDIPETB keeps what waits and the runs under way go on.
\* The deletion waits for rows that a cascade has deleted and not committed.  (That
\* an id is given out again is in Registry.)
DeleteTgtSvr(t) ==
    /\ t \in named
    /\ \A g \in purge.gone : g[1] # t
    /\ named' = named \ {t}
    /\ bakruntb' = bakruntb \ Rows(t)
    /\ wrklogtb' = {l \in wrklogtb : l.run.t # t}
    /\ disk' = {run \in disk : run.t # t} \/ UNCHANGED disk
    /\ Overtake({t}, {})
    /\ UNCHANGED <<clock, latest, running, served, scdipetb, shell, purge, web, faults, reported>>

\* Its management server is taken out of use (ManageController.deleteSvr).
DeleteSvr(t) ==
    /\ t \in served
    /\ served' = served \ {t}
    /\ UNCHANGED <<clock, latest, running, disk, named, tabVars, shell, purge, web, faults, hist>>

-----------------------------------------------------------------------------
(***************************************************************************)
(* bak_run_endChk of an immediate run.  It found the end in the log of the *)
(* directory; its own look-ups need no name.                               *)
(***************************************************************************)
WebReadIds(w) ==
    /\ web[w].stage = "idle"
    /\ \E run \in running \cap disk, s \in {"S01", "S02"} :
          LET d == [run |-> run, suc |-> s] IN
          /\ running' = running \ {run}
          /\ web' = [web EXCEPT ![w] = IF Unplaceable(d) THEN NoWeb
                                       ELSE [stage |-> "ids", cur |-> {d}, ids |-> NewIds(d)]]
    /\ UNCHANGED <<clock, regVars, latest, disk, tabVars, shell, purge, faults, hist>>

WebInsertBakRun(w) ==
    /\ web[w].stage = "ids"
    /\ \E d \in web[w].cur :
          /\ bakruntb' = bakruntb \cup NewRow(d, web[w].ids)
          /\ Overtake({d.run.t}, {d})
    /\ web' = [web EXCEPT ![w].stage = "log"]
    /\ UNCHANGED <<diskVars, scdipetb, wrklogtb, shell, purge, faults, reported>>

WebInsertLog(w) ==
    /\ web[w].stage = "log"
    /\ \E d \in web[w].cur : wrklogtb' = wrklogtb \cup {d} /\ Overtake({d.run.t}, {d})
    /\ web' = [web EXCEPT ![w] = NoWeb]
    /\ UNCHANGED <<diskVars, scdipetb, bakruntb, shell, purge, faults, reported>>

WebFails(w) ==
    /\ web[w].stage \in {"ids", "log"}
    /\ Fault
    /\ web' = [web EXCEPT ![w] = NoWeb]
    /\ UNCHANGED <<diskVars, tabVars, shell, purge, hist>>

-----------------------------------------------------------------------------
(***************************************************************************)
(* clientTaskShell.  An exception ends the pass and rolls back the         *)
(* transaction of the row being recorded.                                  *)
(***************************************************************************)
NextShell(rows) == IF rows = {} THEN NoShell ELSE [NoShell EXCEPT !.stage = "shell", !.rows = rows]

CronSelect ==
    /\ ThreadFree /\ scdipetb # {}
    /\ shell' = NextShell(scdipetb)
    /\ UNCHANGED <<diskVars, tabVars, purge, web, faults, hist>>

\* cronDelete names only wrk_dt: the rows other targets have with that second go too.
cronDelete(d) == scdipetb' = {e \in scdipetb : e.run.dt # d.run.dt}

\* The names and the management server are looked up for each row; when one of them is
\* missing the row is passed over, and is there again in the next pass.
Reachable(t) == t \in named \cap served
\* cat ginian.log.  Lines: cronJob starts and reads the ids.  No lines, because the
\* directory is gone or the connection broke: the row is taken for garbage.  No
\* authentication: the pass ends.
ReadGinianLog ==
    /\ shell.stage = "shell"
    /\ \E d \in shell.rows :
          \/ /\ ~Reachable(d.run.t)
             /\ shell' = NextShell(shell.rows \ {d})
             /\ UNCHANGED <<scdipetb, faults>>
          \/ /\ Reachable(d.run.t) /\ d.run \in disk /\ ~Unplaceable(d)
             /\ shell' = [stage |-> "job", rows |-> shell.rows \ {d}, cur |-> {d}, ids |-> NewIds(d)]
             /\ UNCHANGED <<scdipetb, faults>>
          \/ /\ Reachable(d.run.t) /\ d.run \in disk /\ Unplaceable(d)
             /\ shell' = NoShell
             /\ UNCHANGED <<scdipetb, faults>>
          \/ /\ Reachable(d.run.t)
             /\ d.run \in disk => Fault
             /\ d.run \notin disk => UNCHANGED faults
             /\ cronDelete(d)
             /\ shell' = NextShell(shell.rows \ {d})
          \/ /\ Reachable(d.run.t) /\ Fault
             /\ shell' = NoShell
             /\ UNCHANGED scdipetb
    /\ UNCHANGED <<diskVars, wrklogtb, bakruntb, purge, web, hist>>

\* The commit of cronJob: insertBakRun, insertLog, cronDelete, all or nothing.
CronJobKeepsRow ==                        \* mutant: cronDelete is forgotten
    /\ shell.stage = "job"
    /\ \E d \in shell.cur :
          /\ bakruntb' = bakruntb \cup NewRow(d, shell.ids)
          /\ wrklogtb' = wrklogtb \cup {d}
          /\ Overtake({d.run.t}, {d})
    /\ shell' = NextShell(shell.rows)
    /\ UNCHANGED <<diskVars, scdipetb, purge, web, faults, reported>>
CronJobDeletesFirst ==                    \* mutant: cronDelete commits before the insertions
    /\ shell.stage = "job"
    /\ \E d \in shell.cur :
          /\ cronDelete(d)
          /\ \/ /\ bakruntb' = bakruntb \cup NewRow(d, shell.ids)
                /\ wrklogtb' = wrklogtb \cup {d}
                /\ Overtake({d.run.t}, {d})
                /\ UNCHANGED faults
             \/ Fault /\ UNCHANGED <<bakruntb, wrklogtb, overtaken>>
    /\ shell' = NextShell(shell.rows)
    /\ UNCHANGED <<diskVars, purge, web, reported>>
CronJob ==
    /\ shell.stage = "job"
    /\ \E d \in shell.cur :
          /\ bakruntb' = bakruntb \cup NewRow(d, shell.ids)
          /\ wrklogtb' = wrklogtb \cup {d}
          /\ cronDelete(d)
          /\ Overtake({d.run.t}, {d})
    /\ shell' = NextShell(shell.rows)
    /\ UNCHANGED <<diskVars, purge, web, faults, reported>>

CronJobFails ==
    /\ shell.stage = "job"
    /\ Fault
    /\ shell' = NoShell
    /\ UNCHANGED <<diskVars, tabVars, purge, web, hist>>

-----------------------------------------------------------------------------
(***************************************************************************)
(* clientTaskBackup.                                                       *)
(***************************************************************************)
NextPurge(rows) == IF rows = {} THEN NoPurge ELSE Pass("purge", rows, {}, {})

ListFulls ==                              \* mutant: only full backups are looked at
    /\ ThreadFree /\ \E b \in bakruntb : b.run.lvl = "L01"
    /\ purge' = NextPurge({b \in bakruntb : b.run.lvl = "L01"})
    /\ UNCHANGED <<diskVars, tabVars, shell, web, faults, hist>>

\* The SELECT orders the rows by wrk_dt and looks up their names.  The first row without
\* names is a NullPointerException that ends the pass: it reaches the rows before that
\* one, and any of the same second.
Nameless == {b \in bakruntb : b.run.t \notin named}
Before(b) == {c \in bakruntb : c.run.dt < b.run.dt}
Reached(R) ==
    IF Nameless = {} THEN R = bakruntb
    ELSE \E b \in Nameless :
            /\ Before(b) \subseteq R /\ Before(b) \cap Nameless = {}
            /\ \A c \in R \ Before(b) : c.run.dt = b.run.dt /\ c \notin Nameless
ListDelSchTarget ==
    /\ ThreadFree /\ bakruntb # {}
    /\ \E R \in SUBSET bakruntb : Reached(R) /\ purge' = NextPurge(R)
    /\ UNCHANGED <<diskVars, tabVars, shell, web, faults, hist>>

\* kep_pod counts whole days: delbackup.sh spares the runs of this second.
Expirable == {run \in disk \ running : run.dt < clock}

\* Without any row: the directories of whole-server runs of the servers found by name.
ListUnlisted ==
    /\ ThreadFree /\ bakruntb = {}
    /\ purge' = Pass("unlisted", {}, {}, {})
    /\ UNCHANGED <<diskVars, tabVars, shell, web, faults, hist>>
DelUnlisted ==
    /\ purge.stage = "unlisted"
    /\ \/ /\ \E run \in Expirable :
                run.typ = "BT01" /\ Reachable(run.t) /\ disk' = disk \ {run}
          /\ UNCHANGED purge
       \/ purge' = NoPurge /\ UNCHANGED disk
    /\ UNCHANGED <<clock, latest, running, regVars, tabVars, shell, web, faults, hist>>

\* delbackup.sh, oldest row first; a row whose management server is not in use is passed
\* over.  "none": the row goes.  "delete_run": the directory
\* is deleted and for a full backup the incremental ones follow.  Another answer: its
\* time has not come.  No answer is a NullPointerException that ends the pass, and
\* comes too late to stop the script.
DelBackup ==
    /\ purge.stage = "purge"
    /\ \E b \in purge.rows :
          LET rest == NextPurge(purge.rows \ {b}) IN
          /\ \A c \in purge.rows : b.run.dt <= c.run.dt
          /\ \/ /\ b.run.t \notin served
                /\ purge' = rest
                /\ UNCHANGED <<disk, bakruntb, faults, overtaken>>
             \/ /\ b.run.t \in served /\ b.run \notin disk
                /\ bakruntb' = {c \in bakruntb : ~(c.run.t = b.run.t /\ c.run.dt = b.run.dt)}
                /\ Overtake({b.run.t}, {})
                /\ purge' = rest
                /\ UNCHANGED <<disk, faults>>
             \/ /\ b.run.t \in served /\ b.run \in Expirable
                /\ disk' = disk \ {b.run}
                /\ purge' = IF b.run.lvl = "L02" THEN rest
                            ELSE Pass("expired", purge.rows \ {b}, {b}, {})
                /\ UNCHANGED <<bakruntb, faults, overtaken>>
             \/ /\ b.run.t \in served /\ b.run \in disk
                /\ purge' = rest
                /\ UNCHANGED <<disk, bakruntb, faults, overtaken>>
             \/ /\ b.run.t \in served /\ Fault
                /\ disk' \in {disk, disk \ ({b.run} \cap Expirable)}
                /\ purge' = NoPurge
                /\ UNCHANGED <<bakruntb, overtaken>>
    /\ UNCHANGED <<clock, regVars, latest, running, scdipetb, wrklogtb, shell, web, reported>>

\* listSchPidTarget: the incremental rows below the full row that expired, with their
\* names; one without is a NullPointerException that ends the pass.
AllKids(b) == {c \in Rows(b.run.t) : c.run.lvl = "L02"}    \* mutant: run_pid not compared
Kids(b)    == {c \in Rows(b.run.t) : c.run.lvl = "L02" /\ c.pid = b.id}
ListSchPidTarget ==
    /\ purge.stage = "expired"
    /\ \E b \in purge.kids :
          purge' = IF Kids(b) = {} THEN NextPurge(purge.rows)
                   ELSE IF b.run.t \notin named THEN NoPurge
                   ELSE Pass("cascade", purge.rows, Kids(b), {})
    /\ UNCHANGED <<diskVars, tabVars, shell, web, faults, hist>>

\* One round of the loop in listSchDtTarget, which is one transaction: deleteIDRun, and rm -rf
\* when that deleted a row.  A broken connection is not noticed; a refused
\* authentication rolls back.
HasRow(c) == (\E b \in Rows(c.run.t) : b.id = c.id) /\ <<c.run.t, c.id>> \notin purge.gone
DeleteIDRun ==
    /\ purge.stage = "cascade" /\ purge.kids # {}
    /\ \E c \in purge.kids :
          \/ /\ purge' = Pass("cascade", purge.rows, purge.kids \ {c}, purge.gone \cup {<<c.run.t, c.id>>})
             /\ \/ HasRow(c) /\ disk' = disk \ {c.run} /\ UNCHANGED faults
                \/ ~HasRow(c) /\ UNCHANGED <<disk, faults>>
                \/ HasRow(c) /\ Fault /\ UNCHANGED disk
          \/ Fault /\ purge' = NoPurge /\ UNCHANGED disk
    /\ UNCHANGED <<clock, latest, running, regVars, tabVars, shell, web, hist>>

CascadeCommit ==
    /\ purge.stage = "cascade" /\ purge.kids = {}
    /\ bakruntb' = {c \in bakruntb : <<c.run.t, c.id>> \notin purge.gone}
    /\ Overtake({g[1] : g \in purge.gone}, {})
    /\ purge' = NextPurge(purge.rows)
    /\ UNCHANGED <<diskVars, scdipetb, wrklogtb, shell, web, faults, reported>>

-----------------------------------------------------------------------------
\* A restart breaks off the passes and the requests.
Restart ==
    /\ Fault
    /\ shell' = NoShell /\ purge' = NoPurge
    /\ web' = [w \in Web |-> IF web[w].stage = "idle" THEN web[w] ELSE NoWeb]
    /\ UNCHANGED <<diskVars, tabVars, hist>>

Init ==
    /\ clock = 1 /\ faults = 0
    /\ latest = [t \in Target |-> 0] /\ running = {} /\ disk = {}
    /\ named = Target /\ served = Target
    /\ scdipetb = {} /\ wrklogtb = {} /\ bakruntb = {}
    /\ shell = NoShell /\ purge = NoPurge
    /\ web = [w \in Web |-> [NoWeb EXCEPT !.stage = "idle"]]
    /\ reported = {} /\ overtaken = {}

ShellStep == ReadGinianLog \/ CronJob \/ CronJobFails
PurgeStep == DelBackup \/ DelUnlisted \/ ListSchPidTarget \/ DeleteIDRun \/ CascadeCommit
Next ==
    \/ Start \/ EndScheduled \/ Tick
    \/ \E t \in Target : DeleteTgtSvr(t) \/ DeleteSvr(t)
    \/ \E w \in Web : WebReadIds(w) \/ WebInsertBakRun(w) \/ WebInsertLog(w) \/ WebFails(w)
    \/ CronSelect \/ ShellStep
    \/ ListDelSchTarget \/ ListUnlisted \/ PurgeStep
    \/ Restart

Spec == Init /\ [][Next]_vars

\* Spring queues both timers for the one thread, so each task starts again and again, and
\* a pass once started comes to its end.
Fairness == SF_vars(CronSelect) /\ WF_vars(ShellStep) /\ WF_vars(PurgeStep) /\ SF_vars(ListDelSchTarget)
FairSpec == Spec /\ Fairness

-----------------------------------------------------------------------------
(***************************************************************************)
(* Correctness                                                             *)
(***************************************************************************)
TypeOK ==
    /\ clock \in 1 .. MaxClock /\ latest \in [Target -> 0 .. MaxClock] /\ faults \in 0 .. MaxFault
    /\ running \subseteq Run /\ disk \subseteq Run /\ overtaken \subseteq Run
    /\ scdipetb \subseteq Done /\ wrklogtb \subseteq Done /\ reported \subseteq Done
    /\ bakruntb \subseteq Row
    /\ shell \in [stage : {"idle", "shell", "job"}, rows : SUBSET Done, cur : SUBSET Done,
                  ids : [id : Nat, pid : Nat]]
    /\ shell = NoShell \/ purge = NoPurge
    /\ named \subseteq Target /\ served \subseteq Target
    /\ purge.stage \in {"idle", "purge", "unlisted", "expired", "cascade"}
    /\ purge.rows \subseteq Row /\ purge.kids \subseteq Row /\ purge.gone \subseteq Target \X Nat
    /\ web \in [Web -> [stage : {"idle", "ids", "log", "over"}, cur : SUBSET Done,
                        ids : [id : Nat, pid : Nat]]]

\* The tree of one target is in order: ids are unique, grow with wrk_dt among full
\* backups, and every incremental run hangs under the newest full one before it, its
\* id three digits longer.
Fulls(B, t) == {b \in B : b.run.t = t /\ b.run.lvl = "L01"}
Placed(b, B) ==
    /\ \A c \in B : c.run.t = b.run.t /\ c # b => c.id # b.id
    /\ IF b.run.lvl = "L01"
       THEN /\ b.pid = 1 /\ b.id \in 11 .. 999
            /\ \A f \in Fulls(B, b.run.t) : f.run.dt < b.run.dt => f.id < b.id
       ELSE /\ b.id \in 1000 * b.pid + 1 .. 1000 * b.pid + 999
            /\ \E f \in Fulls(B, b.run.t) :
                  /\ b.pid = f.id /\ f.run.dt < b.run.dt
                  /\ \A g \in Fulls(B, b.run.t) : g.run.dt < b.run.dt => g.run.dt <= f.run.dt
InOrder(t) ==
    /\ \A b \in Rows(t) : Placed(b, bakruntb)
    /\ {l.run : l \in Logs(t)} = {b.run : b \in Rows(t)}

\* Recording the next run of a target in order keeps its tree in order, whichever of the
\* two writers does it, unless a row or a log entry of the target was committed or
\* deleted between the reading of the ids and the insertion
\* (SetupServiceImpl.insertBakRun).  There has to be room for it: the ids of
\* 989 full backups, or of 999 incremental ones below one, run into other ids.
Room(t) == \A c \in Rows(t) : c.id % 1000 # 999
NewRowIsPlaced ==
    [][\A b \in bakruntb' \ bakruntb :
          InOrder(b.run.t) /\ Room(b.run.t) /\ b.run \notin overtaken
             => \/ Placed(b, bakruntb')
                \/ \E c \in Rows(b.run.t) : c.run.dt >= b.run.dt]_vars

\* Every scheduled run that was reported is still waiting or in the work log, whatever
\* fails or restarts: it can only get lost when its directory cannot be read, or
\* when another target has a run of the same second (cronDelete).
ReportedRunIsLogged ==
    [][\A d \in scdipetb \ scdipetb' :
          \/ d \in wrklogtb'
          \/ shell.stage = "shell"
          \/ \E e \in reported : e # d /\ e.run.dt = d.run.dt]_vars

\* No run is in the catalogue twice, though failed transactions are tried again.
RecordedOnce == \A a, b \in bakruntb : a.run = b.run => a = b

\* While the tree of a registered target is in order, an expired full backup takes nothing
\* along but runs that build on it: the newest full backup before each is gone.
CascadeSparesOthers ==
    [][purge.stage = "cascade" =>
          \A run \in disk \ disk' :
             run.t \in named' /\ (\A b \in Rows(run.t) : Placed(b, bakruntb)) =>
                 \A f \in Fulls(bakruntb, run.t) :
                    f.run \in disk /\ f.run.dt < run.dt =>
                       \E g \in Fulls(bakruntb, run.t) : f.run.dt < g.run.dt /\ g.run.dt < run.dt]_vars

\* A reported run of a server that stays registered and in use does not wait for ever once
\* faults have stopped, unless an incremental run without any logged base blocks the
\* pass.  (The row of a deleted server does: every pass passes over it.)
Poisoned == \E d \in scdipetb : Unplaceable(d) /\ Reachable(d.run.t)
ReportedRunIsHandled ==
    \A t \in Target :
        (\E d \in scdipetb : d.run.t = t) ~>
            ((\A d \in scdipetb : d.run.t # t) \/ ~Reachable(t) \/ Poisoned)

\* Once its directory is gone, a row of a server that stays registered and in use leaves
\* the catalogue, unless a row of a deleted server, inserted after the deletion,
\* stands no later than it: that row ends every pass of clientTaskBackup.
Orphaned(t, s) == \E b \in Rows(t) : b.run.dt = s /\ b.run \notin disk
RowOfDeletedRunGoes ==
    \A t \in Target, s \in 1 .. MaxClock :
        Orphaned(t, s) ~>
            (~Orphaned(t, s) \/ ~Reachable(t) \/ \E b \in Nameless : b.run.dt <= s)

=============================================================================
