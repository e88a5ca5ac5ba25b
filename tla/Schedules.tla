----------------------------- MODULE Schedules -----------------------------
(***************************************************************************)
(* The backup schedules of the servers of one management server.  A        *)
(* schedule is a row of BAKSCDTB and a line of the crontab of that server. *)
(* Web threads add, change and remove both: the row first, inside a        *)
(* transaction that stays open while a shell script edits the crontab over *)
(* SSH, through the one file cron_maria of the remote user.  Removing a    *)
(* server removes its schedules in the same way, one script per schedule.  *)
(*                                                                         *)
(* These processes interleave: the web threads, and the remote shells,     *)
(* which outlive a broken connection.                                      *)
(***************************************************************************)
EXTENDS Naturals, Sequences, FiniteSets

CONSTANTS
    Server,      \* the target servers of one management server
    Plan,        \* what a cron_name tells: the level and the times
    Occurs,      \* pairs of plans: the name of the first is found in the second's,
                 \* as that of "on the 1st" is in that of "on the 1st and 15th"
    Request,     \* the requests that are sent
    Kinds,       \* what they ask for, a subset of Kind
    Faults,      \* how an SSH call can fail, a subset of {"refused", "lost"}
    MaxFault,    \* bound: how many SSH calls fail
    MaxOpen      \* bound: how many requests are served at a time

Kind     == {"insert", "update", "delete", "drop"}
Schedule == Server \X Plan

ASSUME OccursAssumption == /\ Occurs \subseteq Plan \X Plan
                           /\ \A p \in Plan : <<p, p>> \in Occurs
ASSUME KindsAssumption  == Kinds \subseteq Kind /\ Faults \subseteq {"refused", "lost"}
ASSUME BoundAssumption  == MaxFault \in Nat /\ MaxOpen \in Nat

VARIABLES
    BAKSCDTB,    \* the committed rows
    crontab,     \* how many lines each schedule has in the crontab
    cron_maria,  \* the same of the shared temporary file
    pc,          \* progress of each web thread
    req,         \* what it has been asked for, see Ask
    txn,         \* the rows its open transaction deletes and adds
    names,       \* oldCronName: the lines it still has to edit
    shell,       \* the commands each remote shell has yet to run
    faults,
    mishap,      \* history: what happened to each schedule, see Mishap
    touched      \* history: the requests that have installed a crontab

dbVars   == <<BAKSCDTB, txn>>
hostVars == <<crontab, cron_maria, shell, touched>>
webVars  == <<pc, req, names>>
vars     == <<dbVars, hostVars, webVars, faults, mishap>>

Lines   == [Schedule -> Nat]
Command == {"truncate", "list", "perl", "echo", "install"}
Ask     == [kind : Kind, old : SUBSET Schedule, new : SUBSET Schedule]
Txn     == [old : SUBSET Schedule, new : SUBSET Schedule]
Answer  == {"saved", "fail", "error"}    \* data.result, or the error page
PC      == {"idle", "find", "row", "ssh", "reading", "commit"} \cup Answer
Mishap  == {"lost",      \* the connection broke: the script ran not at all or in part
            "overlap",   \* two scripts used cron_maria at the same time
            "prefix",    \* its line holds the name of another schedule that went
            "late",      \* it was added after the removal of its server had read the names
            "stale",     \* it was gone before that removal, which edits its name all the same
            "partial"}   \* the removal of its server was rolled back half-way

NoTxn     == [old |-> {}, new |-> {}]
Open(r)   == pc[r] \notin {"idle"} \cup Answer
Held(r)   == txn[r].old \cup txn[r].new          \* the rows its transaction has locked
Shells    == {q \in Request \X Schedule : shell[q] # <<>>}
Goto(r, p) == pc' = [pc EXCEPT ![r] = p]
Of(S)     == {s \in Schedule : s[1] \in S}
Befalls(S, m) == mishap' = [s \in Schedule |-> mishap[s] \cup IF s \in S THEN {m} ELSE {}]

\* perl -pi -e "s/.*name.*//s": every line that has the name in it goes.
NamedIn(s, l)      == s[1] = l[1] /\ <<s[2], l[2]>> \in Occurs
Covered(S)         == {l \in Schedule \ S : \E s \in S : NamedIn(s, l)}

-----------------------------------------------------------------------------
(***************************************************************************)
(* The requests.  The page sends the schedules it lists, as they were when *)
(* it was opened.                                                          *)
(***************************************************************************)
Send(r, k, old, new, p) ==
    /\ pc[r] = "idle"
    /\ k \in Kinds
    /\ Cardinality({q \in Request : Open(q)}) < MaxOpen
    /\ req' = [req EXCEPT ![r] = [kind |-> k, old |-> old, new |-> new]]
    /\ Goto(r, p)
    /\ UNCHANGED <<dbVars, hostVars, names, faults, mishap>>

SendInsert(r) == \E s \in Schedule : Send(r, "insert", {}, {s}, "row")
SendUpdate(r) == \E s \in BAKSCDTB, p \in Plan : Send(r, "update", {s}, {<<s[1], p>>}, "find")
SendDelete(r) == \E s \in BAKSCDTB : Send(r, "delete", {s}, {}, "find")
\* deleteTgtSvr, or deleteMngSvr with all its targets.
SendDrop(r)   == \E S \in {{s} : s \in Server} \cup {Server} : Send(r, "drop", Of(S), {}, "find")

\* findBakScd before the transaction: without a row cronNameMap is null and the
\* request fails.  findMngbtsId and findBakScdNamList give the names of a server.
Find(r) ==
    /\ pc[r] = "find"
    /\ \/ /\ req[r].kind # "drop" /\ ~(req[r].old \subseteq BAKSCDTB)
          /\ Goto(r, "error") /\ UNCHANGED names
       \/ /\ req[r].kind = "drop" \/ req[r].old \subseteq BAKSCDTB
          /\ names' = [names EXCEPT ![r] = req[r].old \cap BAKSCDTB]
          /\ Goto(r, "row")
    /\ UNCHANGED <<dbVars, hostVars, req, faults, mishap>>

-----------------------------------------------------------------------------
(***************************************************************************)
(* The transaction.  Its row is locked until it ends, which is after the   *)
(* crontab has been edited.                                                *)
(***************************************************************************)
NeverBlocked(r) == FALSE                                 \* mutant: no transaction around getData
Blocked(r) == \E q \in Request \ {r} : (req[r].old \cup req[r].new) \cap Held(q) # {}

\* Does the statement change a row?  AbstractDAO: insertB = 1, updateB, deleteB > 0.
Changes(r)   == req[r].kind \in {"insert", "drop"} \/ req[r].old \subseteq BAKSCDTB
Duplicate(r) == Changes(r) /\ req[r].new \cap (BAKSCDTB \ req[r].old) # {}

WriteRow(r) ==
    /\ pc[r] = "row" /\ ~Blocked(r)
    /\ \/ Duplicate(r) /\ Goto(r, "error") /\ UNCHANGED <<txn, names, mishap>>
       \/ ~Duplicate(r) /\ ~Changes(r) /\ Goto(r, "fail") /\ UNCHANGED <<txn, names, mishap>>
       \/ /\ ~Duplicate(r) /\ Changes(r)
          /\ LET gone == req[r].old \cap BAKSCDTB IN
                /\ txn' = [txn EXCEPT ![r] = [old |-> gone, new |-> req[r].new]]
                /\ names' = IF req[r].kind = "insert" THEN [names EXCEPT ![r] = req[r].new] ELSE names
                /\ mishap' = [s \in Schedule |-> mishap[s]
                       \cup (IF req[r].kind = "drop" /\ s \in gone \ names[r] THEN {"late"} ELSE {})
                       \cup (IF req[r].kind = "drop" /\ s \in names[r] \ gone THEN {"stale"} ELSE {})]
          /\ Goto(r, "ssh")
    /\ UNCHANGED <<BAKSCDTB, hostVars, req, faults>>

\* A lock is waited for; the database ends a deadlock, or a wait that is too long.
LockFails(r) ==
    /\ pc[r] = "row" /\ Blocked(r)
    /\ Goto(r, "error")
    /\ UNCHANGED <<dbVars, hostVars, req, names, faults, mishap>>

Commit(r) ==
    /\ pc[r] = "commit"
    /\ BAKSCDTB' = (BAKSCDTB \ txn[r].old) \cup txn[r].new
    /\ txn' = [txn EXCEPT ![r] = NoTxn]
    /\ Goto(r, "saved")
    /\ UNCHANGED <<hostVars, req, names, faults, mishap>>

-----------------------------------------------------------------------------
(***************************************************************************)
(* Ssh2Agent.getData.  The commands of a script run one after the other,   *)
(* whatever the ones before them did.                                      *)
(***************************************************************************)
EchoScript(k) ==                                         \* mutant: the old line stays
    IF k \in {"insert", "update"} THEN <<"truncate", "list", "echo", "install">>
                                  ELSE <<"truncate", "list", "perl", "install">>
Script(k) == CASE k = "insert" -> <<"truncate", "list", "echo", "install">>
               [] k = "update" -> <<"truncate", "list", "perl", "install", "echo", "install">>
               [] OTHER        -> <<"truncate", "list", "perl", "install">>

\* Of a server that is removed the names are edited one after the other.
This(r)      == CHOOSE s \in names[r] : TRUE
SameName(r)  == /\ UNCHANGED names                       \* mutant: the loop does not advance
                /\ Goto(r, IF req[r].kind # "drop" THEN "commit" ELSE "ssh")
NextName(r)  == /\ names' = [names EXCEPT ![r] = @ \ {This(r)}]
                /\ Goto(r, IF names[r] = {This(r)} THEN "commit" ELSE "ssh")

AtSsh(r)     == pc[r] = "ssh" /\ names[r] # {}
Reading(r)   == pc[r] = "reading"
Running(r)   == shell[<<r, This(r)>>] # <<>>
Fault(f)     == f \in Faults /\ faults < MaxFault /\ faults' = faults + 1
\* What a script that is lost was to change.
LoseEdit(r)  == Fault("lost") /\ Befalls({This(r)} \cup (IF req[r].kind = "drop" THEN {} ELSE req[r].new), "lost")

\* A server without schedules: nothing to edit.
NoNames(r) ==
    /\ pc[r] = "ssh" /\ names[r] = {}
    /\ Goto(r, "commit")
    /\ UNCHANGED <<dbVars, hostVars, req, names, faults, mishap>>

Exec(r) ==
    /\ AtSsh(r)
    /\ shell' = [shell EXCEPT ![<<r, This(r)>>] = Script(req[r].kind)]
    /\ mishap' = [l \in Schedule |->
            mishap[l] \cup (IF Shells # {} THEN {"overlap"} ELSE {})
                      \cup (IF req[r].kind # "insert" /\ l \in Covered({This(r)}) THEN {"prefix"} ELSE {})]
    /\ Goto(r, "reading")
    /\ UNCHANGED <<dbVars, crontab, cron_maria, touched, req, names, faults>>

\* conn.connect fails: an IOException, which is logged and forgotten.
Unreachable(r) ==
    /\ AtSsh(r)
    /\ LoseEdit(r) /\ NextName(r)
    /\ UNCHANGED <<dbVars, hostVars, req>>

\* The last call of the removal of a server, after all crontab scripts: rm -rf of its
\* directory, which matters here only when it is refused.
AtDirectory(r) == pc[r] = "commit" /\ req[r].kind = "drop"

RefuseCommits(r) ==                                      \* mutant: no rollback-for
    /\ AtSsh(r) \/ AtDirectory(r)
    /\ Fault("refused")
    /\ BAKSCDTB' = (BAKSCDTB \ txn[r].old) \cup txn[r].new
    /\ txn' = [txn EXCEPT ![r] = NoTxn]
    /\ IF req[r].kind = "drop" THEN Befalls(txn[r].old, "partial") ELSE UNCHANGED mishap
    /\ Goto(r, "error")
    /\ UNCHANGED <<hostVars, req, names>>

\* "Authentication failed.": the transaction is rolled back.
Refuse(r) ==
    /\ AtSsh(r) \/ AtDirectory(r)
    /\ Fault("refused")
    /\ txn' = [txn EXCEPT ![r] = NoTxn]
    /\ IF req[r].kind = "drop" THEN Befalls(txn[r].old, "partial") ELSE UNCHANGED mishap
    /\ Goto(r, "error")
    /\ UNCHANGED <<BAKSCDTB, hostVars, req, names>>

\* The shell has ended and its last line has been read; what it did is not looked at.
ReadEnd(r) ==
    /\ Reading(r) /\ ~Running(r)
    /\ NextName(r)
    /\ UNCHANGED <<dbVars, hostVars, req, faults, mishap>>

BreakThrows(r) ==                                        \* mutant: getData throws on
    /\ Reading(r) /\ Running(r)
    /\ shell' \in {shell, [shell EXCEPT ![<<r, This(r)>>] = <<>>]}
    /\ LoseEdit(r) /\ UNCHANGED names
    /\ txn' = [txn EXCEPT ![r] = NoTxn]
    /\ Goto(r, "error")
    /\ UNCHANGED <<BAKSCDTB, crontab, cron_maria, touched, req>>

\* The connection breaks: the web thread goes on, the shell may or may not.
Break(r) ==
    /\ Reading(r) /\ Running(r)
    /\ shell' \in {shell, [shell EXCEPT ![<<r, This(r)>>] = <<>>]}
    /\ LoseEdit(r) /\ NextName(r)
    /\ UNCHANGED <<dbVars, crontab, cron_maria, touched, req>>

\* One command of a remote shell.  "crontab -l > cron_maria" is two: the shell
\* empties the file before crontab writes it.
ShellStep(r, s) ==
    LET cmd == Head(shell[<<r, s>>])
        new == CHOOSE l \in req[r].new : TRUE IN
    /\ shell[<<r, s>>] # <<>>
    /\ shell' = [shell EXCEPT ![<<r, s>>] = Tail(@)]
    /\ \/ /\ cmd = "truncate"
          /\ cron_maria' = [l \in Schedule |-> 0]
          /\ UNCHANGED <<crontab, touched>>
       \/ /\ cmd = "list"
          /\ cron_maria' = crontab
          /\ UNCHANGED <<crontab, touched>>
       \/ /\ cmd = "perl"
          /\ cron_maria' = [l \in Schedule |-> IF NamedIn(s, l) THEN 0 ELSE cron_maria[l]]
          /\ UNCHANGED <<crontab, touched>>
       \/ /\ cmd = "echo"
          /\ cron_maria' = [cron_maria EXCEPT ![new] = @ + 1]
          /\ UNCHANGED <<crontab, touched>>
       \/ /\ cmd = "install"
          /\ crontab' = cron_maria /\ touched' = touched \cup {r}
          /\ UNCHANGED cron_maria
    /\ UNCHANGED <<dbVars, webVars, faults, mishap>>

-----------------------------------------------------------------------------
Init ==
    /\ BAKSCDTB \in SUBSET Schedule
    /\ crontab = [s \in Schedule |-> IF s \in BAKSCDTB THEN 1 ELSE 0]
    /\ cron_maria = [s \in Schedule |-> 0]
    /\ pc = [r \in Request |-> "idle"]
    /\ req = [r \in Request |-> [kind |-> "insert", old |-> {}, new |-> {}]]
    /\ txn = [r \in Request |-> NoTxn]
    /\ names = [r \in Request |-> {}]
    /\ shell = [q \in Request \X Schedule |-> <<>>]
    /\ faults = 0
    /\ mishap = [s \in Schedule |-> {}]
    /\ touched = {}

Serve(r) == Find(r) \/ WriteRow(r) \/ LockFails(r) \/ Commit(r) \/ NoNames(r) \/ Exec(r) \/ ReadEnd(r)
Fail(r)  == Unreachable(r) \/ Refuse(r) \/ Break(r)

Next ==
    \E r \in Request :
        \/ SendInsert(r) \/ SendUpdate(r) \/ SendDelete(r) \/ SendDrop(r)
        \/ Serve(r)
        \/ Fail(r)
        \/ \E s \in Schedule : ShellStep(r, s)

\* Web threads run, and what they wait for returns: shells end, and the database
\* ends every wait for a lock.  Nobody has to send a request.
Fairness == \A r \in Request : /\ WF_vars(Serve(r))
                               /\ \A s \in Schedule : WF_vars(ShellStep(r, s))

Spec == Init /\ [][Next]_vars /\ Fairness

-----------------------------------------------------------------------------
TypeOK ==
    /\ BAKSCDTB \in SUBSET Schedule
    /\ crontab \in Lines /\ cron_maria \in Lines
    /\ pc \in [Request -> PC]
    /\ req \in [Request -> Ask]
    /\ txn \in [Request -> Txn]
    /\ names \in [Request -> SUBSET Schedule]
    /\ shell \in [Request \X Schedule -> Seq(Command)]
    /\ faults \in 0 .. MaxFault
    /\ mishap \in [Schedule -> SUBSET Mishap]
    /\ touched \in SUBSET Request

\* Two scripts never edit one schedule at the same time: its row stays locked
\* until the script has ended (service transactions around getData).  Only a
\* broken connection ends the transaction before the script, and only the removal
\* of a server edits names whose rows are gone.
OneEditPerSchedule ==
    \A a, b \in Shells :
        a[1] # b[1] /\ a[2] = b[2] => mishap[a[2]] \cap {"lost", "stale"} # {}

\* Where nobody is at work the list and the crontab agree on a schedule: one line
\* if it is listed, none otherwise.  The exceptions are the ones named in Mishap.
Undisturbed(s) == mishap[s] = {} /\ Shells = {} /\ \A r \in Request : s \notin Held(r)
ListedIsOnDuty ==
    \A s \in Schedule : Undisturbed(s) => crontab[s] = IF s \in BAKSCDTB THEN 1 ELSE 0

\* A request that is answered with a failure has left the crontab alone (the row
\* is written first, and its outcome decides about the script); the removal of a
\* server that is refused half-way is the exception.
FailedLeavesCrontab ==
    \A r \in Request : pc[r] \in {"fail", "error"} /\ req[r].kind # "drop" => r \notin touched

\* Every request is answered, whatever fails.
RequestIsAnswered == \A r \in Request : Open(r) ~> pc[r] \in Answer

\* While one request at a time is at work, and nothing has befallen any schedule, the
\* list and the crontab keep the promise of Timetable: the crontab, once a request has
\* ended its scripts, is the list with the change of that request, and the list follows
\* or the crontab is as it was.
OnDuty == IF \E r \in Request : pc[r] \in {"ssh", "reading"} THEN BAKSCDTB
                                                           ELSE {s \in Schedule : crontab[s] > 0}
Promise == INSTANCE Timetable WITH listed <- BAKSCDTB, onduty <- OnDuty
Calm == /\ \A s \in Schedule : mishap[s] = {}
        /\ \A q, r \in Request : Open(q) /\ Open(r) => q = r
PromiseKept == Promise!Init /\ [][Calm /\ Calm' => Promise!Next]_<<BAKSCDTB, OnDuty>>
=============================================================================
