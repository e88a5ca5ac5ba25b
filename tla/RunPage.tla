------------------------------ MODULE RunPage ------------------------------
(***************************************************************************)
(* The page of a running backup or restore (the two exe_run.jsp) with the  *)
(* Ajax objects of common.js and the dialogues of modal.js.  The page      *)
(* starts the run, asks every five seconds whether it is over, which also  *)
(* records its result, and shows what status requests answer.              *)
(*                                                                         *)
(* The browser runs one task at a time.  A synchronous request blocks its  *)
(* task until the answer is handled; the answer to a status request waits  *)
(* for the task to end, whatever that task has meanwhile written into the  *)
(* one global fv_ajaxCallback that names the handler of every answer.      *)
(* Of the server the module keeps what the page can tell apart: the run    *)
(* and its Quartz job (modules BackupRun and Restore), its record in the   *)
(* work log (RunCatalogue) and the login of the session (Login).           *)
(***************************************************************************)
EXTENDS Naturals, Sequences, FiniteSets

CONSTANTS
    MaxStatus,   \* bound: status requests waiting for their answer
    MaxFault     \* bound: failing requests and lost answers

ASSUME BoundAssumption == MaxStatus \in Nat /\ MaxFault \in Nat

VARIABLES
    kind,             \* which run the page is for
    page,             \* "open", "leaving" once a form is submitted, "left"
    todo,             \* what the running task has yet to call
    fv_ajaxCallback,  \* the request whose handler the global names
    statuses,         \* status requests without an answer
    timers,           \* timeouts set and not elapsed
    modals,           \* the dialogues in the order of the document
    complete,         \* backup_complete, recovery_complete
    params,           \* the variables fn_brun_exeload and fn_rrun_exeload set
    job,              \* the run on the server
    login,            \* the session is logged in
    recorded,         \* work-log rows of the run
    faults,           \* faults so far
    told              \* history: what kinds of message have been shown

pageVars   == <<page, todo, fv_ajaxCallback, statuses, timers, modals, complete, params>>
serverVars == <<job, login, recorded, faults>>
vars       == <<kind, pageVars, serverVars, told>>

Kind  == {"full", "incremental", "restore"}
Field == {"run_result", "no", "ok", "complete_msg"}       \* what an answer may hold
Ok(data) == [status |-> 200, data |-> data]
Denied   == [status |-> 400, data |-> {}]
Failed   == [status |-> 500, data |-> {}]
Answer   == {Ok(data) : data \in SUBSET Field} \cup {Denied, Failed}
Dialogue == {"notice", "information", "error", "stop"}
Idle     == page = "open" /\ todo = <<>>

-----------------------------------------------------------------------------
(***************************************************************************)
(* modal.js.  The notice that a run is going on has the class modal2, all  *)
(* other dialogues have modal; all have the same id.  Closing one class    *)
(* keeps the dialogues of the other in their order (Keep).                 *)
(***************************************************************************)
Keep(m, T) ==
    LET K == {i \in DOMAIN m : m[i] \in T}
        Nth(n) == CHOOSE i \in K : Cardinality({j \in K : j <= i}) = n
    IN [n \in 1 .. Cardinality(K) |-> m[Nth(n)]]
closeModal(m)  == Keep(m, {"notice"})
closeModal2(m) == Keep(m, Dialogue \ {"notice"})
openAlertModal(m, d) == Append(IF m = <<>> THEN m ELSE Tail(m), d)
bakRunModal(m) == Append(m, "stop")
bakAndRestoreModal(m) == Append(m, "notice")

-----------------------------------------------------------------------------
(***************************************************************************)
(* The server.                                                             *)
(***************************************************************************)
\* The job is named after JOB_FULL_BACKUP_EXCUTE whatever the kind of backup.
FoundRegistered == job = "logged" /\ kind # "incremental"

Fault == faults < MaxFault /\ faults' = faults + 1

\* What the requests answer, and do, when all goes well.
RunExe(a) == job' = "running" /\ a = Ok({"run_result"}) /\ UNCHANGED recorded
RunEndChk(a) ==
    /\ UNCHANGED job
    /\ \/ ~params /\ a = Failed /\ UNCHANGED recorded     \* ms_port is "undefined"
       \/ params /\ job \in {"running", "lost"} /\ a = Ok({"no"}) /\ UNCHANGED recorded
       \/ params /\ FoundRegistered /\ a = Ok({"ok"}) /\ UNCHANGED recorded
       \/ /\ params /\ job \in {"logged", "over"} /\ ~FoundRegistered
          /\ a = Ok({"ok", "complete_msg"}) /\ recorded' = recorded + 1
RunLog(a) == a = Ok({}) /\ UNCHANGED <<job, recorded>>
Served(c, a) == \/ c = "exe" /\ RunExe(a)
                \/ c = "endChk" /\ RunEndChk(a)
                \/ c \in {"log", "status"} /\ RunLog(a)

\* What they answer, having done nothing, when the server is gone from the
\* registry, a command does not come back or a statement raises an exception.
Broken(c, a) == \/ a = Failed
                \/ c = "exe" /\ kind # "restore" /\ a = Ok({})
                \/ c = "endChk" /\ params /\ a = Ok({})
                \/ c = "endChk" /\ params /\ job \in {"logged", "over"} /\ a = Ok({"ok"})

\* A served request's answer may also be lost on its way.
Serve(c, a) ==
    /\ UNCHANGED login
    /\ \/ ~login /\ a = Denied /\ UNCHANGED <<job, recorded, faults>>
       \/ login /\ Served(c, a) /\ UNCHANGED faults
       \/ login /\ Fault /\ Broken(c, a) /\ UNCHANGED <<job, recorded>>
       \/ login /\ Fault /\ a = Failed /\ \E b \in Answer : Served(c, b)

EndRun  == job = "running" /\ job' = "logged"   \* BACKUP END, RESTORE END
KillJob == job = "logged" /\ job' = "over"      \* schedulekill
Work == (EndRun \/ KillJob) /\ UNCHANGED <<kind, pageVars, login, recorded, faults, told>>

\* The session expires or another login of the user ends it.
Expire == login /\ login' = FALSE /\ UNCHANGED <<kind, pageVars, job, recorded, faults, told>>

\* The container forgets its jobs and its sessions.
Restart == /\ Fault /\ login' = FALSE
           /\ job' = CASE job = "running" -> "lost" [] job = "logged" -> "over" [] OTHER -> job
           /\ UNCHANGED <<kind, pageVars, recorded, told>>

-----------------------------------------------------------------------------
(***************************************************************************)
(* The functions of the page, called with the rest of their task.          *)
(***************************************************************************)
Show(m, d) == modals' = m /\ told' = told \cup {d}

fn_exeload(data, rest) ==
    /\ UNCHANGED <<timers, complete>>
    /\ IF kind = "restore" \/ "run_result" \in data
       THEN params' = TRUE /\ UNCHANGED <<modals, told>>
       ELSE Show(bakRunModal(closeModal(modals)), "error") /\ UNCHANGED params
    /\ todo' = IF kind = "restore" THEN <<"endChk">> \o rest ELSE rest

GoesOnStale(data) == ~complete \/ "ok" \notin data   \* mutant: asked before backup_complete is set
GoesOnUnlessNo(data) == "no" \in data                \* mutant: a lost command ends the polling
GoesOn(data) == ~complete /\ "ok" \notin data

fn_endChkload(data, rest) ==
    /\ UNCHANGED params
    /\ complete' = (complete \/ "ok" \in data)
    /\ LET told_it == {"ok", "complete_msg"} \subseteq data
           shown   == IF told_it THEN openAlertModal(modals, "information") ELSE modals
       IN /\ told' = IF told_it THEN told \cup {"result"} ELSE told
          /\ IF GoesOn(data)
             THEN modals' = shown /\ timers' = timers + 1 /\ todo' = rest
             ELSE modals' = closeModal2(shown) /\ UNCHANGED timers /\ todo' = <<"log">> \o rest

\* What becomes of data that arrive while the global names the request f.
Load(f, data, rest) ==
    \/ f = "exe" /\ fn_exeload(data, rest)
    \/ f = "endChk" /\ fn_endChkload(data, rest)
    \/ f \in {"log", "status"} /\ todo' = rest /\ UNCHANGED <<timers, complete, params, modals, told>>

\* The error handlers of ComAjaxRun and ComAjaxRsrRun, ComAjax and ComAjaxAsyncRun.
RunErrorKeepsNotice(m) == bakRunModal(closeModal(m))   \* mutant
RunError(m)  == bakRunModal(<<>>)
AjaxError(m) == openAlertModal(closeModal2(m), "error")
ByRunObject(c) == c = "exe" \/ (c = "endChk" /\ kind # "restore")

Error(c, status, rest) ==
    /\ todo' = rest /\ UNCHANGED <<timers, complete, params>>
    /\ IF status = 400 \/ c = "status"
       THEN modals' = closeModal2(modals) /\ UNCHANGED told
       ELSE Show(IF ByRunObject(c) THEN RunError(modals) ELSE AjaxError(modals), "error")
    /\ page' = IF status = 400 /\ c # "status" THEN "leaving" ELSE page

-----------------------------------------------------------------------------
(***************************************************************************)
(* The browser.                                                            *)
(***************************************************************************)
Receive(c, f, a, rest) ==
    IF a.status = 200 THEN Load(f, a.data, rest) /\ UNCHANGED page
                      ELSE Error(c, a.status, rest)

\* A synchronous request: sent, served and handled within the task.
Call == /\ page # "left" /\ todo # <<>> /\ Head(todo) # "status"
        /\ fv_ajaxCallback' = Head(todo)
        /\ \E a \in Answer : /\ Serve(Head(todo), a)
                             /\ Receive(Head(todo), Head(todo), a, Tail(todo))
        /\ UNCHANGED <<kind, statuses>>

fn_status == /\ page # "left" /\ todo # <<>> /\ Head(todo) = "status"
             /\ fv_ajaxCallback' = "status" /\ statuses' = statuses + 1
             /\ todo' = Tail(todo)
             /\ UNCHANGED <<kind, page, timers, modals, complete, params, serverVars, told>>

\* The answer to a status request, handled between two tasks.
StatusAnswer ==
    /\ page # "left" /\ todo = <<>> /\ statuses > 0
    /\ statuses' = statuses - 1
    /\ \E a \in Answer : /\ Serve("status", a)
                         /\ Receive("status", fv_ajaxCallback, a, <<>>)
    /\ UNCHANGED <<kind, fv_ajaxCallback>>

StatusFirst == <<"status", "endChk">>   \* mutant
TimerTask == <<"endChk", "status">>
Timeout == /\ page # "left" /\ todo = <<>> /\ timers > 0 /\ statuses < MaxStatus
           /\ timers' = timers - 1 /\ todo' = TimerTask
           /\ UNCHANGED <<kind, page, fv_ajaxCallback, statuses, modals, complete, params,
                          serverVars, told>>

\* The user closes a dialogue, or goes back to the form from that of a failed run.
CloseDialogue == /\ Idle /\ closeModal(modals) # modals
                 /\ modals' = closeModal(modals)
                 /\ page' \in IF "stop" \in {modals[i] : i \in DOMAIN modals}
                              THEN {"open", "leaving"} ELSE {"open"}
                 /\ UNCHANGED <<kind, todo, fv_ajaxCallback, statuses, timers, complete, params,
                                serverVars, told>>

Unload == /\ page = "leaving" /\ todo = <<>>
          /\ page' = "left"
          /\ UNCHANGED <<kind, todo, fv_ajaxCallback, statuses, timers, modals, complete, params,
                         serverVars, told>>

CloseWindow == /\ page = "open" /\ page' = "left"
               /\ UNCHANGED <<kind, todo, fv_ajaxCallback, statuses, timers, modals, complete,
                              params, serverVars, told>>

fn_init == /\ modals = bakAndRestoreModal(<<>>)
           /\ todo = IF kind = "restore" THEN <<"exe">> ELSE <<"exe", "endChk">>

Init == /\ kind \in Kind /\ fn_init
        /\ page = "open" /\ fv_ajaxCallback = "" /\ statuses = 0 /\ timers = 0
        /\ complete = FALSE /\ params = FALSE
        /\ job = "none" /\ login = TRUE /\ recorded = 0 /\ faults = 0 /\ told = {}

Next == \/ Call \/ fn_status \/ StatusAnswer \/ Timeout
        \/ CloseDialogue \/ Unload \/ CloseWindow
        \/ Work \/ Expire \/ Restart

\* The browser runs its tasks, timeouts and answers come, a run ends (BackupRun
\* and Restore say when it does not); nobody has to close or log in anything.
Fairness == WF_vars(Call) /\ WF_vars(fn_status) /\ WF_vars(StatusAnswer) /\ WF_vars(Timeout)
            /\ WF_vars(Unload) /\ WF_vars(Work)
Spec == Init /\ [][Next]_vars /\ Fairness

-----------------------------------------------------------------------------
TypeOK == /\ kind \in Kind /\ page \in {"open", "leaving", "left"}
          /\ todo \in Seq({"exe", "endChk", "log", "status"})
          /\ fv_ajaxCallback \in {"", "exe", "endChk", "log", "status"}
          /\ statuses \in 0..MaxStatus /\ timers \in Nat
          /\ modals \in Seq(Dialogue)
          /\ complete \in BOOLEAN /\ params \in BOOLEAN /\ login \in BOOLEAN
          /\ job \in {"none", "running", "logged", "over", "lost"}
          /\ recorded \in Nat /\ faults \in 0..MaxFault
          /\ told \subseteq {"result", "error"}

\* Whenever the answer to a status request can arrive, however late, the one
\* global of common.js names the handler of status requests: no status data are
\* taken for the answer to "is it over?", which would start a second chain of
\* polls.  Only the order of the two calls in the timeout of fn_endChkload
\* ensures it.
StatusMeetsItsHandler == todo = <<>> /\ statuses > 0 => fv_ajaxCallback = "status"

\* A run gets one row in the work log whatever answers are lost, since the end
\* check, which records whenever it finds a run over, is not asked again after
\* one that may have recorded; and a page that announces the result of a run has
\* had it recorded.
ResultIsRecordedOnce == recorded <= 1 /\ ("result" \in told => recorded = 1)

\* "The backup is running, do not close the window" stands on an idle page only
\* while that page still asks for the end of the run.
NoticeMeansPolling == Idle /\ (\E i \in DOMAIN modals : modals[i] = "notice") => timers > 0

\* A page does not outlive its run in silence: after the run is over, or was
\* forgotten by a restart, its result is recorded, an error is shown, the page
\* has found the run over (without a record, when the log could not be read or
\* the job was still registered), or it is left.
RunSettles == job \in {"over", "lost"}
                ~> (recorded = 1 \/ "error" \in told \/ complete \/ page = "left")
=============================================================================
