--------------------------- MODULE RunPage_proof ---------------------------
(***************************************************************************)
(* Proofs about RunPage: the late answers to status requests and the one   *)
(* record of a run, for any number of slow answers and faults.  The        *)
(* inductive invariant says that there is one chain of polls: either one   *)
(* timeout is set, or the running task will ask, or nobody asks any more,  *)
(* and once a record exists nobody does.                                   *)
(* Whatever fails, the notice that the run is going on is true (PollInv):  *)
(* what ends the chain closes it.  There is one dialogue at most, but that *)
(* a failed start shows its own beside the notice until the end check that *)
(* follows in the same task has failed too.                                *)
(***************************************************************************)
EXTENDS RunPage, SequenceTheorems, FiniteSetTheorems, TLAPS

Request == {"exe", "endChk", "log", "status"}

\* The tasks that will still ask for the end of the run, and those that will not.
Asking == {<<"exe">>, <<"exe", "endChk">>, <<"endChk">>, <<"endChk", "status">>}
Asked  == {<<>>, <<"status">>, <<"log">>, <<"log", "status">>}

\* Of these, the tasks of a timeout; only they run while status answers are due.
OfTimeout == {<<"endChk", "status">>, <<"log", "status">>, <<"status">>, <<>>}

IInv == /\ todo \in Asking \cup Asked
        /\ timers \in {0, 1} /\ statuses \in Nat /\ recorded \in {0, 1}
        /\ timers = 1 => todo \in Asked
        /\ recorded = 1 => timers = 0 /\ todo \in Asked
        /\ statuses > 0 => /\ todo \in OfTimeout
                           /\ todo = <<>> => fv_ajaxCallback = "status"
        /\ kind = "restore" => todo # <<"exe", "endChk">>
        /\ "result" \in told => recorded = 1

-----------------------------------------------------------------------------
\* What a request can do to the record: only the end check writes it, and then
\* the page is answered "ok" or gets an error.  A result is announced with it.
LEMMA ServeRecords ==
  ASSUME NEW c \in {"exe", "endChk", "log", "status"}, NEW a \in Answer, Serve(c, a)
  PROVE  /\ \/ recorded' = recorded
            \/ /\ c = "endChk" /\ recorded' = recorded + 1
               /\ a.status # 200 \/ "ok" \in a.data
         /\ a.status = 200 /\ {"ok", "complete_msg"} \subseteq a.data
              => c = "endChk" /\ recorded' = recorded + 1
         /\ c # "endChk" /\ a.status = 200 => "ok" \notin a.data
<1>1. /\ Denied.status = 400 /\ Failed.status = 500
      /\ \A d : Ok(d).status = 200 /\ Ok(d).data = d
  BY DEF Denied, Failed, Ok
<1>2. ASSUME NEW b \in Answer, Served(c, b)
      PROVE  /\ recorded' = recorded \/ (c = "endChk" /\ recorded' = recorded + 1)
             /\ recorded' # recorded => b.status # 200 \/ "ok" \in b.data
             /\ b.status = 200 /\ {"ok", "complete_msg"} \subseteq b.data
                  => c = "endChk" /\ recorded' = recorded + 1
             /\ c # "endChk" /\ b.status = 200 => "ok" \notin b.data
  BY <1>1, <1>2 DEF Served, RunExe, RunEndChk, RunLog
<1>3. CASE ~login /\ a = Denied /\ UNCHANGED <<job, recorded, faults>>
  BY <1>1, <1>3
<1>4. CASE login /\ Served(c, a) /\ UNCHANGED faults
  BY <1>2, <1>4
<1>5. CASE login /\ Fault /\ Broken(c, a) /\ UNCHANGED <<job, recorded>>
  BY <1>1, <1>5 DEF Broken
<1>6. CASE login /\ Fault /\ a = Failed /\ \E b \in Answer : Served(c, b)
  BY <1>1, <1>2, <1>6
<1>7. QED
  BY <1>3, <1>4, <1>5, <1>6 DEF Serve

\* Tasks of one and of two calls: their first call, what is left, and how a
\* handler puts a call in front.
LEMMA OneCall ==
  ASSUME NEW x \in Request
  PROVE  /\ <<x>> # <<>> /\ Head(<<x>>) = x /\ Tail(<<x>>) = <<>>
         /\ <<x>> \o <<>> = <<x>>
<1>1. <<x>> \in Seq(Request) /\ Len(<<x>>) = 1 /\ <<x>>[1] = x /\ Len(<<>>) = 0
  OBVIOUS
<1>2. <<x>> # <<>>
  BY <1>1
<1>3. Tail(<<x>>) \in Seq(Request) /\ Len(Tail(<<x>>)) = 0
  BY <1>1, <1>2, HeadTailProperties
<1>4. Tail(<<x>>) = <<>>
  BY <1>3, EmptySeq
<1>5. <<x>> \o <<>> = <<x>>
  BY <1>1, ConcatEmptySeq
<1>6. QED
  BY <1>1, <1>2, <1>4, <1>5

LEMMA TwoCalls ==
  ASSUME NEW x \in Request, NEW y \in Request
  PROVE  /\ <<x, y>> # <<>> /\ Head(<<x, y>>) = x /\ Tail(<<x, y>>) = <<y>>
         /\ \A z : <<x, y>> # <<z>>
         /\ <<x>> \o <<y>> = <<x, y>>
<1>1. /\ <<x, y>> \in Seq(Request) /\ Len(<<x, y>>) = 2
      /\ <<x, y>>[1] = x /\ <<x, y>>[2] = y /\ Len(<<>>) = 0
  OBVIOUS
<1>2. \A z : Len(<<z>>) = 1 /\ <<z>>[1] = z
  OBVIOUS
<1>3. <<x>> \in Seq(Request) /\ <<y>> \in Seq(Request)
  OBVIOUS
<1>4. <<x, y>> # <<>> /\ \A z : <<x, y>> # <<z>>
  BY <1>1, <1>2
<1>5. /\ Tail(<<x, y>>) \in Seq(Request) /\ Len(Tail(<<x, y>>)) = 1
      /\ Tail(<<x, y>>)[1] = y
  BY <1>1, <1>4, HeadTailProperties
<1>6. Tail(<<x, y>>) = <<y>>
  BY <1>2, <1>3, <1>5, SeqEqual
<1>7. /\ <<x>> \o <<y>> \in Seq(Request) /\ Len(<<x>> \o <<y>>) = 2
      /\ (<<x>> \o <<y>>)[1] = x /\ (<<x>> \o <<y>>)[2] = y
  BY <1>2, <1>3, ConcatProperties
<1>8. <<x>> \o <<y>> = <<x, y>>
  <2> DEFINE s == <<x>> \o <<y>>
             t == <<x, y>>
  <2>1. /\ s \in Seq(Request) /\ t \in Seq(Request) /\ Len(s) = 2 /\ Len(t) = 2
        /\ s[1] = t[1] /\ s[2] = t[2]
    BY <1>1, <1>7
  <2> HIDE DEF s, t
  <2>2. \A i \in 1..Len(s) : s[i] = t[i]
    BY <2>1
  <2>3. s = t
    BY <2>1, <2>2, SeqEqual
  <2>4. QED
    BY <2>3 DEF s, t
<1>9. QED
  BY <1>1, <1>4, <1>6, <1>8

\* The tasks differ.
LEMMA Tasks ==
  /\ Asking \cap Asked = {}
  /\ \A x \in {<<"exe">>, <<"exe", "endChk">>} :
        x \notin {<<>>, <<"endChk">>, <<"endChk", "status">>, <<"status">>, <<"log">>, <<"log", "status">>}
<1>1. /\ <<"exe", "endChk">> # <<"log", "status">> /\ <<"exe", "endChk">> # <<"endChk", "status">>
      /\ <<"endChk", "status">> # <<"log", "status">>
  OBVIOUS
<1>2. /\ <<"exe">> # <<"endChk">> /\ <<"exe">> # <<"status">> /\ <<"exe">> # <<"log">>
      /\ <<"endChk">> # <<"status">> /\ <<"endChk">> # <<"log">>
  OBVIOUS
<1>3. \A x, y \in Request : <<x, y>> # <<>> /\ \A z : <<x, y>> # <<z>>
  BY TwoCalls
<1>4. \A x \in Request : <<x>> # <<>>
  BY OneCall
<1>5. QED
  BY <1>1, <1>2, <1>3, <1>4 DEF Asking, Asked, Request

LEMMA InitInv == Init => IInv
<1> SUFFICES ASSUME Init PROVE IInv
  OBVIOUS
<1>1. todo \in Asking
  BY DEF Init, fn_init, Asking
<1>2. kind = "restore" => todo # <<"exe", "endChk">>
  BY TwoCalls DEF Init, fn_init, Request
<1>3. timers = 0 /\ statuses = 0 /\ recorded = 0 /\ told = {}
  BY DEF Init
<1>4. QED
  BY <1>1, <1>2, <1>3 DEF IInv

-----------------------------------------------------------------------------
\* A synchronous request.
LEMMA CallInv == IInv /\ Call => IInv'
<1> SUFFICES ASSUME IInv, Call PROVE IInv'
  OBVIOUS
<1> DEFINE c == Head(todo)
           rest == Tail(todo)
<1>1. PICK a \in Answer : Serve(c, a) /\ Receive(c, c, a, rest)
  BY DEF Call
<1>2. /\ statuses' = statuses /\ kind' = kind /\ todo # <<>> /\ c # "status"
  BY DEF Call
<1>3. \/ todo = <<"exe">> /\ c = "exe" /\ rest = <<>>
      \/ todo = <<"exe", "endChk">> /\ c = "exe" /\ rest = <<"endChk">>
      \/ todo = <<"endChk">> /\ c = "endChk" /\ rest = <<>>
      \/ todo = <<"endChk", "status">> /\ c = "endChk" /\ rest = <<"status">>
      \/ todo = <<"log">> /\ c = "log" /\ rest = <<>>
      \/ todo = <<"log", "status">> /\ c = "log" /\ rest = <<"status">>
  BY <1>2, OneCall, TwoCalls DEF IInv, Asking, Asked, Request
<1>4. c \in {"exe", "endChk", "log"}
  BY <1>3
<1>5. CASE a.status # 200
  <2>1. todo' = rest /\ timers' = timers /\ ("result" \in told' => "result" \in told)
    BY <1>1, <1>5 DEF Receive, Error, Show
  <2>2. /\ recorded' = recorded \/ (c = "endChk" /\ recorded' = recorded + 1)
        /\ c = "endChk" => rest \in {<<>>, <<"status">>}
    BY <1>1, <1>3, <1>4, ServeRecords
  <2>3. todo \in Asking => timers = 0 /\ recorded = 0
    BY DEF IInv, Asking, Asked
  <2>4. /\ c = "endChk" => todo \in Asking
        /\ rest \in Asking => todo \in Asking
        /\ rest \in Asking \cup Asked
    BY <1>3, Tasks DEF Asking, Asked
  <2>5. rest \in Asking => c # "endChk"
    <3>1. <<>> \notin Asking
      BY OneCall, TwoCalls DEF Asking, Request
    <3>2. <<"status">> \notin Asking
      BY OneCall, TwoCalls DEF Asking, Request
    <3>3. QED
      BY <2>2, <3>1, <3>2
  <2>6. recorded' \in {0, 1} /\ (recorded' = 1 => timers = 0 /\ rest \in Asked)
    BY <1>3, <2>2, <2>3, <2>4, <2>5 DEF IInv, Asked
  <2>7. statuses > 0 => rest = <<"status">>
    BY <1>2, <1>3, OneCall, TwoCalls DEF IInv, OfTimeout, Request
  <2>8. statuses > 0 => rest \in OfTimeout /\ rest # <<>>
    BY <2>7, OneCall DEF OfTimeout, Request
  <2>9. rest # <<"exe", "endChk">>
    BY <1>3, OneCall, TwoCalls DEF Request
  <2>10. timers = 1 => rest \in Asked
    BY <2>3, <2>4 DEF IInv
  <2>11. "result" \in told' => recorded' = 1
    BY <2>1, <2>2, <2>3, <2>4 DEF IInv
  <2>12. QED
    BY <1>2, <2>1, <2>4, <2>6, <2>8, <2>9, <2>10, <2>11 DEF IInv
<1>6. CASE a.status = 200 /\ c = "exe"
  <2>1. /\ fn_exeload(a.data, rest)
    BY <1>1, <1>6 DEF Receive, Load
  <2>2. /\ timers' = timers /\ ("result" \in told' => "result" \in told)
        /\ todo' = IF kind = "restore" THEN <<"endChk">> \o rest ELSE rest
    BY <2>1 DEF fn_exeload, Show
  <2>3. recorded' = recorded
    BY <1>1, <1>6, ServeRecords
  <2>4. CASE todo = <<"exe">>
    BY <1>2, <1>3, <2>2, <2>3, <2>4, OneCall, TwoCalls DEF Request, IInv, Asking, Asked, OfTimeout
  <2>5. CASE todo = <<"exe", "endChk">>
    BY <1>2, <1>3, <2>2, <2>3, <2>5, TwoCalls DEF Request, IInv, Asking, Asked, OfTimeout
  <2>6. QED
    BY <1>3, <1>6, <2>4, <2>5
<1>7. CASE a.status = 200 /\ c = "endChk"
  <2>1. fn_endChkload(a.data, rest)
    BY <1>1, <1>7 DEF Receive, Load
  <2>2. \/ "ok" \notin a.data /\ timers' = timers + 1 /\ todo' = rest
        \/ timers' = timers /\ todo' = <<"log">> \o rest
    BY <2>1 DEF fn_endChkload, GoesOn
  <2>3. "result" \in told' => "result" \in told \/ {"ok", "complete_msg"} \subseteq a.data
    BY <2>1 DEF fn_endChkload
  <2>4. rest \in {<<>>, <<"status">>} /\ todo \in Asking
    BY <1>3, <1>7 DEF Asking
  <2>5. timers = 0 /\ recorded = 0
    BY <2>4 DEF IInv, Asking, Asked
  <2>6. /\ recorded' \in {0, 1}
        /\ recorded' = 1 => "ok" \in a.data
        /\ {"ok", "complete_msg"} \subseteq a.data => recorded' = 1
    BY <1>1, <1>7, <2>5, ServeRecords
  <2>7. <<"log">> \o <<>> = <<"log">> /\ <<"log">> \o <<"status">> = <<"log", "status">>
    BY OneCall, TwoCalls DEF Request
  <2>8. todo' \in Asked
    BY <2>2, <2>4, <2>7 DEF Asked
  <2>9. statuses > 0 => todo' \in OfTimeout /\ todo' # <<>>
    BY <1>3, <1>7, <2>2, <2>7 DEF IInv, OfTimeout
  <2>10. QED
    BY <1>2, <2>2, <2>3, <2>5, <2>6, <2>8, <2>9 DEF IInv, Asked
<1>8. CASE a.status = 200 /\ c = "log"
  <2>1. todo' = rest /\ UNCHANGED <<timers, told>>
    BY <1>1, <1>8 DEF Receive, Load
  <2>2. recorded' = recorded
    BY <1>1, <1>8, ServeRecords
  <2>3. todo' \in Asked
    BY <1>3, <1>8, <2>1 DEF Asked
  <2>4. statuses > 0 => todo' = <<"status">>
    BY <1>3, <1>8, <2>1, OneCall, TwoCalls DEF IInv, OfTimeout, Request
  <2>5. statuses > 0 => todo' \in OfTimeout /\ todo' # <<>>
    BY <2>4, OneCall DEF OfTimeout, Request
  <2>6. kind = "restore" => todo' # <<"exe", "endChk">>
    BY <1>3, <1>8, <2>1, TwoCalls, OneCall DEF Request
  <2>7. QED
    BY <1>2, <2>1, <2>2, <2>3, <2>5, <2>6 DEF IInv
<1>9. QED
  BY <1>4, <1>5, <1>6, <1>7, <1>8

\* The answer to a status request goes to its handler, which calls nothing.
LEMMA StatusAnswerInv == IInv /\ StatusAnswer => IInv'
<1> SUFFICES ASSUME IInv, StatusAnswer PROVE IInv'
  OBVIOUS
<1>1. /\ todo = <<>> /\ statuses > 0 /\ statuses' = statuses - 1
      /\ fv_ajaxCallback = "status" /\ fv_ajaxCallback' = "status" /\ kind' = kind
  BY DEF StatusAnswer, IInv
<1>2. PICK a \in Answer : Serve("status", a) /\ Receive("status", "status", a, <<>>)
  BY <1>1 DEF StatusAnswer
<1>3. todo' = <<>> /\ timers' = timers /\ told' = told
  BY <1>2 DEF Receive, Load, Error
<1>4. recorded' = recorded
  BY <1>2, ServeRecords
<1>5. QED
  BY <1>1, <1>3, <1>4 DEF IInv, Asking, Asked, OfTimeout

LEMMA NextInv == IInv /\ [Next]_vars => IInv'
<1> SUFFICES ASSUME IInv, [Next]_vars PROVE IInv'
  OBVIOUS
<1> USE DEF IInv, Asking, Asked, OfTimeout
<1>1. CASE Call
  BY <1>1, CallInv
<1>2. CASE fn_status
  BY <1>2 DEF fn_status, serverVars
<1>3. CASE StatusAnswer
  BY <1>3, StatusAnswerInv
<1>4. CASE Timeout
  BY <1>4 DEF Timeout, TimerTask, serverVars
<1>5. CASE CloseDialogue
  BY <1>5 DEF CloseDialogue, serverVars
<1>6. CASE Unload
  BY <1>6 DEF Unload, serverVars
<1>7. CASE CloseWindow
  BY <1>7 DEF CloseWindow, serverVars
<1>8. CASE Work \/ Expire \/ Restart
  BY <1>8 DEF Work, Expire, Restart, pageVars
<1>9. CASE UNCHANGED vars
  BY <1>9 DEF vars, pageVars, serverVars
<1>10. QED
  BY <1>1, <1>2, <1>3, <1>4, <1>5, <1>6, <1>7, <1>8, <1>9 DEF Next

\* There is one chain of polls at a time, and none once the run is recorded.
THEOREM OneChainOfPolls == Spec => []IInv
  BY InitInv, NextInv, PTL DEF Spec

\* However many status requests are slow, their answers meet their handler: the
\* timeout calls fn_status last, so a task that leaves an answer open ends by
\* naming its handler.
THEOREM StatusHandled == Spec => []StatusMeetsItsHandler
<1>1. IInv => StatusMeetsItsHandler
  BY DEF IInv, StatusMeetsItsHandler
<1>2. QED
  BY OneChainOfPolls, <1>1, PTL

\* Whatever fails or gets lost, a run is recorded at most once by its page, and
\* an announced result is recorded.
THEOREM RecordedByItsPage == Spec => []ResultIsRecordedOnce
<1>1. IInv => ResultIsRecordedOnce
  BY DEF IInv, ResultIsRecordedOnce
<1>2. QED
  BY OneChainOfPolls, <1>1, PTL

-----------------------------------------------------------------------------
\* The dialogues.  There is never more than one, so closing a class leaves the one
\* that is open or none.
LEMMA KeepNone == ASSUME NEW T, NEW m, DOMAIN m = {} \/ \A i \in DOMAIN m : m[i] \notin T PROVE Keep(m, T) = <<>>
<1>1. {i \in DOMAIN m : m[i] \in T} = {}
  OBVIOUS
<1>2. Cardinality({}) = 0
  BY FS_EmptySet
<1>3. 1 .. 0 = {}
  OBVIOUS
<1> DEFINE Nth(n) == CHOOSE i \in {} : Cardinality({j \in {} : j <= i}) = n
<1>4. Keep(m, T) = [n \in {} |-> m[Nth(n)]]
  BY <1>1, <1>2, <1>3 DEF Keep
<1>5. Keep(m,T) \in Seq({}) /\ Len(Keep(m,T)) = 0
  BY <1>3, <1>4
<1> QED BY <1>5, EmptySeq
LEMMA KeepOne == ASSUME NEW T, NEW d \in T PROVE Keep(<<d>>, T) = <<d>>
<1> DEFINE m == <<d>>
           K == {i \in DOMAIN m : m[i] \in T}
           Nth(n) == CHOOSE i \in K : Cardinality({j \in K : j <= i}) = n
<1>0. m \in Seq(T) /\ Len(m) = 1 /\ m[1] = d /\ DOMAIN m = 1 .. 1 /\ 1 .. 1 = {1}
  OBVIOUS
<1> HIDE DEF m
<1>1. K = {1}
  BY <1>0
<1>2. Cardinality({1}) = 1
  BY FS_Singleton
<1>3. \A n : Nth(n) = CHOOSE i \in {1} : Cardinality({j \in {1} : j <= i}) = n
  BY <1>1
<1>4. {j \in {1} : j <= 1} = {1}
  OBVIOUS
<1>5. Nth(1) = 1
  BY <1>2, <1>3, <1>4
<1>6. Keep(m, T) = [n \in 1 .. Cardinality(K) |-> m[Nth(n)]]
  BY DEF Keep
<1> HIDE DEF K, Nth
<1>7. Keep(m, T) = [n \in 1 .. 1 |-> m[Nth(n)]]
  BY <1>1, <1>2, <1>6
<1>8. Keep(m,T) \in Seq(T) /\ Len(Keep(m,T)) = 1 /\ Keep(m,T)[1] = d
  BY <1>0, <1>5, <1>7
<1> QED BY <1>0, <1>8, SeqEqual DEF m

LEMMA KeepLast ==
  ASSUME NEW T, NEW d, NEW e \in T, d \notin T
  PROVE  Keep(<<d, e>>, T) = <<e>>
<1> DEFINE m == <<d, e>>
           K == {i \in DOMAIN m : m[i] \in T}
           Nth(n) == CHOOSE i \in K : Cardinality({j \in K : j <= i}) = n
<1>1. m[1] = d /\ m[2] = e /\ DOMAIN m = 1 .. 2 /\ 1 .. 2 = {1, 2}
  OBVIOUS
<1> HIDE DEF m
<1>2. K = {2}
  BY <1>1
<1>3. Cardinality({2}) = 1
  BY FS_Singleton
<1>4. \A n : Nth(n) = CHOOSE i \in {2} : Cardinality({j \in {2} : j <= i}) = n
  BY <1>2
<1>5. {j \in {2} : j <= 2} = {2}
  OBVIOUS
<1>6. Nth(1) = 2
  BY <1>3, <1>4, <1>5
<1>7. Keep(m, T) = [n \in 1 .. Cardinality(K) |-> m[Nth(n)]]
  BY DEF Keep
<1> HIDE DEF K, Nth
<1>8. Keep(m, T) = [n \in 1 .. 1 |-> m[Nth(n)]]
  BY <1>2, <1>3, <1>7
<1>9. Keep(m, T) \in Seq(T) /\ Len(Keep(m, T)) = 1 /\ Keep(m, T)[1] = e
  BY <1>1, <1>6, <1>8
<1>10. <<e>> \in Seq(T) /\ Len(<<e>>) = 1 /\ <<e>>[1] = e
  OBVIOUS
<1>11. QED
  BY <1>9, <1>10, SeqEqual DEF m

OneDialogue(m) == m = <<>> \/ \E d \in Dialogue : m = <<d>>

\* A backup that did not start: the end check of the task is sent without parameters.
NotStarted == modals = <<"notice", "stop">> /\ todo = <<"endChk">> /\ ~params /\ kind # "restore"

\* While the notice is on the open page, a timeout is set or the task will ask.
PollInv ==
    /\ OneDialogue(modals) \/ NotStarted
    /\ page = "open" /\ modals = <<"notice">> => timers = 1 \/ todo \in Asking
    /\ kind # "restore" => todo # <<"exe">>
    /\ todo = <<"exe", "endChk">> => ~params

LEMMA Single ==
  ASSUME NEW x
  PROVE  <<x>> # <<>> /\ <<x>>[1] = x /\ DOMAIN <<x>> = {1} /\ Tail(<<x>>) = <<>> /\ \A y : <<x>> = <<y>> => x = y
<1>1. <<x>> \in Seq({x}) /\ Len(<<x>>) = 1 /\ <<x>>[1] = x /\ Len(<<>>) = 0 /\ DOMAIN <<x>> = 1 .. 1
  OBVIOUS
<1>2. <<x>> # <<>>
  BY <1>1
<1>3. Tail(<<x>>) \in Seq({x}) /\ Len(Tail(<<x>>)) = 0
  BY <1>1, <1>2, HeadTailProperties
<1>4. Tail(<<x>>) = <<>>
  BY <1>3, EmptySeq
<1>5. 1 .. 1 = {1}
  OBVIOUS
<1>6. \A y : <<x>> = <<y>> => x = y
  OBVIOUS
<1> QED BY <1>1, <1>2, <1>4, <1>5, <1>6

LEMMA Closing ==
  ASSUME NEW m, OneDialogue(m)
  PROVE  /\ OneDialogue(closeModal(m)) /\ (closeModal(m) = <<"notice">> => m = <<"notice">>)
         /\ OneDialogue(closeModal2(m)) /\ closeModal2(m) # <<"notice">>
         /\ closeModal(m) \in {<<>>, <<"notice">>}
<1>1. CASE m = <<>>
  <2>1. DOMAIN m = {}
    BY <1>1
  <2>2. closeModal(m) = <<>> /\ closeModal2(m) = <<>>
    BY <2>1, KeepNone DEF closeModal, closeModal2
  <2> QED BY <1>1, <2>2, Single DEF OneDialogue
<1>2. CASE m = <<"notice">>
  <2>1. closeModal(m) = m
    BY <1>2, KeepOne DEF closeModal
  <2>2. DOMAIN m = {1} /\ m[1] = "notice"
    BY <1>2, Single
  <2>3. closeModal2(m) = <<>>
    BY <2>2, KeepNone DEF closeModal2
  <2> QED BY <1>2, <2>1, <2>3, Single DEF OneDialogue
<1>3. ASSUME NEW d \in Dialogue, m = <<d>>, d # "notice"
      PROVE  closeModal(m) = <<>> /\ closeModal2(m) = m
  <2>1. DOMAIN m = {1} /\ m[1] = d
    BY <1>3, Single
  <2>2. closeModal(m) = <<>>
    BY <1>3, <2>1, KeepNone DEF closeModal
  <2>3. d \in Dialogue \ {"notice"}
    BY <1>3
  <2>4. closeModal2(m) = m
    BY <1>3, <2>3, KeepOne DEF closeModal2
  <2> QED BY <2>2, <2>4
<1>4. ASSUME NEW d \in Dialogue, m = <<d>>, d # "notice"
      PROVE  /\ OneDialogue(closeModal(m)) /\ (closeModal(m) = <<"notice">> => m = <<"notice">>)
             /\ OneDialogue(closeModal2(m)) /\ closeModal2(m) # <<"notice">>
             /\ closeModal(m) \in {<<>>, <<"notice">>}
  <2>1. closeModal(m) = <<>> /\ closeModal2(m) = m
    BY <1>3, <1>4
  <2> QED BY <1>4, <2>1, Single DEF OneDialogue
<1> QED BY <1>1, <1>2, <1>4 DEF OneDialogue

LEMMA Opening ==
  ASSUME NEW m, OneDialogue(m), NEW d
  PROVE  openAlertModal(m, d) = <<d>> /\ bakRunModal(<<>>) = <<"stop">>
<1>1. \A x : Append(<<>>, x) = <<x>>
  OBVIOUS
<1>2. m # <<>> => Tail(m) = <<>>
  BY Single DEF OneDialogue
<1> QED BY <1>1, <1>2 DEF openAlertModal, bakRunModal

LEMMA Stopping ==
  ASSUME NEW m, OneDialogue(m)
  PROVE  bakRunModal(closeModal(m)) \in {<<"stop">>, <<"notice", "stop">>}
<1>1. closeModal(m) = <<>> \/ closeModal(m) = <<"notice">>
  BY Closing
<1>2. Append(<<>>, "stop") = <<"stop">> /\ Append(<<"notice">>, "stop") = <<"notice", "stop">>
  <2>1. ASSUME NEW x, NEW y PROVE Append(<<x>>, y) = <<x, y>>
    <3> DEFINE s == Append(<<x>>, y)
               t == <<x, y>>
    <3>1. /\ s \in Seq({x, y}) /\ Len(s) = 2 /\ s[1] = x /\ s[2] = y
          /\ t \in Seq({x, y}) /\ Len(t) = 2 /\ t[1] = x /\ t[2] = y
      BY AppendProperties
    <3> HIDE DEF s, t
    <3>2. \A i \in 1 .. Len(s) : s[i] = t[i]
      BY <3>1
    <3>3. s = t
      BY <3>1, <3>2, SeqEqual
    <3>4. QED
      BY <3>3 DEF s, t
  <2>2. \A y : Append(<<>>, y) = <<y>>
    OBVIOUS
  <2>3. QED
    BY <2>1, <2>2
<1>3. QED
  BY <1>1, <1>2 DEF bakRunModal

\* An error closes the notice, one way or the other.
LEMMA ErrorCloses ==
  ASSUME OneDialogue(modals), NEW c, NEW status, NEW rest, Error(c, status, rest)
  PROVE  OneDialogue(modals') /\ modals' # <<"notice">>
<1>1. \/ modals' = closeModal2(modals)
      \/ modals' = bakRunModal(<<>>)
      \/ modals' = openAlertModal(closeModal2(modals), "error")
  BY DEF Error, Show, RunError, AjaxError
<1>2. modals' = closeModal2(modals) \/ modals' = <<"stop">> \/ modals' = <<"error">>
  BY <1>1, Closing, Opening
<1>3. /\ <<"stop">> # <<"notice">> /\ <<"error">> # <<"notice">>
      /\ OneDialogue(<<"stop">>) /\ OneDialogue(<<"error">>)
  BY Single DEF OneDialogue, Dialogue
<1> QED BY <1>2, <1>3, Closing

\* The end check of a backup that did not start fails, and its error closes all.
LEMMA NotStartedEnds ==
  ASSUME NotStarted, NEW a \in Answer, NEW rest, Serve("endChk", a), Receive("endChk", "endChk", a, rest)
  PROVE  modals' = <<"stop">> /\ todo' = rest
<1>1. a = Denied \/ a = Failed
  <2>1. ASSUME NEW b, Served("endChk", b) PROVE b = Failed
    BY <2>1 DEF Served, RunEndChk, NotStarted
  <2>2. Broken("endChk", a) => a = Failed
    BY DEF Broken, NotStarted
  <2>3. QED
    BY <2>1, <2>2 DEF Serve
<1>2. Error("endChk", a.status, rest) /\ a.status \in {400, 500}
  BY <1>1 DEF Receive, Denied, Failed
<1>3. modals' = closeModal2(modals) \/ modals' = bakRunModal(<<>>)
  BY <1>2 DEF Error, Show, ByRunObject, RunError, NotStarted
<1>4. closeModal2(<<"notice", "stop">>) = <<"stop">>
  <2>1. "notice" \notin Dialogue \ {"notice"} /\ "stop" \in Dialogue \ {"notice"}
    BY DEF Dialogue
  <2>2. QED
    BY <2>1, KeepLast DEF closeModal2
<1>5. bakRunModal(<<>>) = <<"stop">>
  <2>1. \A x : Append(<<>>, x) = <<x>>
    OBVIOUS
  <2>2. QED
    BY <2>1 DEF bakRunModal
<1>6. QED
  BY <1>2, <1>3, <1>4, <1>5 DEF NotStarted, Error

LEMMA CallPolls == IInv /\ PollInv /\ Call => PollInv'
<1> SUFFICES ASSUME IInv, PollInv, Call PROVE PollInv'
  OBVIOUS
<1> DEFINE c == Head(todo)
           rest == Tail(todo)
<1>1. PICK a \in Answer : Serve(c, a) /\ Receive(c, c, a, rest)
  BY DEF Call
<1>2. kind' = kind /\ todo # <<>> /\ c # "status"
  BY DEF Call
<1>3. \/ todo = <<"exe">> /\ c = "exe" /\ rest = <<>>
      \/ todo = <<"exe", "endChk">> /\ c = "exe" /\ rest = <<"endChk">>
      \/ todo = <<"endChk">> /\ c = "endChk" /\ rest = <<>>
      \/ todo = <<"endChk", "status">> /\ c = "endChk" /\ rest = <<"status">>
      \/ todo = <<"log">> /\ c = "log" /\ rest = <<>>
      \/ todo = <<"log", "status">> /\ c = "log" /\ rest = <<"status">>
  BY <1>2, OneCall, TwoCalls DEF IInv, Asking, Asked, Request
<1>4. /\ rest \in {<<>>, <<"endChk">>, <<"status">>}
      /\ <<"log">> \o <<>> = <<"log">> /\ <<"log">> \o <<"status">> = <<"log", "status">>
      /\ <<"endChk">> \o <<>> = <<"endChk">>
  BY <1>3, OneCall, TwoCalls DEF Request
<1>5. /\ <<"exe">> \notin {<<>>, <<"endChk">>, <<"status">>, <<"log">>, <<"log", "status">>}
      /\ <<"exe", "endChk">> \notin {<<>>, <<"endChk">>, <<"status">>, <<"log">>, <<"log", "status">>}
  BY Tasks
<1>11. CASE NotStarted
  <2>1. c = "endChk" /\ rest = <<>>
    BY <1>11, OneCall DEF NotStarted, Request
  <2>2. modals' = <<"stop">> /\ todo' = <<>>
    BY <1>1, <1>11, <2>1, NotStartedEnds
  <2>3. OneDialogue(<<"stop">>) /\ <<"stop">> # <<"notice">>
    BY Single DEF OneDialogue, Dialogue
  <2> QED BY <1>5, <2>2, <2>3 DEF PollInv
<1> SUFFICES ASSUME OneDialogue(modals) PROVE PollInv'
  BY <1>11 DEF PollInv
<1>6. CASE a.status # 200
  <2>1. Error(c, a.status, rest)
    BY <1>1, <1>6 DEF Receive
  <2>2. OneDialogue(modals') /\ modals' # <<"notice">>
    BY <2>1, ErrorCloses
  <2>3. todo' = rest
    BY <2>1 DEF Error
  <2> QED BY <1>4, <1>5, <2>2, <2>3 DEF PollInv
<1>7. CASE a.status = 200 /\ c = "exe"
  <2>1. fn_exeload(a.data, rest) /\ page' = page
    BY <1>1, <1>7 DEF Receive, Load
  <2>2. /\ \/ modals' = modals
           \/ kind # "restore" /\ modals' = bakRunModal(closeModal(modals)) /\ params' = params
        /\ todo' = IF kind = "restore" THEN <<"endChk">> \o rest ELSE rest
    BY <2>1 DEF fn_exeload, Show
  <2>3. \/ modals' = modals \/ modals' = <<"stop">>
        \/ kind # "restore" /\ modals' = <<"notice", "stop">> /\ params' = params
    BY <2>2, Stopping
  <2>4. OneDialogue(modals') \/ (kind # "restore" /\ modals' = <<"notice", "stop">> /\ ~params')
    BY <2>3, <1>3, <1>7 DEF OneDialogue, Dialogue, PollInv
  <2>5. todo' = <<"endChk">>
    <3>1. CASE kind = "restore"
      <4>1. rest = <<>>
        BY <1>3, <1>7, <3>1 DEF IInv
      <4> QED BY <1>4, <2>2, <3>1, <4>1
    <3>2. CASE kind # "restore"
      <4>1. rest = <<"endChk">>
        BY <1>3, <1>7, <3>2 DEF PollInv
      <4> QED BY <2>2, <3>2, <4>1
    <3> QED BY <3>1, <3>2
  <2> QED BY <1>2, <1>5, <2>4, <2>5 DEF PollInv, NotStarted, Asking
<1>8. CASE a.status = 200 /\ c = "endChk"
  <2> DEFINE shown == IF {"ok", "complete_msg"} \subseteq a.data THEN openAlertModal(modals, "information") ELSE modals
  <2>1. fn_endChkload(a.data, rest)
    BY <1>1, <1>8 DEF Receive, Load
  <2>2. \/ modals' = shown /\ timers' = timers + 1 /\ todo' = rest
        \/ modals' = closeModal2(shown) /\ todo' = <<"log">> \o rest
    BY <2>1 DEF fn_endChkload
  <2>3. OneDialogue(shown)
    BY Opening DEF OneDialogue, Dialogue
  <2> HIDE DEF shown
  <2>4. rest \in {<<>>, <<"status">>} /\ todo \in Asking
    BY <1>3, <1>8 DEF Asking
  <2>5. timers = 0
    BY <2>4, Tasks DEF IInv
  <2>6. OneDialogue(modals') /\ (modals' = <<"notice">> => timers' = 1)
    BY <2>2, <2>3, <2>5, Closing
  <2>7. todo' \in {<<>>, <<"status">>, <<"log">>, <<"log", "status">>}
    BY <1>4, <2>2, <2>4
  <2> QED BY <1>5, <2>6, <2>7 DEF PollInv
<1>9. CASE a.status = 200 /\ c = "log"
  <2>1. todo' = rest /\ UNCHANGED <<timers, modals, page>>
    BY <1>1, <1>9 DEF Receive, Load
  <2>2. todo \notin Asking
    BY <1>3, <1>9, OneCall, TwoCalls DEF Asking, Request
  <2> QED BY <1>4, <1>5, <2>1, <2>2 DEF PollInv
<1>10. QED
  BY <1>3, <1>6, <1>7, <1>8, <1>9

LEMMA PollNext == IInv /\ PollInv /\ [Next]_vars => PollInv'
<1> SUFFICES ASSUME IInv, PollInv, [Next]_vars PROVE PollInv'
  OBVIOUS
<1>1. CASE Call
  BY <1>1, CallPolls
<1>2. CASE fn_status
  <2>1. UNCHANGED <<kind, page, timers, modals>> /\ todo # <<>> /\ Head(todo) = "status" /\ todo' = Tail(todo)
    BY <1>2 DEF fn_status
  <2>2. todo = <<"status">>
    BY <2>1, OneCall, TwoCalls DEF IInv, Asking, Asked, Request
  <2>3. todo \notin Asking /\ todo' = <<>>
    BY <2>1, <2>2, OneCall, TwoCalls DEF Asking, Request
  <2>4. ~NotStarted
    BY <2>3 DEF NotStarted, Asking
  <2> QED BY <2>1, <2>3, <2>4, Tasks DEF PollInv
<1>3. CASE StatusAnswer
  <2>1. todo = <<>> /\ fv_ajaxCallback = "status" /\ kind' = kind
    BY <1>3 DEF StatusAnswer, IInv
  <2>2. PICK a \in Answer : Receive("status", "status", a, <<>>)
    BY <1>3, <2>1 DEF StatusAnswer
  <2>3. todo' = <<>> /\ timers' = timers
    BY <2>2 DEF Receive, Load, Error
  <2>6. OneDialogue(modals)
    BY <2>1, OneCall DEF PollInv, NotStarted, Request
  <2>4. CASE a.status = 200
    <3>1. UNCHANGED <<modals, page>>
      BY <2>2, <2>4 DEF Receive, Load
    <3> QED BY <2>1, <2>3, <2>6, <3>1, Tasks DEF PollInv
  <2>5. CASE a.status # 200
    <3>1. OneDialogue(modals') /\ modals' # <<"notice">>
      BY <2>2, <2>5, <2>6, ErrorCloses DEF Receive
    <3> QED BY <2>1, <2>3, <3>1, Tasks DEF PollInv
  <2> QED BY <2>4, <2>5
<1>4. CASE Timeout
  <2>1. UNCHANGED <<kind, page, modals>> /\ todo' = <<"endChk", "status">>
    BY <1>4 DEF Timeout, TimerTask
  <2>2. OneDialogue(modals)
    BY <1>4, OneCall DEF Timeout, PollInv, NotStarted, Request
  <2> QED BY <2>1, <2>2, Tasks DEF PollInv, Asking
<1>5. CASE CloseDialogue
  <2>1. page = "open" /\ modals' = closeModal(modals) /\ UNCHANGED <<kind, todo, timers>>
    BY <1>5 DEF CloseDialogue, Idle
  <2>2. OneDialogue(modals) /\ params' = params /\ todo = <<>>
    BY <1>5, OneCall DEF CloseDialogue, Idle, PollInv, NotStarted, Request
  <2> QED BY <2>1, <2>2, Closing, Tasks DEF PollInv
<1>6. CASE Unload \/ CloseWindow
  BY <1>6 DEF Unload, CloseWindow, PollInv, NotStarted
<1>7. CASE Work \/ Expire \/ Restart \/ UNCHANGED vars
  BY <1>7 DEF Work, Expire, Restart, vars, pageVars, PollInv, NotStarted
<1> QED BY <1>1, <1>2, <1>3, <1>4, <1>5, <1>6, <1>7 DEF Next

LEMMA PollInit == Init => PollInv
<1> SUFFICES ASSUME Init PROVE PollInv
  OBVIOUS
<1>1. modals = <<"notice">>
  <2>1. modals = Append(<<>>, "notice")
    BY DEF Init, fn_init, bakAndRestoreModal
  <2>2. \A x : Append(<<>>, x) = <<x>>
    OBVIOUS
  <2> QED BY <2>1, <2>2
<1>2. todo \in Asking /\ (kind # "restore" => todo # <<"exe">>) /\ ~params
  BY OneCall, TwoCalls DEF Init, fn_init, Asking, Request
<1> QED BY <1>1, <1>2 DEF PollInv, OneDialogue, Dialogue

\* Whatever fails, expires or is closed: the notice that a run is going on does not
\* stand on an idle page that asks no more.
THEOREM NoticeIsTrue == Spec => []NoticeMeansPolling
<1>1. IInv /\ PollInv => NoticeMeansPolling
  <2> SUFFICES ASSUME IInv, PollInv, page = "open", todo = <<>>, NEW i \in DOMAIN modals, modals[i] = "notice"
               PROVE  timers > 0
    BY DEF NoticeMeansPolling, Idle
  <2>3. OneDialogue(modals)
    BY OneCall DEF PollInv, NotStarted, Request
  <2>1. modals = <<"notice">>
    <3>1. DOMAIN <<>> = {}
      OBVIOUS
    <3> QED BY <2>3, <3>1, Single DEF OneDialogue
  <2>2. <<>> \notin Asking
    BY OneCall, TwoCalls DEF Asking, Request
  <2> QED BY <2>1, <2>2 DEF PollInv, IInv
<1>2. QED
  BY <1>1, InitInv, NextInv, PollInit, PollNext, PTL DEF Spec
=============================================================================
