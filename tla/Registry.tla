------------------------------ MODULE Registry ------------------------------
(***************************************************************************)
(* The registry of servers: backup servers (MNGSVRTB), the target servers  *)
(* of each (BAKMNGSVRTB), the instances of those (BAKTGTSVRTB), and the    *)
(* tree in which the pages show them (BAKMNGTRETB).  Ids are numbers whose *)
(* digits tell the parent: the first target server of backup server h is   *)
(* h*100, and an instance is its server's id followed by three digits.     *)
(*                                                                         *)
(* Pages interleave.  A page is the inputs it holds: what is clicked or    *)
(* saved is looked up, registered or deleted by them, however old.  A      *)
(* handler is two steps where it reads before it writes; the writes of its *)
(* transaction are one, since the keys they lock stay locked until the end.*)
(***************************************************************************)
EXTENDS Naturals, Sequences, FiniteSets, FiniteSetsExt

CONSTANTS
    Page,        \* the browser windows
    Name,        \* names of target servers
    TgtName,     \* names of instances, which may be empty
    NoName,      \* an input that is empty
    Radix,       \* 10: ids are written in it
    Span,        \* 100: ids of target servers per backup server
    License,     \* how many instances the license file allows
    Hosts,       \* bound: how many backup servers there are
    MaxDrop,     \* bound: how many of them are deleted
    MaxReg,      \* bound: how many servers and instances are registered
    MaxWork      \* bound: how many pages work on an instance

\* What is read off the digits of an id is what Span stands for in them.
\* Span is a power of Radix: divided by it again and again it becomes 1.
ASSUME DigitAssumption ==
    /\ {Radix, Span} \subseteq Nat /\ 1 < Radix /\ Radix <= Span
    /\ \E P \in SUBSET (1 .. Span) : Span \in P /\ \A p \in P : p = 1 \/ \E q \in P : p = Radix * q
ASSUME BoundAssumption == {License, Hosts, MaxDrop, MaxReg, MaxWork} \subseteq Nat
ASSUME NameAssumption  == NoName \notin Name /\ TgtName \subseteq Name \cup {NoName}

VARIABLES
    MNGSVRTB,      \* use_yon of each backup server; its place is its id
    BAKMNGSVRTB,   \* the target servers
    BAKTGTSVRTB,   \* the instances
    BAKMNGTRETB,   \* the tree
    info,          \* rows of the other tables about an instance: settings, schedules, runs, logs
    dirs,          \* directories of backups on the backup servers
    work,          \* pages that will write such a row: a run that ends, a form that is saved
    page,          \* inputs of each page, see Inputs
    pc, got,       \* its request, and what the first query of the handler gave
    answer,        \* of its last request
    asked,         \* backup servers whose deletion is being confirmed
    regs,          \* how many servers and instances have been registered; numbers them
    history        \* see History

dbVars   == <<MNGSVRTB, BAKMNGSVRTB, BAKTGTSVRTB, BAKMNGTRETB, info, regs>>
hostVars == <<dirs, work>>
webVars  == <<pc, got, answer>>
vars     == <<dbVars, hostVars, page, webVars, asked, history>>

\* "by" is the number of the registration; "of" that of the server an instance was meant for.
Server  == [id : Nat, pid : Nat, nam : Name, by : Nat]
Target  == [id : Nat, pid : Nat, nam : Name \cup {NoName}, by : Nat, of : Nat]
Node    == [id : Nat, pid : Nat, nam : Name \cup {NoName}]
Info    == [bms_id : Nat, bts_id : Nat, by : Nat]
Dir     == [host : Nat, bms : Name, bts : Name \cup {NoName}, by : Nat]
Inputs  == [view : {"list", "server", "target"}, bms_id : Nat, bms_pid : Nat, bmt_id : Nat, bts_id : Nat,
            name : Name \cup {NoName}, bms_nam : Name \cup {NoName}, bts_nam : Name \cup {NoName}, tree : SUBSET Node, shown : Nat]
PC      == {"ready", "insertMng", "insertTgt", "deleteMng", "deleteTgt"}
Answer  == {"none", "saved", "fail", "deleted", "error"}
History == [late : SUBSET Nat,      \* instances registered while their server was on its way out, or gone
            busy : SUBSET Nat,      \* instances that were deleted while a page worked on them
            raced : SUBSET Page,    \* pages during whose request another one was registered
            checked : SUBSET Page,  \* pages whose license check still holds
            unchecked : BOOLEAN]    \* an instance was registered without

Slot     == Radix * Span
First[n \in Nat] == IF n < Radix THEN n ELSE First[n \div Radix]
Lead(id) == First[id]                  \* bms_id.toString().charAt(0)
Right(n) == n % Slot
InUse    == {h \in DOMAIN MNGSVRTB : MNGSVRTB[h]}
Ids(T)   == {r.id : r \in T}
At(T, n) == {r \in T : r.id = n}
Under(n) == {r \in BAKTGTSVRTB : r.pid = n}

-----------------------------------------------------------------------------
(***************************************************************************)
(* backup_mng_status.jsp.  Requests are made under the overlay, so a page  *)
(* does one thing at a time.                                               *)
(***************************************************************************)
CloseModal(p) == answer' = [answer EXCEPT ![p] = "none"] /\ UNCHANGED <<pc, got>>
Show(p, new) == /\ page' = [page EXCEPT ![p] = new]
                /\ history' = [history EXCEPT !.checked = @ \ {p}]
                /\ CloseModal(p)
                /\ UNCHANGED <<dbVars, hostVars, asked>>

\* fn_init: the list of servers, and the tree as it is now.
Loaded(p) == [page[p] EXCEPT !.view = "list", !.name = NoName, !.tree = BAKMNGTRETB']

\* The menu loads the page anew, with empty inputs.
Blank   == [view |-> "list", bms_id |-> 0, bms_pid |-> 0, bmt_id |-> 0, bts_id |-> 0,
            name |-> NoName, bms_nam |-> NoName, bts_nam |-> NoName, tree |-> {}, shown |-> 0]
Load(p) == pc[p] = "ready" /\ Show(p, [Blank EXCEPT !.tree = BAKMNGTRETB])

ClickHost(p) == \E h \in InUse :
    /\ pc[p] = "ready"
    /\ Show(p, [page[p] EXCEPT !.view = "list", !.name = NoName, !.bms_pid = h])

\* fn_initinput("bms").
ClearServer(in) == [in EXCEPT !.bms_id = 0, !.bms_pid = 0, !.shown = 0]
\* fn_treesearch, fn_treelv1.
ClickServer(p) == \E n \in page[p].tree :
    LET in == [page[p] EXCEPT !.view = "server", !.name = n.nam]
        S  == {s \in At(BAKMNGSVRTB, n.id) : s.pid = n.pid}
    IN /\ pc[p] = "ready" /\ n.pid < Span
       /\ \/ S = {} /\ Show(p, ClearServer(in))
          \/ \E s \in S : Show(p, [in EXCEPT !.bms_id = s.id, !.bms_pid = s.pid, !.bms_nam = s.nam, !.shown = s.by])

\* fn_initinput("bts").
ClearTarget(in) == [in EXCEPT !.bts_id = 0, !.bts_nam = NoName]
\* fn_treesearch, fn_treelv2.  The server's name is looked up by the first digit of
\* its id, so is the backup server; what is not found keeps its old value.
ClickTarget(p) == \E n \in page[p].tree :
    LET in == [page[p] EXCEPT !.view = "target"]
        T  == {t \in At(BAKTGTSVRTB, n.id) : t.pid = n.pid}
        S  == At(BAKMNGSVRTB, n.pid)
    IN /\ pc[p] = "ready" /\ n.pid >= Span
       /\ \/ T = {} /\ Show(p, ClearTarget(in))
          \/ \E t \in T :
                Show(p, [in EXCEPT !.bts_id = t.id, !.bms_id = t.pid, !.bts_nam = t.nam,
                         !.bmt_id = IF Lead(t.id) \in InUse THEN Lead(t.id) ELSE @,
                         !.name = IF \E s \in S : s.pid = Lead(s.id) THEN (CHOOSE s \in S : TRUE).nam ELSE @,
                         !.shown = IF S = {} THEN 0 ELSE (CHOOSE s \in S : TRUE).by])

\* fn_bms_add.
AddServer(p) ==
    /\ pc[p] = "ready" /\ page[p].bms_pid # 0
    /\ Show(p, ClearServer([page[p] EXCEPT !.view = "server", !.bmt_id = page[p].bms_pid]))

LicenseBarelyLeft == License >= Cardinality(BAKTGTSVRTB)        \* mutant: svr < cnt
LicenseLeft == License > Cardinality(BAKTGTSVRTB)               \* lcnInfo
\* fn_bts_add: the license is checked before the form opens.
AddTarget(p) ==
    /\ pc[p] = "ready" /\ LicenseLeft /\ page[p].name # NoName
    /\ page' = [page EXCEPT ![p] = ClearTarget([@ EXCEPT !.view = "target", !.bmt_id = page[p].bms_pid])]
    /\ history' = [history EXCEPT !.checked = @ \cup {p}]
    /\ CloseModal(p)
    /\ UNCHANGED <<dbVars, hostVars, asked>>

Ask(p, next, n) ==
    /\ pc' = [pc EXCEPT ![p] = next]
    /\ got' = [got EXCEPT ![p] = n]
    /\ answer' = [answer EXCEPT ![p] = "none"]
    /\ history' = [history EXCEPT !.raced = @ \ {p}]
    /\ UNCHANGED <<dbVars, hostVars, page, asked>>

Reply(p, a) ==
    /\ pc' = [pc EXCEPT ![p] = "ready"]
    /\ answer' = [answer EXCEPT ![p] = a]
    /\ got' = [got EXCEPT ![p] = 0]
    /\ page' = IF a \in {"saved", "deleted"} THEN [page EXCEPT ![p] = Loaded(p)] ELSE page
    /\ UNCHANGED asked
ReplyOnly(p, a) == UNCHANGED <<dbVars, hostVars, history>> /\ Reply(p, a)

-----------------------------------------------------------------------------
(***************************************************************************)
(* Saving: updateMngSvr and updateTgtSvr, which register what has no id.   *)
(***************************************************************************)
\* Names and addresses are all that changes; a server without instances is an error.
UpdateMngSvr(p) ==
    /\ pc[p] = "ready" /\ page[p].view = "server" /\ page[p].bms_id # 0
    /\ ReplyOnly(p, IF At(BAKMNGTRETB, page[p].bms_id) # {} /\ Under(page[p].bms_id) # {}
                    THEN "saved" ELSE "error")

UpdateTgtSvr(p) ==
    /\ pc[p] = "ready" /\ page[p].view = "target" /\ page[p].bts_id # 0
    /\ ReplyOnly(p, IF At(BAKMNGTRETB, page[p].bts_id) # {} THEN "saved" ELSE "fail")

MaxOfAll(h) == IF BAKMNGSVRTB = {} THEN h * Span ELSE Max(Ids(BAKMNGSVRTB)) + 1   \* mutant: no WHERE
MngCount(h) == h * Span + Cardinality({s \in BAKMNGSVRTB : s.pid = h})          \* mutant: COUNT
MngMaxId(h) == LET S == {s \in BAKMNGSVRTB : s.pid = h}
               IN IF S = {} THEN h * Span ELSE Max(Ids(S)) + 1
TgtMaxId(b, h) == b * Slot + IF Under(b) = {} THEN h * Span ELSE Max({Right(n) : n \in Ids(Under(b))}) + 1

\* Without a backup server in the inputs the queries are no SQL ("*100").
FindMngSvrMaxId(p) ==
    /\ pc[p] = "ready" /\ page[p].view = "server" /\ page[p].bms_id = 0
    /\ \/ page[p].bmt_id = 0 /\ ReplyOnly(p, "error")
       \/ page[p].bmt_id # 0 /\ Ask(p, "insertMng", MngMaxId(page[p].bmt_id))

\* Without a target server the row has no bts_pid, which the table is taken to need.
FindTgtSvrMaxId(p) ==
    LET in == page[p] IN
    /\ pc[p] = "ready" /\ in.view = "target" /\ in.bts_id = 0
    /\ \/ 0 \in {in.bmt_id, in.bms_id} /\ ReplyOnly(p, "error")
       \/ 0 \notin {in.bmt_id, in.bms_id} /\ Ask(p, "insertTgt", TgtMaxId(in.bms_id, in.bmt_id))

Race(p) == (history.raced \ {p}) \cup {q \in Page \ {p} : pc[q] \in {"insertMng", "insertTgt"}}

InsertMngSvr(p) ==
    /\ pc[p] = "insertMng"
    /\ \/ got[p] \in Ids(BAKMNGSVRTB) \cup Ids(BAKMNGTRETB) /\ ReplyOnly(p, "error")
       \/ /\ regs < MaxReg /\ got[p] \notin Ids(BAKMNGSVRTB) \cup Ids(BAKMNGTRETB)
          /\ \E nam \in Name :
                LET h == page[p].bmt_id IN
                /\ BAKMNGSVRTB' = BAKMNGSVRTB \cup {[id |-> got[p], pid |-> h, nam |-> nam, by |-> regs + 1]}
                /\ BAKMNGTRETB' = BAKMNGTRETB \cup {[id |-> got[p], pid |-> h, nam |-> nam]}
          /\ regs' = regs + 1
          /\ history' = [history EXCEPT !.raced = Race(p)]
          /\ UNCHANGED <<MNGSVRTB, BAKTGTSVRTB, info, hostVars>>
          /\ Reply(p, "saved")

InsertTgtSvr(p) ==
    LET b == page[p].bms_id IN
    /\ pc[p] = "insertTgt"
    /\ \/ got[p] \in Ids(BAKTGTSVRTB) \cup Ids(BAKMNGTRETB) /\ ReplyOnly(p, "error")
       \/ /\ regs < MaxReg /\ got[p] \notin Ids(BAKTGTSVRTB) \cup Ids(BAKMNGTRETB)
          /\ \E nam \in TgtName :
                /\ BAKTGTSVRTB' = BAKTGTSVRTB \cup
                      {[id |-> got[p], pid |-> b, nam |-> nam, by |-> regs + 1, of |-> page[p].shown]}
                /\ BAKMNGTRETB' = BAKMNGTRETB \cup {[id |-> got[p], pid |-> b, nam |-> nam]}
          /\ regs' = regs + 1
          /\ history' = [history EXCEPT !.raced = Race(p), !.checked = {},
                !.unchecked = @ \/ p \notin history.checked,
                !.late = @ \cup IF \E s \in At(BAKMNGSVRTB, b) : s.by = page[p].shown THEN {} ELSE {regs + 1}]
          /\ UNCHANGED <<MNGSVRTB, BAKMNGSVRTB, info, hostVars>>
          /\ Reply(p, "saved")

-----------------------------------------------------------------------------
(***************************************************************************)
(* Deleting: deleteMngSvr and deleteTgtSvr.  The rows go first, then the   *)
(* crontab (module Schedules) and the directories, over SSH: a connection  *)
(* that is refused rolls the rows back, one that breaks is not noticed.    *)
(***************************************************************************)
BeginDelete(p) ==
    /\ pc[p] = "ready"
    /\ \/ page[p].view = "server" /\ Ask(p, "deleteMng", Cardinality(Under(page[p].bms_id)))
       \/ page[p].view = "target" /\ Ask(p, "deleteTgt", 1)

\* rm -rf of the directories, on the backup server of the first digit.
Remove(id, D) == dirs' \in {dirs, {d \in dirs : ~(d.host = Lead(id) /\ Lead(id) \in InUse /\ d \in D)}}
OfServer(nam)   == {d \in dirs : d.bms = nam}
OfTarget(s, t)  == {d \in dirs : d.bms = s /\ (t = NoName \/ d.bts = t)}
Bys(T)          == {t.by : t \in T}
\* A row that is still to be written will name ids that are free again.
Leave(T)        == [history EXCEPT !.busy = @ \cup (Bys(T) \cap Bys(work))]

NoneOf(b)         == {}                                          \* mutant: no deleteTgtSvrPid
InstancesOf(b)    == Under(b)                                    \* deleteTgtSvrPid
TargetsOnly(n, b) == n.id # b                                    \* mutant: no deleteTreePid
NotOf(n, b)       == n.id # b /\ n.pid # b                       \* deleteTree, deleteTreePid
InfoStays(i, b)   == TRUE                                        \* mutant: settings and logs stay
InfoNotOf(i, b)   == i.bms_id # b                                \* deleteStt ... deleteBakRunLv1

\* What hangs below the server is deleted if its first query has seen an instance.
DeleteMngSvr(p) ==
    LET b == page[p].bms_id IN
    /\ pc[p] = "deleteMng" /\ b # 0
    /\ \/ /\ got[p] = 0
          /\ BAKMNGSVRTB' = BAKMNGSVRTB \ At(BAKMNGSVRTB, b)
          /\ BAKMNGTRETB' = BAKMNGTRETB \ At(BAKMNGTRETB, b)
          /\ history' = [history EXCEPT !.late = @ \cup Bys(Under(b))]
          /\ UNCHANGED <<MNGSVRTB, BAKTGTSVRTB, info, regs, hostVars>>
          /\ Reply(p, "deleted")
       \/ /\ got[p] > 0
          /\ BAKMNGSVRTB' = BAKMNGSVRTB \ At(BAKMNGSVRTB, b)
          /\ BAKTGTSVRTB' = BAKTGTSVRTB \ InstancesOf(b)
          /\ BAKMNGTRETB' = {n \in BAKMNGTRETB : NotOf(n, b)}
          /\ info' = {i \in info : InfoNotOf(i, b)}
          /\ Remove(b, OfServer(page[p].bms_nam))
          /\ history' = Leave(Under(b))
          /\ UNCHANGED <<MNGSVRTB, regs, work>>
          /\ Reply(p, "deleted")
       \/ got[p] > 0 /\ Lead(b) \in InUse /\ ReplyOnly(p, "error")

DeleteTgtSvr(p) ==
    LET in == page[p]  T == At(BAKTGTSVRTB, in.bts_id) IN
    /\ pc[p] = "deleteTgt" /\ in.bts_id # 0
    /\ \/ /\ BAKTGTSVRTB' = BAKTGTSVRTB \ T
          /\ BAKMNGTRETB' = BAKMNGTRETB \ At(BAKMNGTRETB, in.bts_id)
          /\ info' = {i \in info : ~(i.bms_id = in.bms_id /\ i.bts_id = in.bts_id)}
          /\ Remove(in.bts_id, OfTarget(in.name, in.bts_nam))
          /\ history' = Leave(T)
          /\ UNCHANGED <<MNGSVRTB, BAKMNGSVRTB, regs, work>>
          /\ Reply(p, "deleted")
       \/ Lead(in.bts_id) \in InUse /\ ReplyOnly(p, "error")

EmptyIdIsChecked(p) ==                                           \* mutant: isEmpty before charAt
    /\ \/ pc[p] = "deleteMng" /\ page[p].bms_id = 0
       \/ pc[p] = "deleteTgt" /\ page[p].bts_id = 0
    /\ info' = {}
    /\ UNCHANGED <<MNGSVRTB, BAKMNGSVRTB, BAKTGTSVRTB, BAKMNGTRETB, regs, hostVars, history>>
    /\ Reply(p, "deleted")
\* An empty id drops the conditions of most of the deletes; then charAt(0) fails and
\* they are rolled back.  deleteMngSvr stops before them if there is no instance at all.
DeleteNothing(p) ==
    \/ pc[p] = "deleteMng" /\ page[p].bms_id = 0
       /\ ReplyOnly(p, IF BAKTGTSVRTB = {} THEN "deleted" ELSE "error")
    \/ pc[p] = "deleteTgt" /\ page[p].bts_id = 0 /\ ReplyOnly(p, "error")

-----------------------------------------------------------------------------
(***************************************************************************)
(* Backup servers (server.jsp), and the work on instances.                 *)
(***************************************************************************)

restVars == <<BAKMNGSVRTB, BAKTGTSVRTB, BAKMNGTRETB, regs, page, webVars>>

\* The id is MAX + 1, and a deleted server keeps its row.
InsertSvr ==
    /\ Len(MNGSVRTB) < Hosts
    /\ MNGSVRTB' = Append(MNGSVRTB, TRUE)
    /\ UNCHANGED <<restVars, info, hostVars, asked, history>>

\* The page asks whether there are target servers, and then the user.
DeleteSvrInfo(h) ==
    /\ h \in InUse \ asked
    /\ Cardinality(asked) + (Len(MNGSVRTB) - Cardinality(InUse)) < MaxDrop
    /\ \A s \in BAKMNGSVRTB : s.pid # h
    /\ asked' = asked \cup {h}
    /\ UNCHANGED <<restVars, MNGSVRTB, info, hostVars, history>>

DeleteSvr(h) ==
    /\ h \in asked /\ asked' = asked \ {h}
    /\ MNGSVRTB' = [MNGSVRTB EXCEPT ![h] = FALSE]
    /\ UNCHANGED <<restVars, info, hostVars, history>>

\* A window starts a backup, whose directory is on the server the first digit tells.
\* It records the run at its end.
StartWork(t) ==
    /\ Cardinality(work) < MaxWork /\ Lead(t.pid) \in InUse
    /\ \E s \in At(BAKMNGSVRTB, t.pid) :
          dirs' = dirs \cup {[host |-> Lead(t.pid), bms |-> s.nam, bts |-> t.nam, by |-> t.by]}
    /\ work' = work \cup {[bms_id |-> t.pid, bts_id |-> t.id, by |-> t.by]}
    /\ UNCHANGED <<restVars, MNGSVRTB, info, asked, history>>

EndWork(w) ==
    /\ work' = work \ {w} /\ info' = info \cup {w}
    /\ UNCHANGED <<restVars, MNGSVRTB, dirs, asked, history>>

-----------------------------------------------------------------------------
Init ==
    /\ MNGSVRTB = <<>> /\ BAKMNGSVRTB = {} /\ BAKTGTSVRTB = {} /\ BAKMNGTRETB = {}
    /\ info = {} /\ dirs = {} /\ work = {} /\ asked = {} /\ regs = 0
    /\ page = [p \in Page |-> Blank]
    /\ pc = [p \in Page |-> "ready"] /\ got = [p \in Page |-> 0] /\ answer = [p \in Page |-> "none"]
    /\ history = [late |-> {}, busy |-> {}, raced |-> {}, checked |-> {}, unchecked |-> FALSE]

Click(p)  == Load(p) \/ ClickHost(p) \/ ClickServer(p) \/ ClickTarget(p) \/ AddServer(p) \/ AddTarget(p)
Save(p)   == UpdateMngSvr(p) \/ UpdateTgtSvr(p) \/ FindMngSvrMaxId(p) \/ FindTgtSvrMaxId(p)
             \/ InsertMngSvr(p) \/ InsertTgtSvr(p)
Delete(p) == BeginDelete(p) \/ DeleteMngSvr(p) \/ DeleteTgtSvr(p) \/ DeleteNothing(p)

Next ==
    \/ \E p \in Page : Click(p) \/ Save(p) \/ Delete(p)
    \/ InsertSvr
    \/ \E h \in InUse : DeleteSvrInfo(h) \/ DeleteSvr(h)
    \/ \E t \in BAKTGTSVRTB : StartWork(t)
    \/ \E w \in work : EndWork(w)

Spec == Init /\ [][Next]_vars

-----------------------------------------------------------------------------
TypeOK ==
    /\ MNGSVRTB \in Seq(BOOLEAN) /\ Len(MNGSVRTB) <= Hosts
    /\ \A s \in BAKMNGSVRTB : s \in Server
    /\ \A t \in BAKTGTSVRTB : t \in Target
    /\ \A n \in BAKMNGTRETB : n \in Node
    /\ \A i \in info \cup work : i \in Info
    /\ \A d \in dirs : d \in Dir
    /\ \A p \in Page : \A n \in page[p].tree : n \in Node
    /\ \A p \in Page : [page[p] EXCEPT !.tree = {}] \in Inputs
    /\ pc \in [Page -> PC] /\ got \in [Page -> Nat] /\ answer \in [Page -> Answer]
    /\ asked \in SUBSET (1 .. Hosts) /\ regs \in 0 .. MaxReg
    /\ history \in History

\* The tree shows the target servers and the instances that are registered, each
\* under the server it was registered under, and no two of them have one id.
TreeIsRegistry ==
    /\ {[id |-> n.id, pid |-> n.pid] : n \in BAKMNGTRETB}
          = {[id |-> r.id, pid |-> r.pid] : r \in BAKMNGSVRTB \cup BAKTGTSVRTB}
    /\ \A r, q \in BAKMNGSVRTB \cup BAKTGTSVRTB : r.id = q.id => r = q

\* The commands for a target server and its instances go to their backup server
\* (the first digit of the ids), while there are fewer than ten and none of them
\* has had a hundred target servers.
CommandsReachTheirHost ==
    \A s \in BAKMNGSVRTB : s.pid < Radix /\ regs <= Span =>
        Lead(s.id) = s.pid /\ \A t \in Under(s.id) : Lead(t.id) = s.pid

\* A registration that is given its parents fails only if another one was made between
\* its two steps: MAX + 1 is free.
RegistrationFailsOnlyRaced ==
    [][\A p \in Page : pc[p] \in {"insertMng", "insertTgt"} /\ answer'[p] = "error" =>
            p \in history.raced]_vars

\* An instance is under the server that was on the page when it was registered, not
\* under one that got the id later, unless that server was going or gone by then.
InstanceHasItsServer ==
    \A t \in BAKTGTSVRTB : t.by \in history.late \/ \E s \in At(BAKMNGSVRTB, t.pid) : s.by = t.of

\* What is stored under the ids of an instance is about that instance, which is
\* registered: ids are used again (MAX + 1), so what stays behind would be taken over.
\* Only a page that was at work when its instance was deleted leaves something.
InfoIsOfItsInstance ==
    \A i \in info : \/ i.by \in history.busy
                    \/ \E t \in At(BAKTGTSVRTB, i.bts_id) : t.pid = i.bms_id /\ t.by = i.by

\* What is stored about an instance stays as long as the instance: no page deletes it
\* with an id that is empty or of another.
InfoStaysWithInstance ==
    [][\A i \in info \ info' : \A t \in BAKTGTSVRTB' : ~(t.by = i.by /\ t.id = i.bts_id)]_vars

\* There are more instances than the license allows only if one was registered on a
\* form that another registration has overtaken, or that was opened without the check.
LicenseIsKept == Cardinality(BAKTGTSVRTB) <= License \/ history.unchecked

=============================================================================
