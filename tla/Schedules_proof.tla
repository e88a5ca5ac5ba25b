-------------------------- MODULE Schedules_proof --------------------------
(***************************************************************************)
(* Proofs about Schedules, for any servers, plans, names inside names,     *)
(* requests and failing connections.                                       *)
(***************************************************************************)
EXTENDS Schedules, TLAPS

AtWork   == {"ssh", "reading"}
Locked   == {"ssh", "reading", "commit"}
Edits(r) == IF req[r].kind = "insert" THEN req[r].new ELSE req[r].old

AskOK(r) ==
    \/ req[r].kind = "insert" /\ req[r].old = {} /\ \E n \in Schedule : req[r].new = {n}
    \/ req[r].kind = "update" /\ \E o, n \in Schedule : req[r].old = {o} /\ req[r].new = {n}
    \/ req[r].kind = "delete" /\ req[r].new = {} /\ \E o \in Schedule : req[r].old = {o}
    \/ req[r].kind = "drop" /\ req[r].new = {}

\* What a web thread knows and holds: the names it edits are the ones it has
\* locked, up to those that were gone already.
WorkInv(r) ==
    /\ pc[r] # "idle" => AskOK(r)
    /\ pc[r] = "row" /\ req[r].kind \in {"update", "delete"} => names[r] = req[r].old
    /\ pc[r] \in AtWork => \A s \in names[r] : s \in Held(r) \/ "stale" \in mishap[s]
    /\ pc[r] \in AtWork /\ req[r].kind # "drop" => names[r] = Edits(r)
    /\ pc[r] = "reading" => names[r] # {}
    /\ pc[r] \in Locked => /\ txn[r].new = req[r].new
                           /\ req[r].kind # "drop" => txn[r].old = req[r].old

\* Its shells: one that runs is waited for, or its connection is broken.
Waited(r, s) == pc[r] = "reading" /\ s = This(r)
Broken(r, s) == /\ "lost" \in mishap[s]
                /\ req[r].kind # "drop" => \A l \in req[r].new : "lost" \in mishap[l]
Untouched(r) == r \notin touched /\ \A s \in Schedule : shell[<<r, s>>] = <<>>
Before(r)    == \/ pc[r] \in {"idle", "find", "row"}
                \/ req[r].kind # "drop" /\ pc[r] \in {"ssh", "fail", "error"}
ShellInv(r) ==
    /\ \A s \in Schedule : shell[<<r, s>>] # <<>> =>
          /\ Waited(r, s) \/ Broken(r, s)
          /\ req[r].kind # "insert" => \A l \in Covered({s}) : "prefix" \in mishap[l]
    /\ Before(r) => Untouched(r)

RInv(r)  == WorkInv(r) /\ ShellInv(r)
Disjoint == \A a, b \in Request : a # b => Held(a) \cap Held(b) = {}
LInv     == TypeOK /\ Disjoint /\ \A r \in Request : RInv(r)

-----------------------------------------------------------------------------
LEMMA ThisIn == ASSUME NEW r \in Request, names[r] # {} PROVE This(r) \in names[r]
  BY DEF This

LEMMA ThisSame == ASSUME NEW r \in Request, names'[r] = names[r] PROVE This(r)' = This(r)
  BY DEF This

\* The scripts, and how many commands they have.
Size(k) == IF k = "update" THEN 6 ELSE 4
LEMMA Scripts ==
  /\ Script("insert") = <<"truncate", "list", "echo", "install">>
  /\ Script("update") = <<"truncate", "list", "perl", "install", "echo", "install">>
  /\ Script("delete") = <<"truncate", "list", "perl", "install">>
  /\ Script("drop") = <<"truncate", "list", "perl", "install">>
  BY DEF Script

LEMMA ScriptType ==
  ASSUME NEW k \in Kind
  PROVE  /\ Script(k) \in Seq(Command) /\ Script(k) # <<>>
         /\ Len(Script(k)) = Size(k)
<1>1. {"truncate", "list", "perl", "echo", "install"} \subseteq Command
  BY DEF Command
<1>2. \A a, b, c, d \in Command : <<a, b, c, d>> \in Seq(Command) /\ Len(<<a, b, c, d>>) = 4
  OBVIOUS
<1>3. \A a, b, c, d, e, f \in Command :
         <<a, b, c, d, e, f>> \in Seq(Command) /\ Len(<<a, b, c, d, e, f>>) = 6
  OBVIOUS
<1>4. /\ Script("insert") \in Seq(Command) /\ Len(Script("insert")) = 4
      /\ Script("delete") \in Seq(Command) /\ Len(Script("delete")) = 4
      /\ Script("drop") = Script("delete")
  BY <1>1, <1>2, Scripts
<1>5. Script("update") \in Seq(Command) /\ Len(Script("update")) = 6
  <2>1. /\ "truncate" \in Command /\ "list" \in Command /\ "perl" \in Command
        /\ "echo" \in Command /\ "install" \in Command
    BY <1>1
  <2>2. /\ <<"truncate", "list", "perl", "install", "echo", "install">> \in Seq(Command)
        /\ Len(<<"truncate", "list", "perl", "install", "echo", "install">>) = 6
    BY <1>3, <2>1
  <2>3. QED
    BY <2>2, Scripts
<1>6. Script(k) \in Seq(Command) /\ Len(Script(k)) = Size(k)
  BY <1>4, <1>5 DEF Kind, Size
<1>7. Len(<<>>) = 0
  OBVIOUS
<1>8. QED
  BY <1>6, <1>7 DEF Size

\* What the others do leaves a request alone, as long as its shells do not step.
LEMMA Others ==
  ASSUME NEW r \in Request, RInv(r),
         pc'[r] = pc[r], req'[r] = req[r], txn'[r] = txn[r], names'[r] = names[r],
         \A s \in Schedule : shell'[<<r, s>>] = shell[<<r, s>>],
         \A l \in Schedule : mishap[l] \subseteq mishap'[l],
         r \in touched' => r \in touched, TypeOK
  PROVE  RInv(r)'
<1>1. This(r)' = This(r)
  BY ThisSame
<1>2. names[r] \subseteq Schedule /\ req[r].new \subseteq Schedule
  BY DEF TypeOK, Ask
<1>3. WorkInv(r)'
  BY <1>2 DEF RInv, WorkInv, AskOK, Edits, Held
<1>4. ShellInv(r)'
  <2>1. \A s \in Schedule : Waited(r, s) \/ Broken(r, s) => (Waited(r, s) \/ Broken(r, s))'
    BY <1>1, <1>2 DEF Waited, Broken
  <2>2. Before(r)' = Before(r) /\ (Untouched(r) => Untouched(r)')
    BY DEF Before, Untouched
  <2>3. \A s \in Schedule : Covered({s}) \subseteq Schedule
    BY DEF Covered
  <2>4. QED
    BY <2>1, <2>2, <2>3 DEF RInv, ShellInv
<1>5. QED
  BY <1>3, <1>4 DEF RInv

-----------------------------------------------------------------------------
(***************************************************************************)
(* Types.                                                                  *)
(***************************************************************************)
LEMMA SendType ==
  ASSUME TypeOK, NEW r \in Request, SendInsert(r) \/ SendUpdate(r) \/ SendDelete(r) \/ SendDrop(r)
  PROVE  TypeOK'
<1>1. PICK k \in Kind, old \in SUBSET Schedule, new \in SUBSET Schedule, p \in {"row", "find"} :
         Send(r, k, old, new, p)
  <2>1. CASE SendInsert(r)
    BY <2>1 DEF SendInsert, Kind
  <2>2. CASE SendUpdate(r)
    <3>1. PICK s \in BAKSCDTB, p \in Plan : Send(r, "update", {s}, {<<s[1], p>>}, "find")
      BY <2>2 DEF SendUpdate
    <3>2. {s} \in SUBSET Schedule /\ {<<s[1], p>>} \in SUBSET Schedule
      BY DEF TypeOK, Schedule
    <3>3. QED
      BY <3>1, <3>2 DEF Kind
  <2>3. CASE SendDelete(r)
    BY <2>3 DEF SendDelete, Kind, TypeOK
  <2>4. CASE SendDrop(r)
    <3>1. PICK S \in {{s} : s \in Server} \cup {Server} : Send(r, "drop", Of(S), {}, "find")
      BY <2>4 DEF SendDrop
    <3>2. Of(S) \in SUBSET Schedule
      BY DEF Of
    <3>3. QED
      BY <3>1, <3>2 DEF Kind
  <2>5. QED
    BY <2>1, <2>2, <2>3, <2>4
<1>2. req' \in [Request -> Ask] /\ pc' \in [Request -> PC]
  BY <1>1 DEF Send, Goto, TypeOK, Ask, PC
<1>3. QED
  BY <1>1, <1>2 DEF Send, dbVars, hostVars, TypeOK

LEMMA MishapType ==
  ASSUME NEW S \in SUBSET Schedule, NEW m \in Mishap, Befalls(S, m), TypeOK
  PROVE  mishap' \in [Schedule -> SUBSET Mishap]
BY DEF Befalls, TypeOK

LEMMA NextNameType ==
  ASSUME TypeOK, NEW r \in Request, NextName(r)
  PROVE  names' \in [Request -> SUBSET Schedule] /\ pc' \in [Request -> PC]
BY DEF NextName, Goto, TypeOK, PC

\* A row is written, or nothing but the progress changes.
Saves(r) ==
    /\ pc[r] = "row" /\ ~Blocked(r) /\ ~Duplicate(r) /\ Changes(r)
    /\ txn' = [txn EXCEPT ![r] = [old |-> req[r].old \cap BAKSCDTB, new |-> req[r].new]]
    /\ names' = IF req[r].kind = "insert" THEN [names EXCEPT ![r] = req[r].new] ELSE names
    /\ mishap' = [s \in Schedule |-> mishap[s]
           \cup (IF req[r].kind = "drop" /\ s \in (req[r].old \cap BAKSCDTB) \ names[r] THEN {"late"} ELSE {})
           \cup (IF req[r].kind = "drop" /\ s \in names[r] \ (req[r].old \cap BAKSCDTB) THEN {"stale"} ELSE {})]
    /\ Goto(r, "ssh")
    /\ UNCHANGED <<BAKSCDTB, hostVars, req, faults>>

LEMMA WriteRowCases ==
  ASSUME NEW r \in Request, WriteRow(r)
  PROVE  \/ Saves(r)
         \/ /\ pc[r] = "row" /\ UNCHANGED <<txn, names, mishap>>
            /\ Goto(r, "error") \/ Goto(r, "fail")
  BY DEF WriteRow, Saves

LEMMA ServeType == ASSUME TypeOK, NEW r \in Request, Serve(r) PROVE TypeOK'
<1>1. CASE Find(r)
  <2>1. pc' \in [Request -> PC] /\ names' \in [Request -> SUBSET Schedule]
    BY <1>1 DEF Find, Goto, TypeOK, PC, Answer
  <2>2. QED
    BY <1>1, <2>1 DEF Find, TypeOK, dbVars, hostVars
<1>2. CASE WriteRow(r)
  <2>1. /\ req[r].new \in SUBSET Schedule
        /\ req[r].old \cap BAKSCDTB \in SUBSET Schedule
    BY DEF TypeOK, Ask
  <2>2. ASSUME NEW p \in PC, Goto(r, p) PROVE pc' \in [Request -> PC]
    BY <2>2 DEF Goto, TypeOK
  <2>3. pc' \in [Request -> PC]
    BY <1>2, <2>2 DEF WriteRow, PC, Answer
  <2>4. CASE Saves(r)
    <3>1. names' \in [Request -> SUBSET Schedule]
      BY <2>1, <2>4 DEF Saves, TypeOK
    <3>2. txn' \in [Request -> Txn]
      BY <2>1, <2>4 DEF Saves, TypeOK, Txn
    <3>3. mishap' \in [Schedule -> SUBSET Mishap]
      BY <2>4 DEF Saves, TypeOK, Mishap
    <3>4. QED
      BY <1>2, <2>3, <3>1, <3>2, <3>3 DEF WriteRow, TypeOK, hostVars
  <2>5. CASE UNCHANGED <<txn, names, mishap>>
    BY <1>2, <2>3, <2>5 DEF WriteRow, TypeOK, hostVars
  <2>6. QED
    BY <1>2, <2>4, <2>5, WriteRowCases
<1>3. CASE LockFails(r)
  BY <1>3 DEF LockFails, Goto, TypeOK, PC, Answer, dbVars, hostVars
<1>4. CASE Commit(r)
  <2>1. /\ BAKSCDTB' \in SUBSET Schedule /\ txn' \in [Request -> Txn]
        /\ pc' \in [Request -> PC]
    BY <1>4 DEF Commit, Goto, TypeOK, PC, Answer, Txn, NoTxn
  <2>2. QED
    BY <1>4, <2>1 DEF Commit, TypeOK, hostVars
<1>5. CASE NoNames(r)
  BY <1>5 DEF NoNames, Goto, TypeOK, PC, dbVars, hostVars
<1>6. CASE Exec(r)
  <2>1. req[r].kind \in Kind /\ This(r) \in Schedule
    BY <1>6, ThisIn DEF Exec, AtSsh, TypeOK, Ask
  <2>2. shell' \in [Request \X Schedule -> Seq(Command)]
    BY <1>6, <2>1, ScriptType DEF Exec, TypeOK
  <2>3. mishap' \in [Schedule -> SUBSET Mishap] /\ pc' \in [Request -> PC]
    BY <1>6 DEF Exec, Goto, TypeOK, PC, Mishap
  <2>4. QED
    BY <1>6, <2>2, <2>3 DEF Exec, TypeOK, dbVars
<1>7. CASE ReadEnd(r)
  BY <1>7, NextNameType DEF ReadEnd, TypeOK, dbVars, hostVars
<1>8. QED
  BY <1>1, <1>2, <1>3, <1>4, <1>5, <1>6, <1>7 DEF Serve

LEMMA FailType ==
  ASSUME TypeOK, NEW r \in Request, Fail(r), pc[r] = "reading" => names[r] # {}
  PROVE  TypeOK'
<1>1. ASSUME names[r] # {}, LoseEdit(r)
      PROVE  /\ mishap' \in [Schedule -> SUBSET Mishap] /\ faults' \in 0 .. MaxFault
  <2>1. {This(r)} \cup (IF req[r].kind = "drop" THEN {} ELSE req[r].new) \in SUBSET Schedule
    BY <1>1, ThisIn DEF TypeOK, Ask
  <2>2. mishap' \in [Schedule -> SUBSET Mishap]
    BY <1>1, <2>1, MishapType DEF LoseEdit, Mishap
  <2>3. QED
    BY <1>1, <2>2, BoundAssumption DEF LoseEdit, Fault, TypeOK
<1>2. CASE Unreachable(r)
  BY <1>1, <1>2, NextNameType DEF Unreachable, AtSsh, TypeOK, dbVars, hostVars
<1>3. CASE Refuse(r)
  <2>1. txn[r].old \in SUBSET Schedule /\ txn' \in [Request -> Txn] /\ pc' \in [Request -> PC]
    BY <1>3 DEF Refuse, Goto, TypeOK, PC, Answer, Txn, NoTxn
  <2>2. mishap' \in [Schedule -> SUBSET Mishap]
    BY <1>3, <2>1, MishapType DEF Refuse, Mishap, TypeOK
  <2>3. faults' \in 0 .. MaxFault
    BY <1>3, BoundAssumption DEF Refuse, Fault, TypeOK
  <2>4. QED
    BY <1>3, <2>1, <2>2, <2>3 DEF Refuse, TypeOK, hostVars
<1>4. CASE Break(r)
  <2>1. This(r) \in Schedule
    BY <1>4, ThisIn DEF Break, Reading, TypeOK
  <2>2. shell' \in [Request \X Schedule -> Seq(Command)]
    <3>1. <<>> \in Seq(Command)
      OBVIOUS
    <3>2. shell' = shell \/ shell' = [shell EXCEPT ![<<r, This(r)>>] = <<>>]
      BY <1>4 DEF Break
    <3>3. QED
      BY <3>1, <3>2 DEF TypeOK
  <2>3. names[r] # {} /\ LoseEdit(r) /\ NextName(r)
    BY <1>4 DEF Break, Reading
  <2>4. QED
    BY <1>1, <1>4, <2>2, <2>3, NextNameType DEF Break, TypeOK, dbVars
<1>5. QED
  BY <1>2, <1>3, <1>4 DEF Fail

LEMMA StepType ==
  ASSUME TypeOK, NEW r \in Request, NEW s \in Schedule, ShellStep(r, s)
  PROVE  TypeOK'
<1>1. shell[<<r, s>>] \in Seq(Command) /\ shell[<<r, s>>] # <<>>
  BY DEF TypeOK, ShellStep
<1>2. Tail(shell[<<r, s>>]) \in Seq(Command)
  BY <1>1
<1>3. shell' \in [Request \X Schedule -> Seq(Command)]
  BY <1>2 DEF ShellStep, TypeOK
<1>4. Head(shell[<<r, s>>]) \in Command
  BY <1>1
<1>5. cron_maria' \in Lines /\ crontab' \in Lines /\ touched' \in SUBSET Request
  <2>1. CASE Head(shell[<<r, s>>]) = "truncate"
    BY <2>1 DEF ShellStep, Lines, TypeOK
  <2>2. CASE Head(shell[<<r, s>>]) = "list"
    BY <2>2 DEF ShellStep, Lines, TypeOK
  <2>3. CASE Head(shell[<<r, s>>]) = "perl"
    <3>1. /\ cron_maria' = [l \in Schedule |-> IF NamedIn(s, l) THEN 0 ELSE cron_maria[l]]
          /\ UNCHANGED <<crontab, touched>>
      BY <2>3 DEF ShellStep
    <3>2. \A l \in Schedule : (IF NamedIn(s, l) THEN 0 ELSE cron_maria[l]) \in Nat
      BY DEF Lines, TypeOK
    <3>3. QED
      BY <3>1, <3>2 DEF Lines, TypeOK
  <2>4. CASE Head(shell[<<r, s>>]) = "echo"
    <3>1. PICK new : cron_maria' = [cron_maria EXCEPT ![new] = @ + 1] /\ UNCHANGED <<crontab, touched>>
      BY <2>4 DEF ShellStep
    <3>2. CASE new \in Schedule
      <4>1. cron_maria[new] + 1 \in Nat
        BY <3>2 DEF Lines, TypeOK
      <4>2. QED
        BY <3>1, <3>2, <4>1 DEF Lines, TypeOK
    <3>3. CASE new \notin Schedule
      BY <3>1, <3>3 DEF Lines, TypeOK
    <3>4. QED
      BY <3>2, <3>3
  <2>5. CASE Head(shell[<<r, s>>]) = "install"
    BY <2>5 DEF ShellStep, Lines, TypeOK
  <2>6. QED
    BY <1>4, <2>1, <2>2, <2>3, <2>4, <2>5 DEF Command
<1>6. QED
  BY <1>3, <1>5 DEF ShellStep, dbVars, webVars, TypeOK

-----------------------------------------------------------------------------
(***************************************************************************)
(* A step of a request changes nothing of the others.                      *)
(***************************************************************************)
Mine(r) ==
    /\ \A q \in Request \ {r} :
          /\ pc'[q] = pc[q] /\ req'[q] = req[q] /\ txn'[q] = txn[q] /\ names'[q] = names[q]
          /\ \A s \in Schedule : shell'[<<q, s>>] = shell[<<q, s>>]
    /\ \A l \in Schedule : mishap[l] \subseteq mishap'[l]
    /\ touched' \subseteq touched \cup {r}

LEMMA SendMine ==
  ASSUME TypeOK, NEW r \in Request,
         NEW k, NEW old, NEW new, NEW p, Send(r, k, old, new, p)
  PROVE  Mine(r)
BY DEF Mine, Send, Goto, dbVars, hostVars, TypeOK

LEMMA BefallsMore ==
  ASSUME NEW S, NEW m, Befalls(S, m) PROVE \A l \in Schedule : mishap[l] \subseteq mishap'[l]
BY DEF Befalls

LEMMA ServeMine == ASSUME TypeOK, NEW r \in Request, Serve(r) PROVE Mine(r)
<1>1. CASE Find(r)
  BY <1>1 DEF Find, Mine, Goto, dbVars, hostVars, TypeOK
<1>2. CASE WriteRow(r)
  <2>1. CASE Saves(r)
    <3>1. \A l \in Schedule : mishap[l] \subseteq mishap'[l]
      BY <2>1 DEF Saves
    <3>2. \A q \in Request \ {r} : /\ pc'[q] = pc[q] /\ txn'[q] = txn[q]
                                  /\ names'[q] = names[q]
      BY <2>1 DEF Saves, Goto, TypeOK
    <3>3. QED
      BY <2>1, <3>1, <3>2 DEF Saves, Mine, hostVars
  <2>2. CASE UNCHANGED <<txn, names, mishap>>
    <3>1. \A q \in Request \ {r} : pc'[q] = pc[q]
      BY <1>2 DEF WriteRow, Goto, TypeOK
    <3>2. QED
      BY <1>2, <2>2, <3>1 DEF WriteRow, Mine, hostVars
  <2>3. QED
    BY <1>2, <2>1, <2>2, WriteRowCases
<1>3. CASE LockFails(r)
  BY <1>3 DEF LockFails, Mine, Goto, dbVars, hostVars, TypeOK
<1>4. CASE Commit(r)
  BY <1>4 DEF Commit, Mine, Goto, hostVars, TypeOK
<1>5. CASE NoNames(r)
  BY <1>5 DEF NoNames, Mine, Goto, dbVars, hostVars, TypeOK
<1>6. CASE Exec(r)
  <2>1. \A q \in Request \ {r}, s \in Schedule : shell'[<<q, s>>] = shell[<<q, s>>]
    BY <1>6 DEF Exec, TypeOK
  <2>2. \A l \in Schedule : mishap[l] \subseteq mishap'[l]
    BY <1>6 DEF Exec
  <2>3. \A q \in Request \ {r} : pc'[q] = pc[q]
    BY <1>6 DEF Exec, Goto, TypeOK
  <2>4. QED
    BY <1>6, <2>1, <2>2, <2>3 DEF Exec, Mine, dbVars
<1>7. CASE ReadEnd(r)
  BY <1>7 DEF ReadEnd, NextName, Mine, Goto, dbVars, hostVars, TypeOK
<1>8. QED
  BY <1>1, <1>2, <1>3, <1>4, <1>5, <1>6, <1>7 DEF Serve

LEMMA FailMine == ASSUME TypeOK, NEW r \in Request, Fail(r) PROVE Mine(r)
<1>1. CASE Unreachable(r)
  <2>1. \A l \in Schedule : mishap[l] \subseteq mishap'[l]
    BY <1>1, BefallsMore DEF Unreachable, LoseEdit
  <2>2. QED
    BY <1>1, <2>1 DEF Unreachable, NextName, Mine, Goto, dbVars, hostVars, TypeOK
<1>2. CASE Refuse(r)
  <2>1. \A l \in Schedule : mishap[l] \subseteq mishap'[l]
    BY <1>2, BefallsMore DEF Refuse
  <2>2. QED
    BY <1>2, <2>1 DEF Refuse, Mine, Goto, hostVars, TypeOK
<1>3. CASE Break(r)
  <2>1. \A l \in Schedule : mishap[l] \subseteq mishap'[l]
    BY <1>3, BefallsMore DEF Break, LoseEdit
  <2>2. \A q \in Request \ {r}, s \in Schedule : shell'[<<q, s>>] = shell[<<q, s>>]
    BY <1>3 DEF Break, TypeOK
  <2>3. \A q \in Request \ {r} : pc'[q] = pc[q] /\ names'[q] = names[q]
    BY <1>3 DEF Break, NextName, Goto, TypeOK
  <2>4. QED
    BY <1>3, <2>1, <2>2, <2>3 DEF Break, Mine, dbVars
<1>4. QED
  BY <1>1, <1>2, <1>3 DEF Fail

LEMMA ShellMine ==
  ASSUME TypeOK, NEW r \in Request, NEW s \in Schedule, ShellStep(r, s) PROVE Mine(r)
<1>1. \A q \in Request \ {r}, l \in Schedule : shell'[<<q, l>>] = shell[<<q, l>>]
  BY DEF ShellStep, TypeOK
<1>2. touched' \subseteq touched \cup {r}
  BY DEF ShellStep
<1>3. QED
  BY <1>1, <1>2 DEF ShellStep, Mine, dbVars, webVars

LEMMA Frame ==
  ASSUME LInv, NEW r \in Request, Mine(r), NEW q \in Request \ {r} PROVE RInv(q)'
BY Others DEF LInv, Mine

LEMMA DisjointKept ==
  ASSUME LInv, NEW r \in Request, Mine(r), txn'[r] = txn[r] \/ txn'[r] = NoTxn
  PROVE  Disjoint'
<1>1. \A q \in Request : Held(q)' \subseteq Held(q)
  BY DEF Mine, Held, NoTxn
<1>2. QED
  BY <1>1 DEF LInv, Disjoint

-----------------------------------------------------------------------------
(***************************************************************************)
(* What a step does to the request that takes it.                          *)
(***************************************************************************)
\* A request whose scripts have not begun, and do not begin with this step.
LEMMA NotBegun ==
  ASSUME NEW r \in Request, Untouched(r), TypeOK,
         \A s \in Schedule : shell'[<<r, s>>] = shell[<<r, s>>], touched' = touched
  PROVE  ShellInv(r)'
BY DEF ShellInv, Untouched

LEMMA SendOwn ==
  ASSUME LInv, NEW r \in Request, NEW k \in Kind, NEW old \in SUBSET Schedule,
         NEW new \in SUBSET Schedule, NEW p \in {"find", "row"}, Send(r, k, old, new, p),
         \/ k = "insert" /\ p = "row" /\ old = {} /\ \E n \in Schedule : new = {n}
         \/ k = "update" /\ p = "find" /\ \E o, n \in Schedule : old = {o} /\ new = {n}
         \/ k = "delete" /\ p = "find" /\ new = {} /\ \E o \in Schedule : old = {o}
         \/ k = "drop" /\ p = "find" /\ new = {}
  PROVE  RInv(r)'
<1>1. /\ req'[r].kind = k /\ req'[r].old = old /\ req'[r].new = new /\ pc'[r] = p
      /\ pc[r] = "idle"
  BY DEF Send, Goto, LInv, TypeOK
<1>2. WorkInv(r)'
  BY <1>1 DEF WorkInv, AskOK, AtWork, Locked
<1>3. ShellInv(r)'
  BY <1>1, NotBegun DEF Send, hostVars, LInv, RInv, ShellInv, Before
<1>4. QED
  BY <1>2, <1>3 DEF RInv

\* The requests of the pages, as Send sees them.
LEMMA Asked ==
  ASSUME TypeOK, NEW r \in Request, SendInsert(r) \/ SendUpdate(r) \/ SendDelete(r) \/ SendDrop(r)
  PROVE  \E k \in Kind, old, new \in SUBSET Schedule, p \in {"find", "row"} :
           /\ Send(r, k, old, new, p)
           /\ \/ k = "insert" /\ p = "row" /\ old = {} /\ \E n \in Schedule : new = {n}
              \/ k = "update" /\ p = "find" /\ \E o, n \in Schedule : old = {o} /\ new = {n}
              \/ k = "delete" /\ p = "find" /\ new = {} /\ \E o \in Schedule : old = {o}
              \/ k = "drop" /\ p = "find" /\ new = {}
<1>1. CASE SendInsert(r)
  <2>1. PICK s \in Schedule : Send(r, "insert", {}, {s}, "row")
    BY <1>1 DEF SendInsert
  <2>2. QED
    BY <2>1 DEF Kind
<1>2. CASE SendUpdate(r)
  <2>1. PICK s \in BAKSCDTB, q \in Plan : Send(r, "update", {s}, {<<s[1], q>>}, "find")
    BY <1>2 DEF SendUpdate
  <2>2. s \in Schedule /\ <<s[1], q>> \in Schedule
    BY DEF TypeOK, Schedule
  <2>3. QED
    BY <2>1, <2>2 DEF Kind
<1>3. CASE SendDelete(r)
  <2>1. PICK s \in BAKSCDTB : Send(r, "delete", {s}, {}, "find")
    BY <1>3 DEF SendDelete
  <2>2. QED
    BY <2>1 DEF Kind, TypeOK
<1>4. CASE SendDrop(r)
  <2>1. PICK S \in {{s} : s \in Server} \cup {Server} : Send(r, "drop", Of(S), {}, "find")
    BY <1>4 DEF SendDrop
  <2>2. Of(S) \in SUBSET Schedule
    BY DEF Of
  <2>3. QED
    BY <2>1, <2>2 DEF Kind
<1>5. QED
  BY <1>1, <1>2, <1>3, <1>4

LEMMA FindOwn == ASSUME LInv, NEW r \in Request, Find(r) PROVE RInv(r)'
<1>1. pc[r] = "find" /\ req' = req /\ AskOK(r) /\ AskOK(r)'
  BY DEF Find, LInv, RInv, WorkInv, AskOK
<1>2. \/ pc'[r] = "error"
      \/ /\ pc'[r] = "row"
         /\ req[r].kind \in {"update", "delete"} => names'[r] = req[r].old
  <2>1. CASE Goto(r, "error")
    BY <2>1 DEF Goto, LInv, TypeOK
  <2>2. CASE ~Goto(r, "error")
    <3>1. /\ req[r].kind = "drop" \/ req[r].old \subseteq BAKSCDTB
          /\ names' = [names EXCEPT ![r] = req[r].old \cap BAKSCDTB]
          /\ Goto(r, "row")
      BY <2>2 DEF Find
    <3>2. pc'[r] = "row" /\ names'[r] = req[r].old \cap BAKSCDTB
      BY <3>1 DEF Goto, LInv, TypeOK
    <3>3. QED
      BY <3>1, <3>2
  <2>3. QED
    BY <2>1, <2>2
<1>3. WorkInv(r)'
  BY <1>1, <1>2 DEF WorkInv, AtWork, Locked
<1>4. ShellInv(r)'
  BY <1>1, NotBegun DEF Find, hostVars, LInv, RInv, ShellInv, Before
<1>5. QED
  BY <1>3, <1>4 DEF RInv

LEMMA RowOwn == ASSUME LInv, NEW r \in Request, WriteRow(r) \/ LockFails(r) PROVE RInv(r)'
<1>1. pc[r] = "row" /\ req' = req /\ AskOK(r) /\ AskOK(r)' /\ UNCHANGED hostVars
  BY DEF WriteRow, LockFails, LInv, RInv, WorkInv, AskOK
<1>2. ShellInv(r)'
  BY <1>1, NotBegun DEF hostVars, LInv, RInv, ShellInv, Before
<1>3. CASE Saves(r)
  <2>1. /\ pc'[r] = "ssh"
        /\ txn'[r].old = req[r].old \cap BAKSCDTB /\ txn'[r].new = req[r].new
        /\ names'[r] = IF req[r].kind = "insert" THEN req[r].new ELSE names[r]
    BY <1>3 DEF Saves, Goto, LInv, TypeOK
  <2>2. req[r].kind # "drop" => txn'[r].old = req[r].old /\ names'[r] = Edits(r)
    <3>1. CASE req[r].kind = "insert"
      BY <1>1, <2>1, <3>1 DEF AskOK, Edits
    <3>2. CASE req[r].kind \in {"update", "delete"}
      BY <1>1, <1>3, <2>1, <3>2 DEF Saves, Changes, LInv, RInv, WorkInv, Edits
    <3>3. QED
      BY <1>1, <3>1, <3>2 DEF AskOK
  <2>3. \A s \in names'[r] : s \in txn'[r].old \cup txn'[r].new \/ "stale" \in mishap'[s]
    <3>1. CASE req[r].kind = "drop"
      BY <1>3, <2>1, <3>1 DEF Saves, LInv, TypeOK
    <3>2. CASE req[r].kind # "drop"
      BY <2>1, <2>2, <3>2 DEF Edits
    <3>3. QED
      BY <3>1, <3>2
  <2>4. Edits(r)' = Edits(r)
    BY <1>1 DEF Edits
  <2>5. WorkInv(r)'
    BY <1>1, <2>1, <2>2, <2>3, <2>4 DEF WorkInv, AtWork, Locked, Held
  <2>6. QED
    BY <1>2, <2>5 DEF RInv
<1>4. CASE Goto(r, "error") \/ Goto(r, "fail")
  <2>1. pc'[r] \in {"error", "fail"}
    BY <1>4 DEF Goto, LInv, TypeOK
  <2>2. WorkInv(r)'
    BY <1>1, <2>1 DEF WorkInv, AtWork, Locked
  <2>3. QED
    BY <1>2, <2>2 DEF RInv
<1>5. QED
  BY <1>3, <1>4, WriteRowCases DEF LockFails

\* The names that are left when one has been edited; only a removal has any.
LEMMA NextOne ==
  ASSUME LInv, NEW r \in Request, NextName(r), pc[r] \in AtWork, names[r] # {}
  PROVE  /\ names'[r] = names[r] \ {This(r)}
         /\ pc'[r] \in {"ssh", "commit"}
         /\ pc'[r] = "ssh" => req[r].kind = "drop"
<1>1. /\ names'[r] = names[r] \ {This(r)}
      /\ pc'[r] = IF names[r] = {This(r)} THEN "commit" ELSE "ssh"
  BY DEF NextName, Goto, LInv, TypeOK
<1>2. req[r].kind # "drop" => \E s : names[r] = {s}
  BY DEF LInv, RInv, WorkInv, AskOK, Edits, AtWork
<1>3. This(r) \in names[r]
  BY ThisIn
<1>4. QED
  BY <1>1, <1>2, <1>3

\* A step from one name to the next, or to the commit, when the script of this
\* name has ended or its connection is broken.
LEMMA NextOwn ==
  ASSUME LInv, NEW r \in Request, NextName(r), pc[r] \in AtWork, names[r] # {}, Mine(r),
         UNCHANGED <<req, txn, touched>>,
         \A s \in Schedule : shell'[<<r, s>>] # <<>> =>
            shell[<<r, s>>] # <<>> /\ (s = This(r) => Broken(r, s)'),
         pc[r] = "ssh" => UNCHANGED shell
  PROVE  RInv(r)'
<1>1. /\ names'[r] = names[r] \ {This(r)}
      /\ pc'[r] \in {"ssh", "commit"}
      /\ pc'[r] = "ssh" => req[r].kind = "drop"
  BY NextOne
<1>2. names[r] \subseteq Schedule /\ Held(r) \subseteq Schedule /\ req[r].new \subseteq Schedule
  BY DEF LInv, TypeOK, Ask, Txn, Held
<1>3. \A l \in Schedule : mishap[l] \subseteq mishap'[l]
  BY DEF Mine
<1>4. /\ pc[r] # "idle" /\ pc[r] \in Locked
      /\ AskOK(r) /\ txn[r].new = req[r].new /\ (req[r].kind # "drop" => txn[r].old = req[r].old)
      /\ \A s \in names[r] : s \in Held(r) \/ "stale" \in mishap[s]
  BY DEF LInv, RInv, WorkInv, AtWork, Locked
<1>5. AskOK(r)' /\ Held(r)' = Held(r)
  BY <1>4 DEF AskOK, Held
<1>6. WorkInv(r)'
  BY <1>1, <1>2, <1>3, <1>4, <1>5 DEF WorkInv, AtWork, Locked
<1>7. ShellInv(r)'
  <2>1. ASSUME NEW s \in Schedule, shell'[<<r, s>>] # <<>> PROVE Broken(r, s)'
    <3>1. CASE s = This(r)
      BY <2>1, <3>1
    <3>2. CASE s # This(r)
      <4>1. Broken(r, s)
        BY <2>1, <3>2 DEF LInv, RInv, ShellInv, Waited
      <4>2. QED
        BY <4>1, <1>2, <1>3 DEF Broken
    <3>3. QED
      BY <3>1, <3>2
  <2>2. ASSUME NEW s \in Schedule, shell'[<<r, s>>] # <<>>, req[r].kind # "insert"
        PROVE  \A l \in Covered({s}) : "prefix" \in mishap'[l]
    <3>1. \A l \in Covered({s}) : l \in Schedule /\ "prefix" \in mishap[l]
      BY <2>2 DEF LInv, RInv, ShellInv, Covered
    <3>2. QED
      BY <3>1, <1>3
  <2>3. ~Before(r)'
    BY <1>1 DEF Before
  <2>4. QED
    BY <2>1, <2>2, <2>3 DEF ShellInv
<1>8. QED
  BY <1>6, <1>7 DEF RInv

LEMMA EndOwn == ASSUME LInv, NEW r \in Request, Commit(r) \/ NoNames(r), Mine(r) PROVE RInv(r)'
<1>1. /\ pc[r] \in {"ssh", "commit"} /\ req' = req /\ names' = names
      /\ UNCHANGED hostVars /\ mishap' = mishap
  BY DEF Commit, NoNames
<1>2. \/ pc[r] = "commit" /\ pc'[r] = "saved"
      \/ pc[r] = "ssh" /\ pc'[r] = "commit" /\ txn' = txn
  BY DEF Commit, NoNames, Goto, dbVars, LInv, TypeOK
<1>3. AskOK(r)'
  BY <1>1 DEF AskOK, LInv, RInv, WorkInv
<1>4. WorkInv(r)'
  BY <1>1, <1>2, <1>3 DEF WorkInv, LInv, RInv, AtWork, Locked
<1>5. ShellInv(r)'
  <2>1. \A s \in Schedule : ~Waited(r, s)
    BY <1>1 DEF Waited
  <2>2. ~Before(r)'
    BY <1>2 DEF Before
  <2>3. \A s \in Schedule : Broken(r, s)' = Broken(r, s)
    BY <1>1 DEF Broken
  <2>4. QED
    BY <1>1, <2>1, <2>2, <2>3 DEF ShellInv, LInv, RInv, hostVars
<1>6. QED
  BY <1>4, <1>5 DEF RInv

LEMMA ExecOwn == ASSUME LInv, NEW r \in Request, Exec(r), Mine(r) PROVE RInv(r)'
<1>1. /\ pc[r] = "ssh" /\ names[r] # {} /\ pc'[r] = "reading" /\ req' = req /\ names' = names
      /\ UNCHANGED <<dbVars, touched>>
  BY DEF Exec, AtSsh, Goto, LInv, TypeOK
<1>2. \A l \in Schedule : mishap[l] \subseteq mishap'[l]
  BY DEF Mine
<1>3. names[r] \subseteq Schedule /\ Held(r) \subseteq Schedule /\ req[r].new \subseteq Schedule
  BY DEF LInv, TypeOK, Ask, Txn, Held
<1>4. AskOK(r)' /\ Held(r)' = Held(r) /\ Edits(r)' = Edits(r)
  BY <1>1 DEF AskOK, Held, Edits, LInv, RInv, WorkInv, dbVars
<1>5. WorkInv(r)'
  BY <1>1, <1>2, <1>3, <1>4 DEF WorkInv, LInv, RInv, AtWork, Locked, dbVars
<1>6. ShellInv(r)'
  <2>1. ~Before(r)'
    BY <1>1 DEF Before
  <2>2. This(r)' = This(r) /\ This(r) \in Schedule
    BY <1>1, <1>3, ThisSame, ThisIn
  <2>3. ASSUME NEW s \in Schedule, shell'[<<r, s>>] # <<>>
        PROVE  /\ (Waited(r, s) \/ Broken(r, s))'
               /\ req[r].kind # "insert" => \A l \in Covered({s}) : "prefix" \in mishap'[l]
    <3>1. CASE s = This(r)
      <4>1. Waited(r, s)'
        BY <1>1, <2>2, <3>1 DEF Waited
      <4>2. req[r].kind # "insert" => \A l \in Covered({s}) : "prefix" \in mishap'[l]
        BY <3>1 DEF Exec, Covered
      <4>3. QED
        BY <4>1, <4>2
    <3>2. CASE s # This(r)
      <4>1. shell[<<r, s>>] # <<>>
        BY <2>3, <3>2 DEF Exec, LInv, TypeOK
      <4>2. Broken(r, s)
        BY <1>1, <4>1 DEF LInv, RInv, ShellInv, Waited
      <4>3. Broken(r, s)'
        BY <1>1, <1>2, <1>3, <4>2 DEF Broken
      <4>4. req[r].kind # "insert" => \A l \in Covered({s}) : l \in Schedule /\ "prefix" \in mishap[l]
        BY <4>1 DEF LInv, RInv, ShellInv, Covered
      <4>5. QED
        BY <1>2, <4>3, <4>4
    <3>3. QED
      BY <3>1, <3>2
  <2>4. QED
    BY <1>1, <2>1, <2>3 DEF ShellInv
<1>7. QED
  BY <1>5, <1>6 DEF RInv

LEMMA ReadEndOwn == ASSUME LInv, NEW r \in Request, ReadEnd(r), Mine(r) PROVE RInv(r)'
<1>1. /\ pc[r] = "reading" /\ names[r] # {} /\ NextName(r)
      /\ shell[<<r, This(r)>>] = <<>> /\ shell' = shell /\ UNCHANGED <<req, txn, touched>>
  BY DEF ReadEnd, Reading, Running, dbVars, hostVars, LInv, RInv, WorkInv
<1>2. QED
  BY <1>1, NextOwn DEF AtWork

LEMMA FailOwn == ASSUME LInv, NEW r \in Request, Fail(r), Mine(r) PROVE RInv(r)'
<1>1. CASE Unreachable(r)
  <2>1. /\ pc[r] = "ssh" /\ names[r] # {} /\ NextName(r) /\ LoseEdit(r)
        /\ shell' = shell /\ UNCHANGED <<req, txn, touched>>
    BY <1>1 DEF Unreachable, AtSsh, dbVars, hostVars
  <2>2. \A s \in Schedule : s = This(r) => Broken(r, s)'
    BY <2>1, ThisIn DEF LoseEdit, Befalls, Broken, LInv, TypeOK, Ask
  <2>3. QED
    BY <2>1, <2>2, NextOwn DEF AtWork
<1>2. CASE Refuse(r)
  <2>1. /\ pc[r] = "ssh" \/ (pc[r] = "commit" /\ req[r].kind = "drop")
        /\ pc'[r] = "error" /\ req' = req /\ names' = names
        /\ UNCHANGED <<shell, touched>>
    BY <1>2 DEF Refuse, AtSsh, AtDirectory, Goto, hostVars, LInv, TypeOK
  <2>2. AskOK(r)'
    BY <2>1 DEF AskOK, LInv, RInv, WorkInv
  <2>3. WorkInv(r)'
    BY <2>1, <2>2 DEF WorkInv, AtWork, Locked
  <2>4. ShellInv(r)'
    <3>1. CASE Untouched(r)
      BY <2>1, <3>1, NotBegun DEF LInv
    <3>2. CASE ~Untouched(r)
      <4>1. ~Before(r) /\ req[r].kind = "drop"
        BY <2>1, <3>2 DEF LInv, RInv, ShellInv, Before
      <4>2. ~Before(r)'
        BY <2>1, <4>1 DEF Before
      <4>3. ASSUME NEW s \in Schedule, shell[<<r, s>>] # <<>>
            PROVE  /\ Broken(r, s)'
                   /\ \A l \in Covered({s}) : "prefix" \in mishap'[l]
        <5>1. /\ Broken(r, s)
              /\ \A l \in Covered({s}) : l \in Schedule /\ "prefix" \in mishap[l]
          BY <2>1, <4>1, <4>3 DEF LInv, RInv, ShellInv, Waited, Covered
        <5>2. \A l \in Schedule : mishap[l] \subseteq mishap'[l]
          BY DEF Mine
        <5>3. QED
          BY <2>1, <4>1, <5>1, <5>2 DEF Broken
      <4>4. QED
        BY <2>1, <4>2, <4>3 DEF ShellInv
    <3>3. QED
      BY <3>1, <3>2
  <2>5. QED
    BY <2>3, <2>4 DEF RInv
<1>3. CASE Break(r)
  <2>1. /\ pc[r] = "reading" /\ names[r] # {} /\ NextName(r) /\ LoseEdit(r)
        /\ UNCHANGED <<req, txn, touched>>
    BY <1>3 DEF Break, Reading, dbVars, LInv, RInv, WorkInv
  <2>2. \A s \in Schedule : s = This(r) => Broken(r, s)'
    BY <2>1, ThisIn DEF LoseEdit, Befalls, Broken, LInv, TypeOK, Ask
  <2>3. ASSUME NEW s \in Schedule, shell'[<<r, s>>] # <<>> PROVE shell[<<r, s>>] # <<>>
    BY <1>3, <2>3 DEF Break, Running, LInv, TypeOK
  <2>4. QED
    BY <2>1, <2>2, <2>3, NextOwn DEF AtWork
<1>4. QED
  BY <1>1, <1>2, <1>3 DEF Fail

LEMMA ShellOwn ==
  ASSUME LInv, NEW r \in Request, NEW s \in Schedule, ShellStep(r, s) PROVE RInv(r)'
<1>1. /\ shell[<<r, s>>] # <<>>
      /\ UNCHANGED <<dbVars, webVars, mishap>>
  BY DEF ShellStep
<1>2. \A l \in Schedule : shell'[<<r, l>>] # <<>> => shell[<<r, l>>] # <<>>
  BY DEF ShellStep, LInv, TypeOK
<1>3. AskOK(r)' = AskOK(r) /\ Edits(r)' = Edits(r) /\ Held(r)' = Held(r) /\ This(r)' = This(r)
  BY <1>1 DEF AskOK, Edits, Held, This, webVars, dbVars
<1>4. WorkInv(r)'
  BY <1>1, <1>3 DEF LInv, RInv, WorkInv, AtWork, Locked, webVars, dbVars
<1>5. ShellInv(r)'
  <2>1. ~Before(r)'
    BY <1>1 DEF LInv, RInv, ShellInv, Untouched, Before, webVars
  <2>2. \A l \in Schedule : Waited(r, l)' = Waited(r, l) /\ Broken(r, l)' = Broken(r, l)
    BY <1>1, <1>3 DEF Waited, Broken, webVars
  <2>3. req' = req /\ mishap' = mishap
    BY <1>1 DEF webVars
  <2>4. QED
    BY <1>2, <2>1, <2>2, <2>3 DEF LInv, RInv, ShellInv
<1>6. QED
  BY <1>4, <1>5 DEF RInv

-----------------------------------------------------------------------------
LEMMA LInit == Init => LInv
<1>1. ASSUME Init PROVE TypeOK
  <2>1. <<>> \in Seq(Command) /\ 0 \in Nat /\ 0 \in 0 .. MaxFault
    BY BoundAssumption
  <2>2. /\ crontab \in Lines /\ cron_maria \in Lines
    BY <1>1 DEF Init, Lines
  <2>3. /\ pc \in [Request -> PC] /\ req \in [Request -> Ask] /\ txn \in [Request -> Txn]
        /\ names \in [Request -> SUBSET Schedule]
    BY <1>1 DEF Init, PC, Ask, Kind, Txn, NoTxn
  <2>4. shell \in [Request \X Schedule -> Seq(Command)]
    BY <1>1, <2>1 DEF Init
  <2>5. QED
    BY <1>1, <2>1, <2>2, <2>3, <2>4 DEF Init, TypeOK
<1>2. ASSUME Init PROVE Disjoint
  BY <1>2 DEF Init, Disjoint, Held, NoTxn
<1>3. ASSUME Init, NEW r \in Request PROVE RInv(r)
  <2>1. pc[r] = "idle" /\ \A s \in Schedule : shell[<<r, s>>] = <<>>
    BY <1>3 DEF Init
  <2>2. QED
    BY <1>3, <2>1 DEF Init, RInv, WorkInv, ShellInv, Untouched, AtWork, Locked
<1>4. QED
  BY <1>1, <1>2, <1>3 DEF LInv

LEMMA SavesDisjoint ==
  ASSUME LInv, NEW r \in Request, Saves(r), Mine(r) PROVE Disjoint'
<1>1. Held(r)' \subseteq req[r].old \cup req[r].new
  BY DEF Saves, Held, LInv, TypeOK
<1>2. \A q \in Request \ {r} : /\ Held(q)' = Held(q)
                              /\ (req[r].old \cup req[r].new) \cap Held(q) = {}
  BY DEF Mine, Held, Saves, Blocked
<1>3. QED
  BY <1>1, <1>2 DEF LInv, Disjoint

LEMMA LStep == LInv /\ [Next]_vars => LInv'
<1>1. ASSUME LInv, NEW r \in Request, Mine(r), TypeOK', RInv(r)', Disjoint' PROVE LInv'
  BY <1>1, Frame DEF LInv
<1>2. ASSUME LInv, NEW r \in Request,
             SendInsert(r) \/ SendUpdate(r) \/ SendDelete(r) \/ SendDrop(r)
      PROVE  LInv'
  <2>1. PICK k \in Kind, old \in SUBSET Schedule, new \in SUBSET Schedule, p \in {"find", "row"} :
           /\ Send(r, k, old, new, p)
           /\ \/ k = "insert" /\ p = "row" /\ old = {} /\ \E n \in Schedule : new = {n}
              \/ k = "update" /\ p = "find" /\ \E o, n \in Schedule : old = {o} /\ new = {n}
              \/ k = "delete" /\ p = "find" /\ new = {} /\ \E o \in Schedule : old = {o}
              \/ k = "drop" /\ p = "find" /\ new = {}
    BY <1>2, Asked DEF LInv
  <2>2. Mine(r)
    BY <1>2, <2>1, SendMine DEF LInv
  <2>3. RInv(r)'
    BY <1>2, <2>1, SendOwn
  <2>4. Disjoint'
    BY <1>2, <2>1, <2>2, DisjointKept DEF Send, dbVars
  <2>5. TypeOK'
    BY <1>2, SendType DEF LInv
  <2>6. QED
    BY <1>1, <1>2, <2>2, <2>3, <2>4, <2>5
<1>3. ASSUME LInv, NEW r \in Request, Serve(r) PROVE LInv'
  <2>1. Mine(r) /\ TypeOK'
    BY <1>3, ServeMine, ServeType DEF LInv
  <2>2. RInv(r)'
    BY <1>3, <2>1, FindOwn, RowOwn, EndOwn, ExecOwn, ReadEndOwn DEF Serve
  <2>3. Disjoint'
    <3>1. CASE Saves(r)
      BY <1>3, <2>1, <3>1, SavesDisjoint
    <3>2. CASE txn'[r] = txn[r] \/ txn'[r] = NoTxn
      BY <1>3, <2>1, <3>2, DisjointKept
    <3>3. Commit(r) => txn'[r] = NoTxn
      BY <1>3 DEF Commit, LInv, TypeOK
    <3>4. Find(r) \/ LockFails(r) \/ NoNames(r) \/ Exec(r) \/ ReadEnd(r) => txn' = txn
      BY DEF Find, LockFails, NoNames, Exec, ReadEnd, dbVars
    <3>5. WriteRow(r) => Saves(r) \/ txn' = txn
      BY WriteRowCases
    <3>6. QED
      BY <1>3, <3>1, <3>2, <3>3, <3>4, <3>5 DEF Serve
  <2>4. QED
    BY <1>1, <1>3, <2>1, <2>2, <2>3
<1>4. ASSUME LInv, NEW r \in Request, Fail(r) PROVE LInv'
  <2>1. Mine(r) /\ TypeOK'
    BY <1>4, FailMine, FailType DEF LInv, RInv, WorkInv
  <2>2. RInv(r)'
    BY <1>4, <2>1, FailOwn
  <2>3. txn'[r] = txn[r] \/ txn'[r] = NoTxn
    BY <1>4 DEF Fail, Unreachable, Refuse, Break, dbVars, LInv, TypeOK
  <2>4. QED
    BY <1>1, <1>4, <2>1, <2>2, <2>3, DisjointKept
<1>5. ASSUME LInv, NEW r \in Request, NEW s \in Schedule, ShellStep(r, s) PROVE LInv'
  <2>1. Mine(r) /\ TypeOK' /\ txn' = txn
    BY <1>5, ShellMine, StepType DEF LInv, ShellStep, dbVars
  <2>2. QED
    BY <1>1, <1>5, <2>1, ShellOwn, DisjointKept
<1>6. ASSUME LInv, UNCHANGED vars PROVE LInv'
  <2>1. TypeOK' /\ Disjoint'
    BY <1>6 DEF vars, dbVars, hostVars, webVars, LInv, TypeOK, Disjoint, Held
  <2>2. ASSUME NEW r \in Request PROVE RInv(r)'
    BY <1>6, <2>2, Others DEF vars, dbVars, hostVars, webVars, LInv
  <2>3. QED
    BY <2>1, <2>2 DEF LInv
<1>7. QED
  BY <1>2, <1>3, <1>4, <1>5, <1>6 DEF Next

THEOREM LInvariant == Spec => []LInv
<1>1. QED
  BY LInit, LStep, PTL DEF Spec

\* Two scripts edit one schedule only when a connection broke or a server was
\* removed whose names were gone: the row stays locked while the script runs.
THEOREM OneEdit == Spec => []OneEditPerSchedule
<1>1. LInv => OneEditPerSchedule
  <2>1. SUFFICES ASSUME LInv, NEW a \in Shells, NEW b \in Shells, a[1] # b[1], a[2] = b[2],
                        mishap[a[2]] \cap {"lost", "stale"} = {}
                 PROVE  FALSE
    BY DEF OneEditPerSchedule
  <2>2. /\ a[1] \in Request /\ a[2] \in Schedule /\ a = <<a[1], a[2]>>
        /\ b[1] \in Request /\ b[2] \in Schedule /\ b = <<b[1], b[2]>>
        /\ shell[a] # <<>> /\ shell[b] # <<>>
    BY DEF Shells
  <2>3. ASSUME NEW r \in Request, NEW s \in Schedule, shell[<<r, s>>] # <<>>,
               mishap[s] \cap {"lost", "stale"} = {}
        PROVE  s \in Held(r)
    <3>1. Waited(r, s)
      BY <2>1, <2>3 DEF LInv, RInv, ShellInv, Broken
    <3>2. s \in names[r] /\ pc[r] \in AtWork
      BY <2>1, <3>1, ThisIn DEF Waited, AtWork, LInv, RInv, WorkInv
    <3>3. QED
      BY <2>1, <2>3, <3>2 DEF LInv, RInv, WorkInv
  <2>4. a[2] \in Held(a[1]) /\ a[2] \in Held(b[1])
    BY <2>1, <2>2, <2>3
  <2>5. QED
    BY <2>1, <2>2, <2>4 DEF LInv, Disjoint
<1>2. QED
  BY <1>1, LInvariant, PTL

\* A failure is answered before the script has run: the crontab is as it was, for
\* every request but the removal of a server.
THEOREM FailedLeaves == Spec => []FailedLeavesCrontab
<1>1. LInv => FailedLeavesCrontab
  BY DEF LInv, RInv, ShellInv, Before, Untouched, FailedLeavesCrontab
<1>2. QED
  BY <1>1, LInvariant, PTL

-----------------------------------------------------------------------------
(***************************************************************************)
(* List and crontab.  On(l) is what the script of a request makes of l, as *)
(* soon as that script is done with it, and what is listed before; CInv    *)
(* relates it to the crontab and to the file cron_maria, command by        *)
(* command, for the schedules that nothing has befallen.                   *)
(***************************************************************************)
\* The n-th last command of a script.
Cmd(k, n) ==
    IF n = 1 THEN "install"
    ELSE IF n = Size(k) THEN "truncate"
    ELSE IF n = Size(k) - 1 THEN "list"
    ELSE IF k = "update" /\ n = 3 THEN "install"
    ELSE IF n = 2 /\ k \in {"insert", "update"} THEN "echo"
    ELSE "perl"

Left(r, s)    == Len(shell[<<r, s>>])
Follows(r, s) ==
    /\ Left(r, s) <= Size(req[r].kind)
    /\ \A i \in 1 .. Left(r, s) : shell[<<r, s>>][i] = Cmd(req[r].kind, Left(r, s) - i + 1)

RowsInv(r) ==
    /\ pc[r] \in Locked => /\ txn[r].old \subseteq BAKSCDTB
                           /\ txn[r].new \cap (BAKSCDTB \ txn[r].old) = {}
    /\ pc[r] \notin Locked => txn[r] = NoTxn

\* Is the script of a request done with l?
Done(r, l) ==
    \/ pc[r] = "commit"
    \/ req[r].kind = "drop" /\ pc[r] \in AtWork /\ l \notin names[r]
    \/ /\ pc[r] = "reading" /\ shell[<<r, This(r)>>] = <<>>
       /\ req[r].kind = "drop" => l = This(r)
Off(r, l) == l \in txn[r].old /\ Done(r, l)
Add(r, l) == l \in txn[r].new /\ Done(r, l)
On(l) == \/ l \in BAKSCDTB /\ \A r \in Request : ~Off(r, l)
         \/ \E r \in Request : Add(r, l)
V(l)  == IF On(l) THEN 1 ELSE 0

\* Two scripts at one time befall every schedule.
Alone == (\E l \in Schedule : mishap[l] = {}) =>
            \A q, r \in Request, s, t \in Schedule :
               shell[<<q, s>>] # <<>> /\ shell[<<r, t>>] # <<>> => q = r /\ s = t

\* Does this script change l?  Has it read the crontab?
Alters(r, s, l) == l = s \/ l \in req[r].new
Past(r, s)      == shell[<<r, s>>] # <<>> /\ Left(r, s) <= Size(req[r].kind) - 2
Draft(r, s, l)  ==
    IF ~Alters(r, s, l) \/ Left(r, s) = Size(req[r].kind) - 2 THEN V(l)
    ELSE IF Left(r, s) = 1 /\ l \in req[r].new THEN 1 ELSE 0

LineInv(l) ==
    /\ \/ crontab[l] = V(l)
       \/ \E r \in Request, s \in Schedule : Alters(r, s, l) /\ Past(r, s)
    /\ \A r \in Request, s \in Schedule : Past(r, s) => cron_maria[l] = Draft(r, s, l)

CInv == /\ Alone
        /\ \A r \in Request : RowsInv(r)
        /\ \A r \in Request, s \in Schedule : Follows(r, s)
        /\ \A l \in Schedule : mishap[l] = {} => LineInv(l)

LEMMA ScriptCmd ==
  ASSUME NEW k \in Kind, NEW i \in 1 .. Size(k)
  PROVE  Script(k)[i] = Cmd(k, Size(k) - i + 1)
<1>1. CASE k = "insert"
  <2>1. i \in {1, 2, 3, 4} /\ Size(k) = 4
    BY <1>1 DEF Size
  <2>2. Script(k) = <<"truncate", "list", "echo", "install">>
    BY <1>1, Scripts
  <2>3. QED
    BY <1>1, <2>1, <2>2 DEF Cmd
<1>2. CASE k = "delete" \/ k = "drop"
  <2>1. i \in {1, 2, 3, 4} /\ Size(k) = 4
    BY <1>2 DEF Size
  <2>2. Script(k) = <<"truncate", "list", "perl", "install">>
    BY <1>2, Scripts
  <2>3. QED
    BY <1>2, <2>1, <2>2 DEF Cmd
<1>3. CASE k = "update"
  <2>1. i \in {1, 2, 3, 4, 5, 6} /\ Size(k) = 6
    BY <1>3 DEF Size
  <2>2. Script(k) = <<"truncate", "list", "perl", "install", "echo", "install">>
    BY <1>3, Scripts
  <2>3. QED
    BY <1>3, <2>1, <2>2 DEF Cmd
<1>4. QED
  BY <1>1, <1>2, <1>3 DEF Kind

\* Scripts run in their order.
LEMMA TailFollows ==
  ASSUME LInv, NEW r \in Request, NEW s \in Schedule, ShellStep(r, s), Follows(r, s)
  PROVE  /\ Follows(r, s)'
         /\ Left(r, s)' = Left(r, s) - 1 /\ Left(r, s) \in Nat \ {0}
         /\ Head(shell[<<r, s>>]) = Cmd(req[r].kind, Left(r, s))
<1>1. /\ shell[<<r, s>>] \in Seq(Command) /\ shell[<<r, s>>] # <<>>
      /\ shell'[<<r, s>>] = Tail(shell[<<r, s>>]) /\ req' = req
  BY DEF ShellStep, LInv, TypeOK, webVars
<1>2. ASSUME NEW q \in Seq(Command), q # <<>>
      PROVE  /\ Len(q) \in Nat \ {0} /\ Head(q) = q[1] /\ Len(Tail(q)) = Len(q) - 1
             /\ \A i \in 1 .. Len(q) - 1 : Tail(q)[i] = q[i + 1]
  BY <1>2
<1>3. /\ Left(r, s) \in Nat \ {0} /\ Left(r, s)' = Left(r, s) - 1
      /\ Head(shell[<<r, s>>]) = shell[<<r, s>>][1]
      /\ \A i \in 1 .. Left(r, s) - 1 : shell'[<<r, s>>][i] = shell[<<r, s>>][i + 1]
  BY <1>1, <1>2 DEF Left
<1>4. Size(req[r].kind) \in Nat
  BY DEF Size
<1>5. ASSUME NEW i \in 1 .. Left(r, s) - 1
      PROVE  shell'[<<r, s>>][i] = Cmd(req[r].kind, Left(r, s) - 1 - i + 1)
  <2>1. i + 1 \in 1 .. Left(r, s) /\ Left(r, s) - (i + 1) + 1 = Left(r, s) - 1 - i + 1
    BY <1>3, <1>5
  <2>2. QED
    BY <1>3, <2>1 DEF Follows
<1>6. Follows(r, s)'
  <2>1. Left(r, s)' <= Size(req[r].kind)
    BY <1>3, <1>4 DEF Follows
  <2>2. ASSUME NEW i \in 1 .. Left(r, s)'
        PROVE  shell'[<<r, s>>][i] = Cmd(req[r].kind, Left(r, s)' - i + 1)
    BY <1>3, <1>5
  <2>3. QED
    BY <1>1, <2>1, <2>2 DEF Follows
<1>7. Head(shell[<<r, s>>]) = Cmd(req[r].kind, Left(r, s))
  <2>1. 1 \in 1 .. Left(r, s) /\ Left(r, s) - 1 + 1 = Left(r, s)
    BY <1>3
  <2>2. QED
    BY <1>3, <2>1 DEF Follows
<1>8. QED
  BY <1>3, <1>6, <1>7

LEMMA NewFollows ==
  ASSUME LInv, NEW r \in Request, NEW s \in Schedule,
         shell'[<<r, s>>] = Script(req[r].kind), req' = req
  PROVE  Follows(r, s)' /\ Left(r, s)' = Size(req[r].kind)
<1>1. req[r].kind \in Kind
  BY DEF LInv, TypeOK, Ask
<1>2. Left(r, s)' = Size(req[r].kind) /\ Size(req[r].kind) \in Nat
  BY <1>1, ScriptType DEF Left, Size
<1>3. QED
  BY <1>1, <1>2, ScriptCmd DEF Follows

-----------------------------------------------------------------------------
LEMMA RowsOwn ==
  ASSUME LInv, NEW r \in Request, RowsInv(r), Serve(r) \/ Fail(r)
  PROVE  RowsInv(r)'
<1>1. CASE Find(r) \/ LockFails(r)
  <2>1. pc[r] \notin Locked /\ pc'[r] \notin Locked /\ txn' = txn
    BY <1>1 DEF Find, LockFails, Goto, Locked, dbVars, LInv, TypeOK
  <2>2. QED
    BY <2>1 DEF RowsInv
<1>2. CASE WriteRow(r)
  <2>1. CASE Saves(r)
    <3>1. /\ txn'[r].old = req[r].old \cap BAKSCDTB /\ txn'[r].new = req[r].new
          /\ BAKSCDTB' = BAKSCDTB /\ pc'[r] = "ssh"
          /\ req[r].new \cap (BAKSCDTB \ req[r].old) = {}
      BY <2>1 DEF Saves, Duplicate, Goto, LInv, TypeOK
    <3>2. QED
      BY <3>1 DEF RowsInv, Locked
  <2>2. CASE UNCHANGED <<txn, names, mishap>> /\ (Goto(r, "error") \/ Goto(r, "fail")) /\ pc[r] = "row"
    <3>1. pc[r] \notin Locked /\ pc'[r] \notin Locked /\ txn' = txn
      BY <2>2 DEF Goto, Locked, LInv, TypeOK
    <3>2. QED
      BY <3>1 DEF RowsInv
  <2>3. QED
    BY <1>2, <2>1, <2>2, WriteRowCases
<1>3. CASE Commit(r) \/ Refuse(r)
  <2>1. pc'[r] \notin Locked /\ txn'[r] = NoTxn
    BY <1>3 DEF Commit, Refuse, Goto, Locked, LInv, TypeOK
  <2>2. QED
    BY <2>1 DEF RowsInv
<1>4. CASE NoNames(r) \/ Exec(r) \/ ReadEnd(r) \/ Unreachable(r) \/ Break(r)
  <2>1. pc[r] \in Locked /\ pc'[r] \in Locked /\ UNCHANGED dbVars
    BY <1>4 DEF NoNames, Exec, ReadEnd, Unreachable, Break, AtSsh, Reading, NextName,
                Goto, Locked, LInv, TypeOK
  <2>2. QED
    BY <2>1 DEF RowsInv, dbVars
<1>5. QED
  BY <1>1, <1>2, <1>3, <1>4 DEF Serve, Fail

LEMMA RowsOthers ==
  ASSUME LInv, NEW r \in Request, Mine(r), NEW q \in Request \ {r}, RowsInv(q),
         BAKSCDTB' = BAKSCDTB \/ Commit(r)
  PROVE  RowsInv(q)'
<1>1. txn'[q] = txn[q] /\ pc'[q] = pc[q]
  BY DEF Mine
<1>2. Held(q) \cap Held(r) = {}
  BY DEF LInv, Disjoint
<1>3. \A l \in Held(q) : l \in BAKSCDTB' <=> l \in BAKSCDTB
  BY <1>2 DEF Commit, Held
<1>4. QED
  BY <1>1, <1>3 DEF RowsInv, Held

\* Where a request is done with l stays as it is when another one takes a step.
LEMMA DoneOthers ==
  ASSUME LInv, NEW r \in Request, Mine(r), NEW q \in Request \ {r}, NEW l \in Schedule
  PROVE  Off(q, l)' = Off(q, l) /\ Add(q, l)' = Add(q, l)
<1>1. /\ pc'[q] = pc[q] /\ req'[q] = req[q] /\ txn'[q] = txn[q] /\ names'[q] = names[q]
      /\ \A s \in Schedule : shell'[<<q, s>>] = shell[<<q, s>>]
  BY DEF Mine
<1>2. This(q)' = This(q)
  BY <1>1, ThisSame
<1>3. pc[q] = "reading" => This(q) \in Schedule
  BY ThisIn DEF LInv, RInv, WorkInv, TypeOK
<1>4. Done(q, l)' = Done(q, l)
  BY <1>1, <1>2, <1>3 DEF Done
<1>5. QED
  BY <1>1, <1>4 DEF Off, Add

LEMMA OnSame ==
  ASSUME LInv, NEW r \in Request, Mine(r), NEW l \in Schedule,
         Off(r, l)' = Off(r, l), Add(r, l)' = Add(r, l), BAKSCDTB' = BAKSCDTB
  PROVE  On(l)' = On(l)
<1>1. \A q \in Request : Off(q, l)' = Off(q, l) /\ Add(q, l)' = Add(q, l)
  BY DoneOthers
<1>2. QED
  BY <1>1 DEF On

\* A commit publishes what the scripts have made.
LEMMA OnCommit ==
  ASSUME LInv, NEW r \in Request, Mine(r), Commit(r), NEW l \in Schedule
  PROVE  On(l)' = On(l)
<1>1. /\ Off(r, l) <=> l \in txn[r].old
      /\ Add(r, l) <=> l \in txn[r].new
  BY DEF Off, Add, Done, Commit
<1>2. ~Off(r, l)' /\ ~Add(r, l)'
  <2>1. txn'[r] = NoTxn
    BY DEF Commit, LInv, TypeOK
  <2>2. QED
    BY <2>1 DEF Off, Add, NoTxn
<1>3. \A q \in Request \ {r} : Off(q, l)' = Off(q, l) /\ Add(q, l)' = Add(q, l)
  BY DoneOthers
<1>4. l \in BAKSCDTB' <=> (l \in BAKSCDTB /\ l \notin txn[r].old) \/ l \in txn[r].new
  BY DEF Commit
<1>5. \A q \in Request \ {r} : Off(q, l) => l \notin txn[r].new
  BY DEF LInv, Disjoint, Held, Off
<1>6. QED
  BY <1>1, <1>2, <1>3, <1>4, <1>5 DEF On

\* A request without a transaction makes nothing of anything.
LEMMA NothingHeld ==
  ASSUME NEW r \in Request, NEW l, txn[r] = NoTxn PROVE ~Off(r, l) /\ ~Add(r, l)
BY DEF NoTxn, Off, Add

\* A request that is done with one name, for a schedule its script does not lose.
LEMMA DoneNext ==
  ASSUME LInv, NEW r \in Request, NEW l \in Schedule, NextName(r), pc[r] \in AtWork,
         names[r] # {}, UNCHANGED <<req, txn>>,
         \/ pc[r] = "reading" /\ shell[<<r, This(r)>>] = <<>>
         \/ /\ pc[r] = "reading" => shell[<<r, This(r)>>] # <<>>
            /\ l \notin {This(r)} \cup (IF req[r].kind = "drop" THEN {} ELSE req[r].new)
  PROVE  Off(r, l)' = Off(r, l) /\ Add(r, l)' = Add(r, l)
<1>1. /\ names'[r] = names[r] \ {This(r)}
      /\ pc'[r] \in {"ssh", "commit"}
      /\ pc'[r] = "ssh" => req[r].kind = "drop"
      /\ pc'[r] = "commit" => names[r] = {This(r)}
  BY NextOne DEF NextName, Goto, LInv, TypeOK
<1>2. CASE req[r].kind = "drop"
  <2>1. Done(r, l)' <=> l \notin names[r] \ {This(r)}
    BY <1>1, <1>2 DEF Done, AtWork
  <2>2. Done(r, l) <=> l \notin names[r] \ {This(r)}
    BY <1>2 DEF Done, AtWork
  <2>3. QED
    BY <2>1, <2>2 DEF Off, Add
<1>3. CASE req[r].kind # "drop" /\ pc[r] = "reading" /\ shell[<<r, This(r)>>] = <<>>
  <2>1. Done(r, l) /\ Done(r, l)'
    BY <1>1, <1>3 DEF Done
  <2>2. QED
    BY <2>1 DEF Off, Add
<1>4. CASE req[r].kind # "drop" /\ l \notin {This(r)} \cup req[r].new
  <2>1. /\ names[r] = Edits(r) /\ AskOK(r)
        /\ txn[r].old = req[r].old /\ txn[r].new = req[r].new
    BY <1>4 DEF LInv, RInv, WorkInv, AtWork, Locked
  <2>2. This(r) \in names[r]
    BY ThisIn
  <2>3. l \notin txn[r].old /\ l \notin txn[r].new
    BY <1>4, <2>1, <2>2 DEF Edits, AskOK
  <2>4. QED
    BY <2>3 DEF Off, Add
<1>5. QED
  BY <1>2, <1>3, <1>4

LEMMA OnOwn ==
  ASSUME LInv, NEW r \in Request, RowsInv(r), NEW l \in Schedule, mishap'[l] = {},
         \/ Find(r) \/ WriteRow(r) \/ LockFails(r) \/ NoNames(r) \/ Exec(r) \/ ReadEnd(r)
         \/ Fail(r)
  PROVE  Off(r, l)' = Off(r, l) /\ Add(r, l)' = Add(r, l)
<1>1. CASE Find(r) \/ LockFails(r)
  <2>1. txn[r] = NoTxn /\ txn' = txn
    BY <1>1 DEF Find, LockFails, dbVars, RowsInv, Locked
  <2>2. txn'[r] = NoTxn
    BY <2>1
  <2>3. ~Off(r, l)' /\ ~Add(r, l)'
    BY <2>2 DEF NoTxn, Off, Add
  <2>4. QED
    BY <2>1, <2>3, NothingHeld DEF Off, Add
<1>2. CASE WriteRow(r)
  <2>1. txn[r] = NoTxn
    BY <1>2 DEF WriteRow, RowsInv, Locked
  <2>2. ~Off(r, l)' /\ ~Add(r, l)'
    <3>1. CASE Saves(r)
      <4>1. /\ pc'[r] = "ssh" /\ req' = req
            /\ txn'[r].old = req[r].old \cap BAKSCDTB /\ txn'[r].new = req[r].new
            /\ req[r].kind # "insert" => names'[r] = names[r]
        BY <3>1 DEF Saves, Goto, LInv, TypeOK
      <4>2. Done(r, l)' => req[r].kind = "drop" /\ l \notin names[r]
        BY <4>1 DEF Done
      <4>3. req[r].kind = "drop" => req[r].new = {}
        BY <3>1 DEF Saves, LInv, RInv, WorkInv, AskOK
      <4>4. req[r].kind = "drop" /\ l \in (req[r].old \cap BAKSCDTB) \ names[r] => "late" \in mishap'[l]
        BY <3>1 DEF Saves
      <4>5. QED
        BY <4>1, <4>2, <4>3, <4>4 DEF Off, Add
    <3>2. CASE UNCHANGED <<txn, names, mishap>>
      <4>1. txn'[r] = NoTxn
        BY <2>1, <3>2
      <4>2. QED
        BY <4>1 DEF NoTxn, Off, Add
    <3>3. QED
      BY <1>2, <3>1, <3>2, WriteRowCases
  <2>3. QED
    BY <2>1, <2>2, NothingHeld DEF Off, Add
<1>3. CASE NoNames(r)
  <2>1. /\ pc[r] = "ssh" /\ names[r] = {} /\ pc'[r] = "commit" /\ UNCHANGED <<txn, req>>
    BY <1>3 DEF NoNames, Goto, dbVars, LInv, TypeOK
  <2>2. req[r].kind = "drop"
    BY <2>1 DEF LInv, RInv, WorkInv, AskOK, Edits, AtWork
  <2>3. Done(r, l) /\ Done(r, l)'
    BY <2>1, <2>2 DEF Done, AtWork
  <2>4. QED
    BY <2>1, <2>3 DEF Off, Add
<1>4. CASE Exec(r)
  <2>1. /\ pc[r] = "ssh" /\ pc'[r] = "reading" /\ UNCHANGED <<txn, req, names>> /\ names[r] # {}
    BY <1>4 DEF Exec, AtSsh, Goto, dbVars, LInv, TypeOK
  <2>2. This(r)' = This(r) /\ This(r) \in Schedule
    BY <2>1, ThisSame, ThisIn DEF LInv, TypeOK
  <2>3. shell'[<<r, This(r)>>] # <<>>
    <3>1. req[r].kind \in Kind
      BY DEF LInv, TypeOK, Ask
    <3>2. QED
      BY <1>4, <2>2, <3>1, ScriptType DEF Exec, LInv, TypeOK
  <2>4. Done(r, l)' = Done(r, l)
    BY <2>1, <2>2, <2>3 DEF Done, AtWork
  <2>5. QED
    BY <2>1, <2>4 DEF Off, Add
<1>5. CASE ReadEnd(r)
  <2>1. /\ pc[r] = "reading" /\ shell[<<r, This(r)>>] = <<>> /\ names[r] # {}
        /\ NextName(r) /\ UNCHANGED <<req, txn>>
    BY <1>5 DEF ReadEnd, Reading, Running, dbVars, LInv, RInv, WorkInv
  <2>2. QED
    BY <2>1, DoneNext DEF AtWork
<1>6. CASE Unreachable(r) \/ Break(r)
  <2>1. /\ pc[r] \in AtWork /\ names[r] # {} /\ LoseEdit(r)
        /\ pc[r] = "reading" => shell[<<r, This(r)>>] # <<>>
        /\ NextName(r) /\ UNCHANGED <<req, txn>>
    BY <1>6 DEF Unreachable, AtSsh, Break, Reading, Running, AtWork, dbVars, LInv, RInv, WorkInv
  <2>2. l \notin {This(r)} \cup (IF req[r].kind = "drop" THEN {} ELSE req[r].new)
    BY <2>1 DEF LoseEdit, Befalls
  <2>3. QED
    BY <2>1, <2>2, DoneNext
<1>7. CASE Refuse(r)
  <2>1. /\ pc[r] = "ssh" \/ (pc[r] = "commit" /\ req[r].kind = "drop")
        /\ txn'[r] = NoTxn
    BY <1>7 DEF Refuse, AtSsh, AtDirectory, LInv, TypeOK
  <2>2. ~Off(r, l)' /\ ~Add(r, l)'
    BY <2>1 DEF NoTxn, Off, Add
  <2>3. ~Off(r, l) /\ ~Add(r, l)
    <3>1. CASE req[r].kind = "drop"
      <4>1. l \notin txn[r].old
        BY <1>7, <3>1 DEF Refuse, Befalls
      <4>2. txn[r].new = {}
        BY <2>1, <3>1 DEF LInv, RInv, WorkInv, AskOK, Locked
      <4>3. QED
        BY <4>1, <4>2 DEF Off, Add
    <3>2. CASE req[r].kind # "drop"
      BY <2>1, <3>2 DEF Off, Add, Done
    <3>3. QED
      BY <3>1, <3>2
  <2>4. QED
    BY <2>2, <2>3 DEF Off, Add
<1>8. QED
  BY <1>1, <1>2, <1>3, <1>4, <1>5, <1>6, <1>7 DEF Fail

-----------------------------------------------------------------------------
(***************************************************************************)
(* A command of a script.                                                  *)
(***************************************************************************)
\* A script that alters l, when nothing has befallen l: its request waits for it
\* and has l locked.
LEMMA Busy ==
  ASSUME LInv, NEW r \in Request, NEW s \in Schedule, shell[<<r, s>>] # <<>>,
         NEW l \in Schedule, Alters(r, s, l), mishap[l] = {}
  PROVE  /\ pc[r] = "reading" /\ s = This(r) /\ AskOK(r)
         /\ l \in Held(r) /\ txn[r].new = req[r].new
         /\ l \notin req[r].new => l \in txn[r].old
         /\ req[r].kind = "drop" => l = s
<1>1. pc[r] # "idle" /\ AskOK(r)
  BY DEF LInv, RInv, WorkInv, ShellInv, Before, Untouched
<1>2. Waited(r, s)
  BY <1>1 DEF LInv, RInv, ShellInv, Broken, Alters, AskOK
<1>3. pc[r] = "reading" /\ s = This(r) /\ s \in names[r]
  BY <1>2, ThisIn DEF Waited, LInv, RInv, WorkInv
<1>4. /\ txn[r].new = req[r].new
      /\ s \in Held(r) \/ "stale" \in mishap[s]
  BY <1>3 DEF LInv, RInv, WorkInv, AtWork, Locked
<1>5. l \in Held(r)
  BY <1>4 DEF Alters, Held
<1>6. QED
  BY <1>1, <1>3, <1>4, <1>5 DEF Held, Alters, AskOK

\* Until its last command a script changes nothing of what it makes.
LEMMA OnRunning ==
  ASSUME LInv, NEW r \in Request, NEW s \in Schedule, ShellStep(r, s), NEW l \in Schedule,
         shell'[<<r, s>>] # <<>>
  PROVE  On(l)' = On(l)
<1>1. /\ UNCHANGED <<pc, req, names, txn, BAKSCDTB>>
      /\ shell[<<r, s>>] # <<>>
  BY DEF ShellStep, webVars, dbVars
<1>2. \A t \in Schedule : shell'[<<r, t>>] = <<>> <=> shell[<<r, t>>] = <<>>
  BY <1>1 DEF ShellStep, LInv, TypeOK
<1>3. This(r)' = This(r) /\ (pc[r] = "reading" => This(r) \in Schedule)
  BY <1>1, ThisSame, ThisIn DEF LInv, RInv, WorkInv, TypeOK
<1>4. Done(r, l)' = Done(r, l)
  BY <1>1, <1>2, <1>3 DEF Done
<1>5. QED
  BY <1>1, <1>4, OnSame, ShellMine DEF Off, Add, LInv

LEMMA OnPlain ==
  ASSUME LInv, NEW r \in Request, NEW s \in Schedule, ShellStep(r, s), NEW l \in Schedule,
         ~Alters(r, s, l)
  PROVE  On(l)' = On(l)
<1>1. UNCHANGED <<pc, req, names, txn, BAKSCDTB>>
  BY DEF ShellStep, webVars, dbVars
<1>2. \A t \in Schedule \ {s} : shell'[<<r, t>>] = shell[<<r, t>>]
  BY DEF ShellStep, LInv, TypeOK
<1>3. This(r)' = This(r) /\ (pc[r] = "reading" => This(r) \in names[r] /\ This(r) \in Schedule)
  BY <1>1, ThisSame, ThisIn DEF LInv, RInv, WorkInv, TypeOK
<1>4. CASE ~(pc[r] = "reading" /\ s = This(r) /\ req[r].kind # "drop")
  <2>1. Done(r, l)' = Done(r, l)
    BY <1>1, <1>2, <1>3, <1>4 DEF Done, Alters
  <2>2. QED
    BY <1>1, <2>1, OnSame, ShellMine DEF Off, Add, LInv
<1>5. CASE pc[r] = "reading" /\ s = This(r) /\ req[r].kind # "drop"
  <2>1. /\ names[r] = Edits(r) /\ AskOK(r)
        /\ txn[r].old = req[r].old /\ txn[r].new = req[r].new
    BY <1>5 DEF LInv, RInv, WorkInv, AtWork, Locked
  <2>2. l \notin txn[r].old /\ l \notin txn[r].new
    BY <1>3, <1>5, <2>1 DEF Edits, AskOK, Alters
  <2>3. Off(r, l)' = Off(r, l) /\ Add(r, l)' = Add(r, l)
    BY <1>1, <2>2 DEF Off, Add
  <2>4. QED
    BY <1>1, <2>3, OnSame, ShellMine DEF LInv
<1>6. QED
  BY <1>4, <1>5

\* While it runs l is as listed, and with its last command as asked for.
LEMMA OnBefore ==
  ASSUME LInv, NEW r \in Request, NEW s \in Schedule, shell[<<r, s>>] # <<>>,
         NEW l \in Schedule, Alters(r, s, l), mishap[l] = {}
  PROVE  On(l) <=> l \in BAKSCDTB
<1>1. /\ pc[r] = "reading" /\ s = This(r) /\ l \in Held(r) /\ AskOK(r)
      /\ txn[r].new = req[r].new /\ (req[r].kind = "drop" => l = s)
  BY Busy
<1>2. s \in names[r]
  BY <1>1, ThisIn DEF LInv, RInv, WorkInv
<1>3. ~Done(r, l)
  BY <1>1, <1>2 DEF Done
<1>4. \A q \in Request \ {r} : l \notin Held(q)
  BY <1>1 DEF LInv, Disjoint
<1>5. QED
  BY <1>3, <1>4 DEF On, Off, Add, Held

LEMMA OnEnd ==
  ASSUME LInv, NEW r \in Request, NEW s \in Schedule, ShellStep(r, s), shell'[<<r, s>>] = <<>>,
         NEW l \in Schedule, Alters(r, s, l), mishap[l] = {}
  PROVE  On(l)' <=> l \in req[r].new
<1>1. UNCHANGED <<pc, req, names, txn, BAKSCDTB>> /\ shell[<<r, s>>] # <<>>
  BY DEF ShellStep, webVars, dbVars
<1>2. /\ pc[r] = "reading" /\ s = This(r) /\ l \in Held(r)
      /\ txn[r].new = req[r].new /\ (l \notin req[r].new => l \in txn[r].old)
      /\ req[r].kind = "drop" => l = s
  BY <1>1, Busy
<1>3. This(r)' = This(r)
  BY <1>1, ThisSame
<1>4. Done(r, l)'
  BY <1>1, <1>2, <1>3 DEF Done
<1>5. \A q \in Request \ {r} : l \notin txn'[q].old /\ l \notin txn'[q].new
  BY <1>1, <1>2 DEF LInv, Disjoint, Held
<1>6. QED
  BY <1>1, <1>2, <1>4, <1>5 DEF On, Off, Add

\* The commands, for one schedule.
LEMMA Commands ==
  ASSUME LInv, NEW r \in Request, NEW s \in Schedule, ShellStep(r, s), NEW l \in Schedule,
         NEW c, c = Head(shell[<<r, s>>])
  PROVE  /\ c \in {"truncate", "list", "perl", "echo"} => crontab'[l] = crontab[l]
         /\ c = "list" => cron_maria'[l] = crontab[l]
         /\ c = "perl" => cron_maria'[l] = IF NamedIn(s, l) THEN 0 ELSE cron_maria[l]
         /\ c = "echo" /\ req[r].kind \in {"insert", "update"}
               => cron_maria'[l] = IF l \in req[r].new THEN cron_maria[l] + 1 ELSE cron_maria[l]
         /\ c = "install" => crontab'[l] = cron_maria[l] /\ cron_maria'[l] = cron_maria[l]
<1>1. CASE c = "echo" /\ req[r].kind \in {"insert", "update"}
  <2>1. pc[r] # "idle"
    BY DEF ShellStep, LInv, RInv, ShellInv, Before, Untouched
  <2>2. PICK n \in Schedule : req[r].new = {n}
    BY <1>1, <2>1 DEF LInv, RInv, WorkInv, AskOK
  <2>3. \E m \in req[r].new : cron_maria' = [cron_maria EXCEPT ![m] = @ + 1] /\ crontab' = crontab
    BY <1>1, <2>2 DEF ShellStep
  <2>4. cron_maria' = [cron_maria EXCEPT ![n] = @ + 1] /\ crontab' = crontab
    BY <2>2, <2>3
  <2>5. cron_maria'[l] = IF l = n THEN cron_maria[l] + 1 ELSE cron_maria[l]
    BY <2>4 DEF LInv, TypeOK, Lines
  <2>6. QED
    BY <1>1, <2>2, <2>3, <2>5
<1>2. CASE c = "echo" /\ req[r].kind \notin {"insert", "update"}
  BY <1>2 DEF ShellStep
<1>3. CASE c = "perl"
  BY <1>3 DEF ShellStep
<1>4. CASE c \in {"truncate", "list", "install"}
  BY <1>4 DEF ShellStep
<1>5. CASE c \notin {"truncate", "list", "perl", "echo", "install"}
  BY <1>5
<1>6. QED
  BY <1>1, <1>2, <1>3, <1>4, <1>5

LEMMA LineStep ==
  ASSUME LInv, CInv, NEW r \in Request, NEW s \in Schedule, ShellStep(r, s),
         NEW l \in Schedule, mishap[l] = {}
  PROVE  LineInv(l)'
<1> DEFINE k == req[r].kind
           n == Left(r, s)
           c == Head(shell[<<r, s>>])
<1>1. /\ n \in Nat \ {0} /\ Left(r, s)' = n - 1 /\ c = Cmd(k, n) /\ n <= Size(k)
      /\ req' = req /\ shell[<<r, s>>] # <<>> /\ k \in Kind /\ Size(k) \in {4, 6}
      /\ Size(k) = 6 <=> k = "update"
  <2>1. Follows(r, s)
    BY DEF CInv
  <2>2. /\ n \in Nat \ {0} /\ Left(r, s)' = n - 1 /\ c = Cmd(k, n)
    BY <2>1, TailFollows
  <2>3. n <= Size(k)
    BY <2>1 DEF Follows
  <2>4. req' = req /\ shell[<<r, s>>] # <<>> /\ k \in Kind
    BY DEF ShellStep, webVars, LInv, TypeOK, Ask
  <2>5. Size(k) \in {4, 6} /\ (Size(k) = 6 <=> k = "update")
    BY DEF Size
  <2>6. QED
    BY <2>2, <2>3, <2>4, <2>5
<1>2. \A q \in Request, t \in Schedule : shell[<<q, t>>] # <<>> => q = r /\ t = s
  BY <1>1 DEF CInv, Alone
<1>3. \A q \in Request, t \in Schedule : shell'[<<q, t>>] # <<>> => q = r /\ t = s
  BY <1>2 DEF ShellStep, LInv, TypeOK
<1>4. shell'[<<r, s>>] # <<>> <=> n > 1
  <2>1. shell'[<<r, s>>] = Tail(shell[<<r, s>>]) /\ shell[<<r, s>>] \in Seq(Command)
    BY DEF ShellStep, LInv, TypeOK
  <2>2. \A q \in Seq(Command) : q # <<>> => Tail(q) \in Seq(Command)
    OBVIOUS
  <2>3. \A q \in Seq(Command) : q # <<>> <=> Len(q) > 0
    OBVIOUS
  <2>4. Left(r, s)' = Len(shell'[<<r, s>>])
    BY DEF Left
  <2>5. shell'[<<r, s>>] \in Seq(Command)
    BY <1>1, <2>1, <2>2
  <2>6. shell'[<<r, s>>] # <<>> <=> Left(r, s)' > 0
    BY <2>3, <2>4, <2>5
  <2>7. QED
    BY <1>1, <2>6
<1>5. /\ Past(r, s) <=> n <= Size(k) - 2
      /\ Past(r, s)' <=> n > 1 /\ n - 1 <= Size(k) - 2
  BY <1>1, <1>4 DEF Past
<1>6. /\ crontab[l] = V(l) \/ (Alters(r, s, l) /\ Past(r, s))
      /\ Past(r, s) => cron_maria[l] = Draft(r, s, l)
  BY <1>2 DEF CInv, LineInv, Past
<1>7. n > 1 \/ ~Alters(r, s, l) => V(l)' = V(l)
  BY <1>4, OnRunning, OnPlain DEF V
<1>8. Alters(r, s, l)' = Alters(r, s, l)
  BY <1>1 DEF Alters
<1>9. /\ c \in {"truncate", "list", "perl", "echo"} => crontab'[l] = crontab[l]
      /\ c = "list" => cron_maria'[l] = crontab[l]
      /\ c = "perl" => cron_maria'[l] = IF NamedIn(s, l) THEN 0 ELSE cron_maria[l]
      /\ c = "echo" /\ k \in {"insert", "update"}
            => cron_maria'[l] = IF l \in req[r].new THEN cron_maria[l] + 1 ELSE cron_maria[l]
      /\ c = "install" => crontab'[l] = cron_maria[l] /\ cron_maria'[l] = cron_maria[l]
  BY Commands
<1>10. SUFFICES /\ crontab'[l] = V(l)' \/ (Alters(r, s, l)' /\ Past(r, s)')
                /\ Past(r, s)' => cron_maria'[l] = Draft(r, s, l)'
  BY <1>3 DEF LineInv, Past
<1>11. Draft(r, s, l)' = IF ~Alters(r, s, l) \/ n - 1 = Size(k) - 2 THEN V(l)'
                         ELSE IF n - 1 = 1 /\ l \in req[r].new THEN 1 ELSE 0
  BY <1>1, <1>8 DEF Draft
<1>12. Draft(r, s, l) = IF ~Alters(r, s, l) \/ n = Size(k) - 2 THEN V(l)
                        ELSE IF n = 1 /\ l \in req[r].new THEN 1 ELSE 0
  BY DEF Draft
<1>13. CASE n >= Size(k) - 1
  <2>1. c = IF n = Size(k) THEN "truncate" ELSE "list"
    BY <1>1, <1>13 DEF Cmd
  <2>2. crontab'[l] = V(l)'
    BY <1>1, <1>5, <1>6, <1>7, <1>9, <1>13, <2>1
  <2>3. Past(r, s)' => c = "list" /\ n - 1 = Size(k) - 2
    BY <1>1, <1>5, <1>13, <2>1
  <2>4. QED
    BY <1>1, <1>5, <1>6, <1>7, <1>9, <1>11, <1>13, <2>2, <2>3
<1>14. CASE n = 1
  <2>1. c = "install" /\ ~Past(r, s)' /\ Past(r, s) /\ n # Size(k) - 2
    BY <1>1, <1>5, <1>14 DEF Cmd
  <2>2. cron_maria[l] = V(l)'
    <3>1. CASE ~Alters(r, s, l)
      BY <1>6, <1>7, <1>12, <2>1, <3>1
    <3>2. CASE Alters(r, s, l)
      <4>1. On(l)' <=> l \in req[r].new
        BY <1>4, <1>14, <3>2, OnEnd
      <4>2. QED
        BY <1>6, <1>12, <1>14, <2>1, <3>2, <4>1 DEF V
    <3>3. QED
      BY <3>1, <3>2
  <2>3. QED
    BY <1>9, <2>1, <2>2
<1>15. CASE n > 1 /\ n <= Size(k) - 2 /\ ~Alters(r, s, l)
  <2>1. cron_maria[l] = V(l) /\ crontab[l] = V(l) /\ V(l)' = V(l)
    BY <1>5, <1>6, <1>7, <1>12, <1>15
  <2>2. /\ c \in {"install", "echo", "perl"}
        /\ c = "echo" => k \in {"insert", "update"}
        /\ c = "perl" => k # "insert"
    BY <1>1, <1>15 DEF Cmd, Kind
  <2>3. c = "perl" => ~NamedIn(s, l)
    <3>1. c = "perl" => \A x \in Covered({s}) : "prefix" \in mishap[x]
      BY <1>1, <2>2 DEF LInv, RInv, ShellInv
    <3>2. QED
      BY <1>15, <3>1 DEF Covered, Alters
  <2>4. crontab'[l] = V(l) /\ cron_maria'[l] = V(l)
    BY <1>9, <1>15, <2>1, <2>2, <2>3 DEF Alters
  <2>5. QED
    BY <1>11, <1>15, <2>1, <2>4
<1>16. CASE n > 1 /\ n <= Size(k) - 2 /\ Alters(r, s, l)
  <2>1. /\ AskOK(r) /\ l \in Held(r) /\ txn[r].new = req[r].new
        /\ pc[r] = "reading" /\ (k = "drop" => l = s)
    BY <1>1, <1>16, Busy
  <2>2. /\ k # "drop" => txn[r].old = req[r].old /\ s \in Edits(r)
        /\ txn[r].new \cap (BAKSCDTB \ txn[r].old) = {}
    <3>1. s \in names[r]
      BY <1>1, <1>16, Busy, ThisIn DEF LInv, RInv, WorkInv
    <3>2. QED
      BY <2>1, <3>1 DEF LInv, RInv, WorkInv, AtWork, Locked, CInv, RowsInv
  <2>3. V(l) = IF l \in BAKSCDTB THEN 1 ELSE 0
    BY <1>1, <1>16, OnBefore DEF V
  <2>4. l = s => NamedIn(s, l)
    BY OccursAssumption DEF NamedIn, Schedule
  <2>5. n - 1 # Size(k) - 2 /\ Past(r, s)' /\ Past(r, s)
    BY <1>1, <1>5, <1>16
  <2>6. cron_maria'[l] = IF n - 1 = 1 /\ l \in req[r].new THEN 1 ELSE 0
    <3>1. CASE k = "insert"
      <4>1. n = 2 /\ c = "echo" /\ Size(k) = 4
        BY <1>1, <1>16, <3>1 DEF Cmd
      <4>2. l \in req[r].new /\ V(l) = 0
        BY <2>1, <2>2, <2>3, <3>1 DEF AskOK, Held
      <4>3. cron_maria[l] = 0
        BY <1>6, <1>12, <2>5, <4>1, <4>2
      <4>4. QED
        BY <1>9, <3>1, <4>1, <4>2, <4>3
    <3>2. CASE k = "delete" \/ k = "drop"
      <4>1. n = 2 /\ c = "perl"
        BY <1>1, <1>16, <3>2 DEF Cmd
      <4>2. l = s /\ l \notin req[r].new
        BY <1>16, <2>1, <3>2 DEF AskOK, Alters
      <4>3. QED
        BY <1>9, <2>4, <4>1, <4>2
    <3>3. CASE k = "update" /\ n = 4
      <4>1. c = "perl" /\ Size(k) = 6
        BY <1>1, <3>3 DEF Cmd
      <4>2. l = s \/ V(l) = 0
        BY <1>16, <2>1, <2>2, <2>3, <3>3 DEF AskOK, Alters, Edits
      <4>3. cron_maria[l] = V(l)
        BY <1>6, <1>12, <2>5, <3>3, <4>1
      <4>4. QED
        BY <1>9, <2>4, <3>3, <4>1, <4>2, <4>3
    <3>4. CASE k = "update" /\ n = 3
      <4>1. c = "install" /\ Size(k) = 6
        BY <1>1, <3>4 DEF Cmd
      <4>2. QED
        BY <1>6, <1>9, <1>12, <1>16, <2>5, <3>4, <4>1
    <3>5. CASE k = "update" /\ n = 2
      <4>1. c = "echo" /\ Size(k) = 6
        BY <1>1, <3>5 DEF Cmd
      <4>2. QED
        BY <1>6, <1>9, <1>12, <1>16, <2>5, <3>5, <4>1
    <3>6. QED
      BY <1>1, <1>16, <3>1, <3>2, <3>3, <3>4, <3>5 DEF Kind
  <2>7. QED
    BY <1>8, <1>11, <1>16, <2>5, <2>6
<1>17. QED
  BY <1>1, <1>13, <1>14, <1>15, <1>16

-----------------------------------------------------------------------------
(***************************************************************************)
(* CInv is kept.                                                           *)
(***************************************************************************)
\* A step that runs no command and starts or ends no script.
Quiet == /\ UNCHANGED <<shell, crontab, cron_maria>>
         /\ \A q \in Request, s \in Schedule : shell[<<q, s>>] # <<>> => req'[q] = req[q]

LEMMA NoneFollows ==
  ASSUME NEW q \in Request, NEW s \in Schedule, shell[<<q, s>>] = <<>> PROVE Follows(q, s)
<1>1. Left(q, s) = 0
  BY DEF Left
<1>2. 0 <= Size(req[q].kind)
  BY DEF Size
<1>3. QED
  BY <1>1, <1>2 DEF Follows

LEMMA QuietFollows ==
  ASSUME Quiet, NEW q \in Request, NEW s \in Schedule, Follows(q, s) PROVE Follows(q, s)'
<1>1. shell'[<<q, s>>] = shell[<<q, s>>] /\ Left(q, s)' = Left(q, s)
  BY DEF Quiet, Left
<1>2. CASE shell[<<q, s>>] = <<>>
  <2>1. Left(q, s)' = 0
    BY <1>1, <1>2 DEF Left
  <2>2. 0 <= Size(req'[q].kind)
    BY DEF Size
  <2>3. QED
    BY <2>1, <2>2 DEF Follows
<1>3. CASE shell[<<q, s>>] # <<>>
  BY <1>1, <1>3 DEF Quiet, Follows
<1>4. QED
  BY <1>2, <1>3

LEMMA QuietLine ==
  ASSUME Quiet, NEW l \in Schedule, LineInv(l), On(l)' = On(l) PROVE LineInv(l)'
<1>1. V(l)' = V(l)
  BY DEF V
<1>2. ASSUME NEW q \in Request, NEW s \in Schedule
      PROVE  /\ Past(q, s)' <=> Past(q, s)
             /\ Past(q, s) => (Alters(q, s, l)' <=> Alters(q, s, l))
             /\ Past(q, s) => Draft(q, s, l)' = Draft(q, s, l)
  <2>1. shell'[<<q, s>>] = shell[<<q, s>>] /\ Left(q, s)' = Left(q, s)
    BY DEF Quiet, Left
  <2>2. shell[<<q, s>>] # <<>> => req'[q] = req[q]
    BY DEF Quiet
  <2>3. Past(q, s)' <=> Past(q, s)
    BY <2>1, <2>2 DEF Past
  <2>4. Past(q, s) => (Alters(q, s, l)' <=> Alters(q, s, l))
    BY <2>2 DEF Past, Alters
  <2>5. Past(q, s) => Draft(q, s, l)' = Draft(q, s, l)
    BY <1>1, <2>1, <2>2, <2>4 DEF Past, Draft
  <2>6. QED
    BY <2>3, <2>4, <2>5
<1>3. QED
  BY <1>1, <1>2 DEF Quiet, LineInv

LEMMA QuietC ==
  ASSUME LInv, CInv, NEW r \in Request, Mine(r), Quiet,
         \A l \in Schedule : mishap'[l] = {} => On(l)' = On(l),
         \A q \in Request : RowsInv(q)'
  PROVE  CInv'
<1>1. \A l \in Schedule : mishap[l] \subseteq mishap'[l]
  BY DEF Mine
<1>2. Alone'
  BY <1>1 DEF CInv, Alone, Quiet
<1>3. \A q \in Request, s \in Schedule : Follows(q, s)'
  BY QuietFollows DEF CInv
<1>4. \A l \in Schedule : mishap'[l] = {} => LineInv(l)'
  BY <1>1, QuietLine DEF CInv
<1>5. QED
  BY <1>2, <1>3, <1>4 DEF CInv

LEMMA RowsAll ==
  ASSUME LInv, CInv, NEW r \in Request, Mine(r), RowsInv(r)', BAKSCDTB' = BAKSCDTB \/ Commit(r)
  PROVE  \A q \in Request : RowsInv(q)'
<1>1. \A q \in Request \ {r} : RowsInv(q)'
  BY RowsOthers DEF CInv
<1>2. QED
  BY <1>1

LEMMA SendC ==
  ASSUME LInv, CInv, NEW r \in Request, NEW k, NEW old, NEW new, NEW p \in {"find", "row"},
         Send(r, k, old, new, p)
  PROVE  CInv'
<1>1. /\ Mine(r) /\ pc[r] = "idle" /\ pc'[r] = p
      /\ UNCHANGED <<dbVars, hostVars, mishap>>
      /\ \A q \in Request \ {r} : req'[q] = req[q]
  BY SendMine DEF Send, Goto, LInv, TypeOK
<1>2. \A s \in Schedule : shell[<<r, s>>] = <<>>
  BY <1>1 DEF LInv, RInv, ShellInv, Before, Untouched
<1>3. Quiet
  BY <1>1, <1>2 DEF Quiet, hostVars
<1>4. txn[r] = NoTxn /\ txn'[r] = NoTxn /\ p \notin Locked
  BY <1>1 DEF CInv, RowsInv, Locked, dbVars
<1>5. ASSUME NEW l \in Schedule PROVE On(l)' = On(l)
  <2>1. /\ ~Off(r, l) /\ ~Add(r, l)
        /\ ~Off(r, l)' /\ ~Add(r, l)'
    BY <1>4 DEF Off, Add, NoTxn
  <2>2. BAKSCDTB' = BAKSCDTB
    BY <1>1 DEF dbVars
  <2>3. QED
    BY <1>1, <2>1, <2>2, OnSame DEF Off, Add
<1>6. RowsInv(r)'
  BY <1>1, <1>4 DEF RowsInv
<1>7. \A q \in Request : RowsInv(q)'
  BY <1>1, <1>6, RowsAll DEF dbVars
<1>8. QED
  BY <1>1, <1>3, <1>5, <1>7, QuietC

LEMMA ExecC ==
  ASSUME LInv, CInv, NEW r \in Request, Mine(r), Exec(r), \A q \in Request : RowsInv(q)'
  PROVE  CInv'
<1>1. UNCHANGED <<crontab, cron_maria, req, BAKSCDTB>>
  BY DEF Exec, dbVars
<1>2. PICK t \in Schedule :
         /\ shell' = [shell EXCEPT ![<<r, t>>] = Script(req[r].kind)]
  BY ThisIn DEF Exec, AtSsh, LInv, TypeOK
<1>3. /\ shell'[<<r, t>>] = Script(req[r].kind)
      /\ \A q \in Request, s \in Schedule : q # r \/ s # t => shell'[<<q, s>>] = shell[<<q, s>>]
  BY <1>2 DEF LInv, TypeOK
<1>4. ASSUME NEW l \in Schedule, mishap'[l] = {}
      PROVE  /\ mishap[l] = {}
             /\ \A q \in Request, s \in Schedule : shell[<<q, s>>] = <<>>
  BY <1>4 DEF Exec, Shells
<1>5. Alone'
  <2>1. SUFFICES ASSUME NEW l \in Schedule, mishap'[l] = {},
                        NEW p \in Request, NEW q \in Request, NEW u \in Schedule, NEW v \in Schedule,
                        shell'[<<p, u>>] # <<>>, shell'[<<q, v>>] # <<>>
                 PROVE  p = q /\ u = v
    BY DEF Alone
  <2>2. QED
    BY <1>3, <1>4, <2>1
<1>6. Follows(r, t)' /\ Left(r, t)' = Size(req[r].kind)
  BY <1>1, <1>3, NewFollows
<1>7. \A q \in Request, s \in Schedule : Follows(q, s)'
  <2>1. ASSUME NEW q \in Request, NEW s \in Schedule, q # r \/ s # t PROVE Follows(q, s)'
    BY <1>1, <1>3, <2>1 DEF CInv, Follows, Left
  <2>2. QED
    BY <1>6, <2>1
<1>8. ASSUME NEW l \in Schedule, mishap'[l] = {} PROVE LineInv(l)'
  <2>1. mishap[l] = {} /\ \A q \in Request, s \in Schedule : ~Past(q, s)
    BY <1>4, <1>8 DEF Past
  <2>2. crontab[l] = V(l)
    BY <2>1 DEF CInv, LineInv
  <2>3. On(l)' = On(l)
    BY <1>1, <1>8, OnOwn, OnSame DEF CInv
  <2>4. \A q \in Request, s \in Schedule : ~Past(q, s)'
    <3>1. ~Past(r, t)'
      BY <1>1, <1>6 DEF Past, Size
    <3>2. ASSUME NEW q \in Request, NEW s \in Schedule, q # r \/ s # t PROVE ~Past(q, s)'
      BY <1>3, <1>4, <1>8, <3>2 DEF Past
    <3>3. QED
      BY <3>1, <3>2
  <2>5. QED
    BY <1>1, <2>2, <2>3, <2>4 DEF LineInv, V
<1>9. QED
  BY <1>5, <1>7, <1>8 DEF CInv

LEMMA BreakC ==
  ASSUME LInv, CInv, NEW r \in Request, Mine(r), Break(r), \A q \in Request : RowsInv(q)'
  PROVE  CInv'
<1>1. /\ UNCHANGED <<crontab, cron_maria, req, BAKSCDTB>> /\ LoseEdit(r)
      /\ pc[r] = "reading" /\ names[r] # {}
  BY DEF Break, Reading, dbVars, LInv, RInv, WorkInv
<1>2. \A l \in Schedule : mishap[l] \subseteq mishap'[l]
  BY DEF Mine
<1>3. \A l \in Schedule : mishap'[l] = {} => On(l)' = On(l)
  BY <1>1, OnOwn, OnSame DEF Fail, CInv
<1>4. CASE shell' = shell
  <2>1. Quiet
    BY <1>1, <1>4 DEF Quiet
  <2>2. QED
    BY <1>3, <2>1, QuietC
<1>5. PICK t \in Schedule :
         /\ t = This(r) /\ shell[<<r, t>>] # <<>>
         /\ shell' = shell \/ shell' = [shell EXCEPT ![<<r, t>>] = <<>>]
  BY <1>1, ThisIn DEF Break, Running, LInv, TypeOK
<1>6. CASE shell' = [shell EXCEPT ![<<r, t>>] = <<>>]
  <2>1. /\ shell'[<<r, t>>] = <<>>
        /\ \A q \in Request, s \in Schedule : q # r \/ s # t => shell'[<<q, s>>] = shell[<<q, s>>]
    BY <1>6 DEF LInv, TypeOK
  <2>2. ASSUME NEW q \in Request, NEW s \in Schedule PROVE Follows(q, s)'
    <3>1. CASE q = r /\ s = t
      <4>1. Left(r, t)' = 0
        BY <2>1 DEF Left
      <4>2. 0 <= Size(req'[r].kind)
        BY DEF Size
      <4>3. Follows(r, t)'
        BY <4>1, <4>2 DEF Follows
      <4>4. QED
        BY <3>1, <4>3
    <3>2. CASE q # r \/ s # t
      BY <1>1, <2>1, <3>2 DEF CInv, Follows, Left
    <3>3. QED
      BY <3>1, <3>2
  <2>3. ASSUME NEW l \in Schedule, mishap'[l] = {}
        PROVE  /\ mishap[l] = {}
               /\ \A q \in Request, s \in Schedule : shell[<<q, s>>] # <<>> => q = r /\ s = t
    <3>1. mishap[l] = {}
      BY <1>2, <2>3
    <3>2. Alone /\ shell[<<r, t>>] # <<>>
      BY <1>5 DEF CInv
    <3>3. QED
      BY <3>1, <3>2 DEF Alone
  <2>4. Alone'
    <3>1. SUFFICES ASSUME NEW l \in Schedule, mishap'[l] = {},
                          NEW p \in Request, NEW q \in Request, NEW u \in Schedule, NEW v \in Schedule,
                          shell'[<<p, u>>] # <<>>, shell'[<<q, v>>] # <<>>
                   PROVE  p = q /\ u = v
      BY DEF Alone
    <3>2. QED
      BY <2>1, <2>3, <3>1
  <2>5. ASSUME NEW l \in Schedule, mishap'[l] = {} PROVE LineInv(l)'
    <3>1. l \notin {This(r)} \cup (IF req[r].kind = "drop" THEN {} ELSE req[r].new)
      BY <1>1, <2>5 DEF LoseEdit, Befalls
    <3>2. ~Alters(r, t, l)
      <4>1. req[r].kind = "drop" => req[r].new = {}
        BY <1>1 DEF LInv, RInv, WorkInv, AskOK
      <4>2. t = This(r)
        BY <1>5
      <4>3. QED
        BY <3>1, <4>1, <4>2 DEF Alters
    <3>3. \A q \in Request, s \in Schedule : ~(Alters(q, s, l) /\ Past(q, s))
      BY <2>3, <2>5, <3>2 DEF Past
    <3>4. crontab[l] = V(l)
      BY <2>3, <2>5, <3>3 DEF CInv, LineInv
    <3>5. \A q \in Request, s \in Schedule : ~Past(q, s)'
      BY <2>1, <2>3, <2>5 DEF Past
    <3>6. QED
      BY <1>1, <1>3, <2>5, <3>4, <3>5 DEF LineInv, V
  <2>6. QED
    BY <2>2, <2>4, <2>5 DEF CInv
<1>7. QED
  BY <1>4, <1>5, <1>6

LEMMA ShellC ==
  ASSUME LInv, CInv, NEW r \in Request, NEW s \in Schedule, ShellStep(r, s) PROVE CInv'
<1>1. /\ Mine(r) /\ UNCHANGED <<dbVars, webVars, mishap>>
      /\ \A q \in Request, t \in Schedule : q # r \/ t # s => shell'[<<q, t>>] = shell[<<q, t>>]
      /\ shell[<<r, s>>] # <<>>
  BY ShellMine DEF ShellStep, LInv, TypeOK
<1>2. \A q \in Request, t \in Schedule : shell'[<<q, t>>] # <<>> => shell[<<q, t>>] # <<>>
  BY <1>1
<1>3. Alone'
  BY <1>1, <1>2 DEF CInv, Alone
<1>4. \A q \in Request : RowsInv(q)'
  BY <1>1 DEF CInv, RowsInv, dbVars, webVars
<1>5. ASSUME NEW q \in Request, NEW t \in Schedule PROVE Follows(q, t)'
  <2>1. CASE q = r /\ t = s
    BY <2>1, TailFollows DEF CInv
  <2>2. CASE q # r \/ t # s
    BY <1>1, <2>2 DEF CInv, Follows, Left, webVars
  <2>3. QED
    BY <2>1, <2>2
<1>6. \A l \in Schedule : mishap'[l] = {} => LineInv(l)'
  BY <1>1, LineStep
<1>7. QED
  BY <1>3, <1>4, <1>5, <1>6 DEF CInv

LEMMA CStep == LInv /\ CInv /\ [Next]_vars => CInv'
<1>1. ASSUME LInv, CInv, NEW r \in Request,
             SendInsert(r) \/ SendUpdate(r) \/ SendDelete(r) \/ SendDrop(r)
      PROVE  CInv'
  <2>1. PICK k \in Kind, old \in SUBSET Schedule, new \in SUBSET Schedule, p \in {"find", "row"} :
           Send(r, k, old, new, p)
    BY <1>1, Asked DEF LInv
  <2>2. QED
    BY <1>1, <2>1, SendC
<1>2. ASSUME LInv, CInv, NEW r \in Request, Serve(r) \/ Fail(r) PROVE CInv'
  <2>1. Mine(r) /\ RowsInv(r)'
    BY <1>2, ServeMine, FailMine, RowsOwn DEF LInv, CInv
  <2>2. BAKSCDTB' = BAKSCDTB \/ Commit(r)
    BY <1>2 DEF Serve, Fail, Find, WriteRow, LockFails, NoNames, Exec, ReadEnd, Unreachable,
                Refuse, Break, dbVars
  <2>3. \A q \in Request : RowsInv(q)'
    BY <1>2, <2>1, <2>2, RowsAll
  <2>4. CASE Exec(r)
    BY <1>2, <2>1, <2>3, <2>4, ExecC
  <2>5. CASE Break(r)
    BY <1>2, <2>1, <2>3, <2>5, BreakC
  <2>6. CASE Commit(r)
    <3>1. Quiet
      BY <2>6 DEF Commit, Quiet, hostVars
    <3>2. QED
      BY <1>2, <2>1, <2>3, <2>6, <3>1, OnCommit, QuietC
  <2>7. CASE \/ Find(r) \/ WriteRow(r) \/ LockFails(r) \/ NoNames(r) \/ ReadEnd(r)
             \/ Unreachable(r) \/ Refuse(r)
    <3>1. Quiet /\ BAKSCDTB' = BAKSCDTB
      BY <2>7 DEF Quiet, Find, WriteRow, LockFails, NoNames, ReadEnd, Unreachable, Refuse,
                  hostVars, dbVars
    <3>2. ASSUME NEW l \in Schedule, mishap'[l] = {} PROVE On(l)' = On(l)
      <4>1. Off(r, l)' = Off(r, l) /\ Add(r, l)' = Add(r, l)
        BY <1>2, <2>7, <3>2, OnOwn DEF CInv, Fail
      <4>2. QED
        BY <1>2, <2>1, <3>1, <4>1, OnSame
    <3>3. QED
      BY <1>2, <2>1, <2>3, <3>1, <3>2, QuietC
  <2>8. QED
    BY <1>2, <2>4, <2>5, <2>6, <2>7 DEF Serve, Fail
<1>3. ASSUME LInv, CInv, UNCHANGED vars PROVE CInv'
  <2>1. Quiet
    BY <1>3 DEF vars, hostVars, webVars, Quiet
  <2>2. \A l \in Schedule : On(l)' = On(l)
    BY <1>3 DEF vars, dbVars, hostVars, webVars, On, Off, Add, Done, This
  <2>3. \A q \in Request : RowsInv(q)'
    BY <1>3 DEF vars, dbVars, webVars, CInv, RowsInv
  <2>4. Alone' /\ mishap' = mishap
    BY <1>3 DEF vars, hostVars, CInv, Alone
  <2>5. QED
    BY <1>3, <2>1, <2>2, <2>3, <2>4, QuietFollows, QuietLine DEF CInv
<1>4. QED
  BY <1>1, <1>2, <1>3, ShellC DEF Next

LEMMA CInit == Init => CInv
<1>1. SUFFICES ASSUME Init PROVE CInv
  OBVIOUS
<1>2. \A q \in Request, s \in Schedule : shell[<<q, s>>] = <<>>
  BY <1>1 DEF Init
<1>3. \A r \in Request : RowsInv(r)
  BY <1>1 DEF Init, RowsInv, Locked
<1>4. \A l \in Schedule : LineInv(l)
  <2>1. \A l \in Schedule : On(l) <=> l \in BAKSCDTB
    BY <1>1 DEF Init, On, Off, Add, NoTxn
  <2>2. QED
    BY <1>1, <1>2, <2>1 DEF Init, LineInv, V, Past
<1>5. QED
  BY <1>2, <1>3, <1>4, NoneFollows DEF CInv, Alone

THEOREM CInvariant == Spec => []CInv
<1>1. QED
  BY LInvariant, CInit, CStep, PTL DEF Spec

\* Where nobody is at work a schedule that nothing has befallen has its line in the
\* crontab exactly if it is listed.
THEOREM ListedOnDuty == Spec => []ListedIsOnDuty
<1>1. LInv /\ CInv => ListedIsOnDuty
  <2>1. SUFFICES ASSUME LInv, CInv, NEW l \in Schedule, Undisturbed(l)
                 PROVE  crontab[l] = IF l \in BAKSCDTB THEN 1 ELSE 0
    BY DEF ListedIsOnDuty
  <2>2. /\ mishap[l] = {} /\ \A r \in Request : l \notin Held(r)
        /\ \A q \in Request, s \in Schedule : shell[<<q, s>>] = <<>>
    BY <2>1 DEF Undisturbed, Shells
  <2>3. crontab[l] = V(l)
    BY <2>1, <2>2 DEF CInv, LineInv, Past
  <2>4. On(l) <=> l \in BAKSCDTB
    BY <2>2 DEF On, Off, Add, Held
  <2>5. QED
    BY <2>3, <2>4 DEF V
<1>2. QED
  BY <1>1, LInvariant, CInvariant, PTL

-----------------------------------------------------------------------------
(***************************************************************************)
(* The refinement: in calm stretches list and crontab are a Timetable.     *)
(***************************************************************************)
Nobody == \A r \in Request : pc[r] \notin AtWork

LEMMA NoShells ==
  ASSUME LInv, Calm, Nobody, NEW q \in Request, NEW s \in Schedule
  PROVE  shell[<<q, s>>] = <<>>
BY DEF LInv, RInv, ShellInv, Waited, Broken, Calm, Nobody, AtWork

\* Between the scripts and the commit the crontab has the change, and else it is the list.
Ahead == \/ \E r \in Request : /\ pc[r] = "commit"
                               /\ OnDuty = (BAKSCDTB \ txn[r].old) \cup txn[r].new
         \/ (\A r \in Request : pc[r] # "commit") /\ OnDuty = BAKSCDTB

LEMMA DutyNobody == LInv /\ CInv /\ Calm /\ Nobody => Ahead
<1> SUFFICES ASSUME LInv, CInv, Calm, Nobody PROVE Ahead
  OBVIOUS
<1>1. \A l \in Schedule : crontab[l] = V(l)
  BY NoShells DEF Calm, CInv, LineInv, Past
<1>2. OnDuty = {l \in Schedule : crontab[l] > 0}
  BY DEF OnDuty, Nobody, AtWork
<1>3. OnDuty = {l \in Schedule : On(l)}
  BY <1>1, <1>2 DEF V
<1>4. BAKSCDTB \subseteq Schedule /\ \A r \in Request : txn[r].new \subseteq Schedule
  BY DEF LInv, TypeOK, Txn
<1>5. ASSUME NEW q \in Request, pc[q] # "commit", NEW l \in Schedule
      PROVE  ~Off(q, l) /\ ~Add(q, l)
  BY <1>5 DEF Nobody, AtWork, Off, Add, Done
<1>6. CASE \E r \in Request : pc[r] = "commit"
  <2>1. PICK r \in Request : pc[r] = "commit"
    BY <1>6
  <2>2. \A q \in Request : pc[q] = "commit" => q = r
    BY <2>1 DEF Calm, Open, Answer
  <2>3. \A l \in Schedule : /\ Off(r, l) <=> l \in txn[r].old
                            /\ Add(r, l) <=> l \in txn[r].new
    BY <2>1 DEF Off, Add, Done
  <2>4. \A l \in Schedule : On(l) <=> l \in (BAKSCDTB \ txn[r].old) \cup txn[r].new
    BY <1>5, <2>2, <2>3 DEF On
  <2>5. QED
    BY <1>3, <1>4, <2>1, <2>4 DEF Ahead
<1>7. CASE \A r \in Request : pc[r] # "commit"
  <2>1. \A l \in Schedule : On(l) <=> l \in BAKSCDTB
    BY <1>5, <1>7 DEF On
  <2>2. QED
    BY <1>3, <1>4, <1>7, <2>1 DEF Ahead
<1>8. QED
  BY <1>6, <1>7

LEMMA DutyAtWork == ASSUME ~Nobody PROVE OnDuty = BAKSCDTB
BY DEF Nobody, OnDuty, AtWork

\* What a step can change of this.
LEMMA StepDuty ==
  ASSUME LInv, NEW r \in Request,
         \/ SendInsert(r) \/ SendUpdate(r) \/ SendDelete(r) \/ SendDrop(r)
         \/ Serve(r) \/ Fail(r) \/ \E s \in Schedule : ShellStep(r, s)
  PROVE  /\ Mine(r)
         /\ BAKSCDTB' = BAKSCDTB \/ Commit(r)
         /\ crontab' = crontab \/ \E s \in Schedule : shell[<<r, s>>] # <<>>
         /\ pc'[r] \in AtWork => pc[r] \in AtWork \cup {"row"}
<1>1. CASE SendInsert(r) \/ SendUpdate(r) \/ SendDelete(r) \/ SendDrop(r)
  <2>1. PICK k \in Kind, old \in SUBSET Schedule, new \in SUBSET Schedule, p \in {"find", "row"} :
           Send(r, k, old, new, p)
    BY <1>1, Asked DEF LInv
  <2>2. QED
    BY <2>1, SendMine DEF Send, Goto, dbVars, hostVars, LInv, TypeOK, AtWork
<1>2. CASE \E s \in Schedule : ShellStep(r, s)
  BY <1>2, ShellMine DEF ShellStep, dbVars, webVars, LInv
<1>3. CASE Serve(r) \/ Fail(r)
  <2>1. Mine(r)
    BY <1>3, ServeMine, FailMine DEF LInv
  <2>2. BAKSCDTB' = BAKSCDTB \/ Commit(r)
    BY <1>3 DEF Serve, Fail, Find, WriteRow, LockFails, NoNames, Exec, ReadEnd, Unreachable,
                Refuse, Break, dbVars
  <2>3. crontab' = crontab
    BY <1>3 DEF Serve, Fail, Find, WriteRow, LockFails, Commit, NoNames, Exec, ReadEnd, Unreachable,
                Refuse, Break, hostVars
  <2>4. pc'[r] \in AtWork => pc[r] \in AtWork \cup {"row"}
    <3>1. CASE Find(r) \/ LockFails(r) \/ Commit(r)
      BY <3>1 DEF Find, LockFails, Commit, Goto, AtWork, LInv, TypeOK
    <3>2. CASE WriteRow(r)
      BY <3>2 DEF WriteRow
    <3>3. CASE NoNames(r) \/ Exec(r) \/ ReadEnd(r) \/ Unreachable(r) \/ Break(r)
      BY <3>3 DEF NoNames, Exec, ReadEnd, Unreachable, Break, AtSsh, Reading, AtWork
    <3>4. CASE Refuse(r)
      BY <3>4 DEF Refuse, Goto, AtWork, LInv, TypeOK
    <3>5. QED
      BY <1>3, <3>1, <3>2, <3>3, <3>4 DEF Serve, Fail
  <2>5. QED
    BY <2>1, <2>2, <2>3, <2>4
<1>4. QED
  BY <1>1, <1>2, <1>3

LEMMA RefineStep ==
  ASSUME LInv, LInv', CInv, CInv', Next, Calm, Calm'
  PROVE  Promise!Next \/ UNCHANGED <<BAKSCDTB, OnDuty>>
<1>1. PICK r \in Request :
         \/ SendInsert(r) \/ SendUpdate(r) \/ SendDelete(r) \/ SendDrop(r)
         \/ Serve(r) \/ Fail(r) \/ \E s \in Schedule : ShellStep(r, s)
  BY DEF Next
<1>2. /\ \A q \in Request \ {r} : pc'[q] = pc[q]
      /\ BAKSCDTB' = BAKSCDTB \/ Commit(r)
      /\ crontab' = crontab \/ \E s \in Schedule : shell[<<r, s>>] # <<>>
      /\ pc'[r] \in AtWork => pc[r] \in AtWork \cup {"row"}
  BY <1>1, StepDuty DEF Mine
<1>3. \A p, q \in Request : Open(p) /\ Open(q) => p = q
  BY DEF Calm
<1>4. ~Nobody' => OnDuty' = BAKSCDTB'
  BY DEF Nobody, OnDuty, AtWork
<1>5. Nobody' => \/ \E q \in Request : /\ pc'[q] = "commit"
                                       /\ OnDuty' = (BAKSCDTB' \ txn'[q].old) \cup txn'[q].new
                 \/ (\A q \in Request : pc'[q] # "commit") /\ OnDuty' = BAKSCDTB'
  <2>1. Nobody' => Ahead'
    BY DutyNobody, PTL
  <2>2. QED
    BY <2>1 DEF Ahead
<1>6. CASE Commit(r)
  <2>1. /\ pc[r] = "commit" /\ pc'[r] = "saved"
        /\ BAKSCDTB' = (BAKSCDTB \ txn[r].old) \cup txn[r].new
    BY <1>6 DEF Commit, Goto, LInv, TypeOK
  <2>2. \A q \in Request \ {r} : ~Open(q)
    BY <1>3, <2>1 DEF Open, Answer
  <2>3. Nobody /\ Nobody' /\ \A q \in Request : pc'[q] # "commit"
    BY <1>2, <2>1, <2>2 DEF Nobody, AtWork, Open, Answer
  <2>4. OnDuty' = BAKSCDTB'
    BY <1>5, <2>3
  <2>5. OnDuty = BAKSCDTB'
    BY <2>1, <2>2, <2>3, DutyNobody DEF Ahead, Open, Answer
  <2>6. QED
    BY <2>4, <2>5 DEF Promise!Next, Promise!Publish
<1>7. CASE BAKSCDTB' = BAKSCDTB /\ ~Nobody /\ Nobody'
  <2>1. OnDuty = BAKSCDTB
    BY <1>7, DutyAtWork
  <2>2. CASE OnDuty' = BAKSCDTB'
    BY <1>7, <2>1, <2>2
  <2>3. ASSUME NEW q \in Request, pc'[q] = "commit",
               OnDuty' = (BAKSCDTB' \ txn'[q].old) \cup txn'[q].new
        PROVE  Promise!Next
    <3>1. /\ txn'[q].old \subseteq BAKSCDTB
          /\ txn'[q].new \cap (BAKSCDTB \ txn'[q].old) = {}
      BY <1>7, <2>3 DEF CInv, RowsInv, Locked
    <3>2. txn'[q].new \subseteq Schedule
      BY DEF LInv, TypeOK, Txn
    <3>3. QED
      BY <1>7, <2>1, <2>3, <3>1, <3>2 DEF Promise!Next, Promise!Change
  <2>4. QED
    BY <1>5, <1>7, <2>2, <2>3
<1>8. CASE BAKSCDTB' = BAKSCDTB /\ ~Nobody /\ ~Nobody'
  BY <1>4, <1>8, DutyAtWork
<1>9. CASE BAKSCDTB' = BAKSCDTB /\ Nobody /\ Nobody'
  <2>1. crontab' = crontab
    BY <1>2, <1>9, NoShells
  <2>2. QED
    BY <1>9, <2>1 DEF OnDuty, Nobody, AtWork
<1>10. CASE BAKSCDTB' = BAKSCDTB /\ Nobody /\ ~Nobody'
  <2>1. pc[r] = "row"
    BY <1>2, <1>10 DEF Nobody, AtWork
  <2>2. \A q \in Request : pc[q] # "commit"
    BY <1>3, <2>1 DEF Open, Answer
  <2>3. OnDuty = BAKSCDTB
    BY <1>10, <2>2, DutyNobody DEF Ahead
  <2>4. QED
    BY <1>4, <1>10, <2>3
<1>11. QED
  BY <1>2, <1>6, <1>7, <1>8, <1>9, <1>10

\* In the stretches in which one request at a time is at work and nothing has befallen
\* a schedule, list and crontab implement Timetable.
THEOREM ImplementsTimetable == Spec => PromiseKept
<1>1. Init => Promise!Init
  <2>1. ASSUME Init PROVE OnDuty = BAKSCDTB
    <3>1. OnDuty = {s \in Schedule : crontab[s] > 0}
      BY <2>1 DEF Init, OnDuty
    <3>2. QED
      BY <2>1, <3>1 DEF Init
  <2>2. QED
    BY <2>1 DEF Init, Promise!Init
<1>2. LInv /\ LInv' /\ CInv /\ CInv' /\ [Next]_vars
        => [Calm /\ Calm' => Promise!Next]_<<BAKSCDTB, OnDuty>>
  <2>1. CASE UNCHANGED vars
    BY <2>1 DEF vars, dbVars, hostVars, webVars, OnDuty
  <2>2. QED
    BY <2>1, RefineStep
<1>3. QED
  BY <1>1, <1>2, LInvariant, CInvariant, PTL DEF Spec, PromiseKept
=============================================================================
