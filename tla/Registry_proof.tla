--------------------------- MODULE Registry_proof ---------------------------
(***************************************************************************)
(* For any number of windows, servers, instances and for any license.      *)
(*                                                                         *)
(* RegInv needs nothing to be known about ids: which server an instance    *)
(* was meant for, and that a checked form leaves room in the license until *)
(* the next registration.                                                  *)
(*                                                                         *)
(* IdInv is about the digits: an id lies in the range of its parent, in    *)
(* the tables, in what is stored about an instance and in every form that  *)
(* is open (FormFits), however old.  The ranges of two parents only        *)
(* overlap when there are ten backup servers or more than a hundred        *)
(* registrations, which Few excludes; so a deletion by id reaches nothing  *)
(* else, and MAX + 1 is free unless another window was faster (Unraced).   *)
(*                                                                         *)
(* The first digit is a recursive function.  That First is one (FirstIs),  *)
(* and what it is of an id (FirstOfAll), is proved here by hand.           *)
(***************************************************************************)
EXTENDS Registry, FiniteSetTheorems, WellFoundedInduction, TLAPS

\* At most as many backup servers and registrations as the digits of an id have room for.
Few == Hosts < Radix /\ MaxReg <= Span

Typed ==
    /\ MNGSVRTB \in Seq(BOOLEAN) /\ Len(MNGSVRTB) <= Hosts
    /\ BAKMNGSVRTB \in SUBSET Server /\ BAKTGTSVRTB \in SUBSET Target /\ BAKMNGTRETB \in SUBSET Node
    /\ info \in SUBSET Info /\ work \in SUBSET Info /\ dirs \in SUBSET Dir
    /\ page \in [Page -> Inputs] /\ pc \in [Page -> PC] /\ got \in [Page -> Nat] /\ answer \in [Page -> Answer]
    /\ asked \in SUBSET (1 .. Hosts) /\ regs \in 0 .. MaxReg
    /\ history \in History

Finite ==
    /\ \E n \in Nat : \A s \in BAKMNGSVRTB : s.id <= n
    /\ \E n \in Nat : \A t \in BAKTGTSVRTB : t.id <= n
    /\ IsFiniteSet(BAKTGTSVRTB)

\* While the check of a form holds, there is room for the instance it registers.
Licensed == LicenseIsKept /\ (history.checked # {} => Cardinality(BAKTGTSVRTB) < License)

RegInv == Typed /\ Finite /\ Licensed /\ InstanceHasItsServer

-----------------------------------------------------------------------------
\* The id of an instance tells the target server b.
Within(n, b) == Span <= b /\ b < Slot /\ b * Slot <= n /\ n < b * Slot + Hosts * Span + regs

Digits ==
    /\ \A s \in BAKMNGSVRTB : s.pid \in 1 .. Hosts /\ s.pid * Span <= s.id /\ s.id < s.pid * Span + regs
    /\ \A t \in BAKTGTSVRTB : Within(t.id, t.pid)
    /\ \A i \in info \cup work : Within(i.bts_id, i.bms_id)

\* What a form holds is an id that some row had, however old it is.
FormIsOf(in) ==
    /\ in.bms_id # 0 => Span <= in.bms_id /\ in.bms_id < Slot
    /\ in.bmt_id <= Hosts /\ in.bms_pid <= Hosts
    /\ in.view = "target" /\ in.bts_id # 0 => Within(in.bts_id, in.bms_id)
FormFits(in, request, id) ==
    /\ FormIsOf(in)
    /\ request = "insertMng" => LET h == in.bmt_id IN
          h # 0 /\ h * Span <= id /\ id <= h * Span + regs
    /\ request = "insertTgt" => LET b == in.bms_id IN
          b # 0 /\ b * Slot <= id /\ id <= b * Slot + Hosts * Span + regs
    /\ request = "deleteTgt" => in.view = "target"
Forms == \A p \in Page : FormFits(page[p], pc[p], got[p])

\* TreeIsRegistry, row by row.
Registered == BAKMNGSVRTB \cup BAKTGTSVRTB
Tree ==
    /\ \A n \in BAKMNGTRETB : \E r \in Registered : r.id = n.id /\ r.pid = n.pid
    /\ \A r \in Registered : \E n \in BAKMNGTRETB : r.id = n.id /\ r.pid = n.pid
    /\ \A r, q \in Registered : r.id = q.id => r = q

\* A page that is at work will write about an instance that is there, or is known to be busy.
Present(i) == \/ i.by \in history.busy
              \/ \E t \in BAKTGTSVRTB : t.id = i.bts_id /\ t.pid = i.bms_id /\ t.by = i.by
AllPresent == \A i \in info \cup work : Present(i)

IdInv == Digits /\ Forms /\ Tree /\ AllPresent

\* Until another registration comes in between, MAX + 1 is no id of a row.
Unraced ==
    \A p \in Page : pc[p] \in {"insertMng", "insertTgt"} =>
        answer[p] = "none" /\ (p \in history.raced \/ \A r \in Registered : r.id # got[p])
-----------------------------------------------------------------------------
\* Max of a set of numbers that is not empty and bounded is its largest.
LEMMA MaxIs ==
    ASSUME NEW S \in SUBSET Nat, S # {}, NEW n \in Nat, \A x \in S : x <= n
    PROVE  Max(S) \in S /\ \A m \in S : m <= Max(S)
<1> DEFINE T == {k \in Nat : n - k \in S}
<1>1. T \subseteq Nat /\ T # {}
  <2>1. PICK x \in S : TRUE
    OBVIOUS
  <2>2. n - x \in Nat /\ n - (n - x) = x
    OBVIOUS
  <2> QED BY <2>1, <2>2
<1>2. PICK k \in T : \A j \in T : <<j, k>> \notin OpToRel(<, Nat)
  <2> HIDE DEF T
  <2> QED BY <1>1, NatLessThanWellFounded, WFMin
<1>3. \A j \in T : ~(j < k)
  BY <1>2 DEF OpToRel
<1>4. \E x \in S : \A m \in S : x >= m
  <2>1. k \in Nat /\ n - k \in S
    OBVIOUS
  <2>2. ASSUME NEW m \in S PROVE n - k >= m
    <3>1. n - m \in Nat /\ n - (n - m) = m
      OBVIOUS
    <3>2. n - m \in T
      BY <3>1
    <3>3. ~(n - m < k)
      BY <1>3, <3>2
    <3> QED BY <2>1, <3>1, <3>3
  <2> QED BY <2>1, <2>2
<1> HIDE DEF T
<1> QED BY <1>4 DEF Max

LEMMA Numbers ==
    /\ Radix \in Nat /\ Span \in Nat /\ 1 < Radix /\ Radix <= Span /\ Slot \in Nat /\ Span < Slot
    /\ License \in Nat /\ Hosts \in Nat /\ MaxReg \in Nat
<1>1. Radix \in Nat /\ Span \in Nat /\ 1 < Radix /\ Radix <= Span
  BY DigitAssumption
<1>2. Radix * Span \in Nat /\ Span < Radix * Span
  BY <1>1
<1> QED BY <1>1, <1>2, BoundAssumption DEF Slot

-----------------------------------------------------------------------------
\* What the steps of the pages do to the forms.
Clicked(p, new) ==
    /\ pc[p] = "ready" /\ page' = [page EXCEPT ![p] = new]
    /\ pc' = pc /\ got' = got /\ answer' = [answer EXCEPT ![p] = "none"]
    /\ UNCHANGED <<dbVars, hostVars, asked>>
    /\ history' = [history EXCEPT !.checked = history'.checked]

\* Every click is of this form, and what it shows is of rows that are there.
LEMMA InUseIsHost ==
    ASSUME Typed PROVE InUse \subseteq 1 .. Hosts
BY Numbers DEF Typed, InUse

LEMMA Clicks ==
    ASSUME Typed, NEW p \in Page, Click(p)
    PROVE  \E new \in Inputs :
              /\ Clicked(p, new)
              /\ history'.checked \in {history.checked \ {p}, history.checked \cup {p}}
              /\ p \in history'.checked => LicenseLeft
<1> USE DEF Typed
<1> DEFINE P == page[p]
<1>0. P \in Inputs /\ NoName \in Name \cup {NoName} /\ history \in History /\ history.checked \in SUBSET Page
  BY DEF History
<1>1. ASSUME NEW new, pc[p] = "ready", Show(p, new)
      PROVE  Clicked(p, new) /\ history'.checked = history.checked \ {p}
  <2>1. [history EXCEPT !.checked = history.checked \ {p}].checked = history.checked \ {p}
    BY <1>0 DEF History
  <2>2. history' = [history EXCEPT !.checked = history.checked \ {p}]
    BY <1>1 DEF Show
  <2>3. history'.checked = history.checked \ {p}
    BY <2>1, <2>2
  <2>4. history' = [history EXCEPT !.checked = history'.checked]
    BY <2>2, <2>3
  <2> QED BY <1>1, <2>3, <2>4 DEF Clicked, Show, CloseModal
<1>2. ASSUME NEW new \in Inputs, pc[p] = "ready", Show(p, new)
      PROVE  \E n \in Inputs :
              /\ Clicked(p, n)
              /\ history'.checked \in {history.checked \ {p}, history.checked \cup {p}}
              /\ p \in history'.checked => LicenseLeft
  BY <1>1, <1>2
<1>3. CASE Load(p)
  <2>1. [Blank EXCEPT !.tree = BAKMNGTRETB] \in Inputs
    BY DEF Blank, Inputs
  <2> QED BY <1>2, <1>3, <2>1 DEF Load
<1>4. CASE ClickHost(p)
  <2>1. PICK h \in InUse : pc[p] = "ready" /\ Show(p, [P EXCEPT !.view = "list", !.name = NoName, !.bms_pid = h])
    BY <1>4 DEF ClickHost
  <2>2. [P EXCEPT !.view = "list", !.name = NoName, !.bms_pid = h] \in Inputs
    <3>1. h \in Nat
      BY InUseIsHost, Numbers
    <3> QED BY <1>0, <3>1 DEF Inputs
  <2> QED BY <1>2, <2>1, <2>2
<1>5. CASE ClickServer(p)
  <2>1. PICK n \in P.tree :
           LET in == [P EXCEPT !.view = "server", !.name = n.nam]
               S  == {s \in At(BAKMNGSVRTB, n.id) : s.pid = n.pid}
           IN /\ pc[p] = "ready"
              /\ \/ Show(p, ClearServer(in))
                 \/ \E s \in S : Show(p, [in EXCEPT !.bms_id = s.id, !.bms_pid = s.pid, !.bms_nam = s.nam, !.shown = s.by])
    BY <1>5 DEF ClickServer
  <2> DEFINE in == [P EXCEPT !.view = "server", !.name = n.nam]
  <2>2. n \in Node
    BY <1>0 DEF Inputs
  <2>3. in \in Inputs
    BY <1>0, <2>2 DEF Inputs, Node
  <2> HIDE DEF in
  <2>4. ClearServer(in) \in Inputs
    BY <2>3 DEF ClearServer, Inputs
  <2>5. ASSUME NEW s \in BAKMNGSVRTB
        PROVE  [in EXCEPT !.bms_id = s.id, !.bms_pid = s.pid, !.bms_nam = s.nam, !.shown = s.by] \in Inputs
    BY <2>3 DEF Inputs, Server
  <2> QED BY <1>2, <2>1, <2>4, <2>5 DEF At, in
<1>6. CASE ClickTarget(p)
  <2>1. PICK n \in P.tree : pc[p] = "ready" /\
           LET in == [P EXCEPT !.view = "target"]
               T  == {t \in At(BAKTGTSVRTB, n.id) : t.pid = n.pid}
               S  == At(BAKMNGSVRTB, n.pid)
           IN \/ Show(p, ClearTarget(in))
              \/ \E t \in T :
                Show(p, [in EXCEPT !.bts_id = t.id, !.bms_id = t.pid, !.bts_nam = t.nam,
                         !.bmt_id = IF Lead(t.id) \in InUse THEN Lead(t.id) ELSE @,
                         !.name = IF \E s \in S : s.pid = Lead(s.id) THEN (CHOOSE s \in S : TRUE).nam ELSE @,
                         !.shown = IF S = {} THEN 0 ELSE (CHOOSE s \in S : TRUE).by])
    BY <1>6 DEF ClickTarget
  <2> DEFINE in == [P EXCEPT !.view = "target"]
             S == At(BAKMNGSVRTB, n.pid)
             host(t) == IF Lead(t.id) \in InUse THEN Lead(t.id) ELSE in.bmt_id
             nam == IF \E s \in S : s.pid = Lead(s.id) THEN (CHOOSE s \in S : TRUE).nam ELSE in.name
             by == IF S = {} THEN 0 ELSE (CHOOSE s \in S : TRUE).by
             shows(t) == [in EXCEPT !.bts_id = t.id, !.bms_id = t.pid, !.bts_nam = t.nam,
                          !.bmt_id = host(t), !.name = nam, !.shown = by]
  <2>3. in \in Inputs
    BY <1>0 DEF Inputs
  <2>4. in.bmt_id \in Nat /\ in.name \in Name \cup {NoName}
    BY <2>3 DEF Inputs
  <2>5. S \subseteq BAKMNGSVRTB
    BY DEF At
  <2>6. nam \in Name \cup {NoName} /\ by \in Nat
    <3> HIDE DEF S
    <3>1. CASE S = {}
      BY <2>4, <3>1
    <3>2. CASE S # {}
      <4>1. (CHOOSE s \in S : TRUE) \in S
        BY <3>2
      <4> QED BY <2>4, <2>5, <4>1 DEF Server
    <3> QED BY <3>1, <3>2
  <2>7. ASSUME NEW t \in BAKTGTSVRTB PROVE host(t) \in Nat
    BY <2>4, InUseIsHost, Numbers
  <2>8. \/ Show(p, ClearTarget(in))
        \/ \E t \in BAKTGTSVRTB : Show(p, shows(t))
    BY <2>1 DEF At
  <2> HIDE DEF in, nam, by, host
  <2>9. ClearTarget(in) \in Inputs
    BY <2>3 DEF ClearTarget, Inputs
  <2>10. ASSUME NEW t \in BAKTGTSVRTB PROVE shows(t) \in Inputs
    BY <2>3, <2>6, <2>7 DEF Inputs, Target
  <2> HIDE DEF shows
  <2> QED BY <1>2, <2>1, <2>8, <2>9, <2>10
<1>7. CASE AddServer(p)
  <2> DEFINE in == [P EXCEPT !.view = "server", !.bmt_id = P.bms_pid]
  <2>1. in \in Inputs
    BY <1>0 DEF Inputs
  <2>2. ClearServer(in) \in Inputs
    <3> HIDE DEF in
    <3> QED BY <2>1 DEF ClearServer, Inputs
  <2> QED BY <1>2, <1>7, <2>2 DEF AddServer
<1>8. CASE AddTarget(p)
  <2> DEFINE in == [P EXCEPT !.view = "target", !.bmt_id = P.bms_pid]
  <2>0. in = [[P EXCEPT !.view = "target"] EXCEPT !.bmt_id = P.bms_pid]
    OBVIOUS
  <2>1. in \in Inputs
    BY <1>0 DEF Inputs
  <2>2. ClearTarget(in) \in Inputs
    <3> HIDE DEF in
    <3> QED BY <2>1 DEF ClearTarget, Inputs
  <2>3. page' = [page EXCEPT ![p] = ClearTarget(in)]
    BY <1>8 DEF AddTarget
  <2>4. history'.checked = history.checked \cup {p}
    BY <1>0, <1>8 DEF AddTarget, History
  <2>5. history' = [history EXCEPT !.checked = history'.checked]
    BY <1>8, <2>4 DEF AddTarget
  <2>6. Clicked(p, ClearTarget(in))
    BY <1>8, <2>3, <2>5 DEF Clicked, AddTarget, CloseModal
  <2> QED BY <1>8, <2>2, <2>4, <2>6 DEF AddTarget
<1> QED BY <1>3, <1>4, <1>5, <1>6, <1>7, <1>8 DEF Click

-----------------------------------------------------------------------------
\* The ids that are given are numbers.
LEMMA MngMaxIdIs ==
    ASSUME Typed, Finite, NEW h \in Nat
    PROVE  LET S == {s \in BAKMNGSVRTB : s.pid = h} IN
           \/ S = {} /\ MngMaxId(h) = h * Span
           \/ \E s \in S : MngMaxId(h) = s.id + 1 /\ \A r \in S : r.id < MngMaxId(h)
<1> DEFINE S == {s \in BAKMNGSVRTB : s.pid = h}
<1>1. CASE S = {}
  BY <1>1 DEF MngMaxId
<1>2. CASE S # {}
  <2>1. PICK n \in Nat : \A s \in BAKMNGSVRTB : s.id <= n
    BY DEF Finite
  <2>2. Ids(S) \in SUBSET Nat /\ Ids(S) # {} /\ \A x \in Ids(S) : x <= n
    BY <1>2, <2>1 DEF Ids, Typed, Server
  <2>3. Max(Ids(S)) \in Ids(S) /\ \A m \in Ids(S) : m <= Max(Ids(S))
    BY <2>2, MaxIs
  <2>4. MngMaxId(h) = Max(Ids(S)) + 1
    BY <1>2 DEF MngMaxId
  <2>5. PICK s \in S : s.id = Max(Ids(S))
    BY <2>3 DEF Ids
  <2>6. ASSUME NEW r \in S PROVE r.id < MngMaxId(h)
    <3>1. r.id \in Ids(S) /\ r.id \in Nat /\ s.id \in Nat
      BY DEF Ids, Typed, Server
    <3> QED BY <2>3, <2>4, <2>5, <3>1
  <2> QED BY <2>4, <2>5, <2>6
<1> QED BY <1>1, <1>2

LEMMA TgtMaxIdIs ==
    ASSUME Typed, NEW b \in Nat, NEW h \in Nat
    PROVE  \/ Under(b) = {} /\ TgtMaxId(b, h) = b * Slot + h * Span
           \/ \E t \in Under(b) : /\ TgtMaxId(b, h) = b * Slot + (Right(t.id) + 1)
                                  /\ \A r \in Under(b) : Right(r.id) <= Right(t.id)
<1> DEFINE R == {Right(n) : n \in Ids(Under(b))}
<1>1. CASE Under(b) = {}
  BY <1>1 DEF TgtMaxId
<1>2. CASE Under(b) # {}
  <2>1. \A t \in Under(b) : t.id \in Nat /\ Right(t.id) \in Nat /\ Right(t.id) <= Slot
    BY Numbers DEF Under, Typed, Target, Right
  <2>2. R \in SUBSET Nat /\ R # {} /\ \A x \in R : x <= Slot
    BY <1>2, <2>1 DEF Ids
  <2>3. Max(R) \in R /\ \A m \in R : m <= Max(R)
    BY <2>2, MaxIs, Numbers
  <2>4. TgtMaxId(b, h) = b * Slot + (Max(R) + 1)
    BY <1>2 DEF TgtMaxId
  <2>5. PICK t \in Under(b) : Right(t.id) = Max(R)
    BY <2>3 DEF Ids
  <2>6. \A r \in Under(b) : Right(r.id) <= Right(t.id)
    BY <2>3, <2>5 DEF Ids
  <2> QED BY <2>4, <2>5, <2>6
<1> QED BY <1>1, <1>2

LEMMA IdsAreNumbers ==
    ASSUME Typed, Finite, NEW h \in Nat, NEW b \in Nat
    PROVE  MngMaxId(h) \in Nat /\ TgtMaxId(b, h) \in Nat
<1>1. h * Span \in Nat /\ b * Slot \in Nat
  BY Numbers
<1>2. MngMaxId(h) \in Nat
  BY <1>1, MngMaxIdIs DEF Typed, Server
<1>3. \A t \in Under(b) : Right(t.id) \in Nat
  BY Numbers DEF Under, Typed, Target, Right
<1>4. TgtMaxId(b, h) \in Nat
  BY <1>1, <1>3, TgtMaxIdIs
<1> QED BY <1>2, <1>4

-----------------------------------------------------------------------------
\* What an answer does to the page.
LEMMA Replies ==
    ASSUME Typed, BAKMNGTRETB' \in SUBSET Node, NEW p \in Page, NEW a \in Answer, Reply(p, a)
    PROVE  /\ page' \in [Page -> Inputs]
           /\ pc' = [pc EXCEPT ![p] = "ready"] /\ pc' \in [Page -> PC]
           /\ got' \in [Page -> Nat] /\ answer' \in [Page -> Answer] /\ asked' = asked
           /\ page' = page \/ page' = [page EXCEPT ![p] = Loaded(p)]
           /\ Loaded(p) \in Inputs
           /\ Loaded(p).view = "list" /\ Loaded(p).bms_id = page[p].bms_id
           /\ Loaded(p).bmt_id = page[p].bmt_id /\ Loaded(p).bms_pid = page[p].bms_pid
<1>1. page[p] \in Inputs
  BY DEF Typed
<1>2. /\ Loaded(p) \in Inputs
      /\ Loaded(p).view = "list" /\ Loaded(p).bms_id = page[p].bms_id
      /\ Loaded(p).bmt_id = page[p].bmt_id /\ Loaded(p).bms_pid = page[p].bms_pid
  BY <1>1 DEF Loaded, Inputs
<1>3. page' = page \/ page' = [page EXCEPT ![p] = Loaded(p)]
  BY DEF Reply
<1>4. page' \in [Page -> Inputs]
  BY <1>2, <1>3 DEF Typed
<1> QED BY <1>2, <1>3, <1>4 DEF Reply, Typed, PC

Refused(p) == \E a \in Answer : ReplyOnly(p, a)

LEMMA TypedRefused ==
    ASSUME Typed, NEW p \in Page, Refused(p)
    PROVE  Typed'
<1>1. PICK a \in Answer : ReplyOnly(p, a)
  BY DEF Refused
<1>2. UNCHANGED <<dbVars, hostVars, history>> /\ Reply(p, a)
  BY <1>1 DEF ReplyOnly
<1>3. BAKMNGTRETB' \in SUBSET Node
  BY <1>2 DEF Typed, dbVars
<1> QED BY <1>2, <1>3, Replies DEF Typed, dbVars, hostVars

LEMMA TypedAsk ==
    ASSUME Typed, NEW p \in Page, NEW next \in PC, NEW n \in Nat, Ask(p, next, n)
    PROVE  Typed'
<1>1. history' \in History
  BY DEF Ask, Typed, History
<1>2. pc' \in [Page -> PC] /\ got' \in [Page -> Nat] /\ answer' \in [Page -> Answer]
  BY DEF Ask, Typed, Answer
<1> QED BY <1>1, <1>2 DEF Ask, Typed, dbVars, hostVars

LEMMA TypedClick ==
    ASSUME Typed, NEW p \in Page, Click(p)
    PROVE  Typed'
<1>1. PICK new \in Inputs : Clicked(p, new) /\ history'.checked \in {history.checked \ {p}, history.checked \cup {p}}
  BY Clicks
<1>2. history' \in History
  <2>1. history'.checked \in SUBSET Page
    BY <1>1 DEF Typed, History
  <2> QED BY <1>1, <2>1 DEF Clicked, Typed, History
<1>3. page' \in [Page -> Inputs] /\ answer' \in [Page -> Answer]
  BY <1>1 DEF Clicked, Typed, Answer
<1> QED BY <1>1, <1>2, <1>3 DEF Clicked, Typed, dbVars, hostVars

LEMMA TypedInsertMng ==
    ASSUME Typed, NEW p \in Page, InsertMngSvr(p), ~Refused(p)
    PROVE  Typed'
<1> DEFINE h == page[p].bmt_id
<1>1. PICK nam \in Name :
         /\ BAKMNGSVRTB' = BAKMNGSVRTB \cup {[id |-> got[p], pid |-> h, nam |-> nam, by |-> regs + 1]}
         /\ BAKMNGTRETB' = BAKMNGTRETB \cup {[id |-> got[p], pid |-> h, nam |-> nam]}
         /\ regs < MaxReg /\ regs' = regs + 1
         /\ history' = [history EXCEPT !.raced = Race(p)]
         /\ UNCHANGED <<MNGSVRTB, BAKTGTSVRTB, info, hostVars>>
         /\ Reply(p, "saved")
  BY DEF InsertMngSvr, Refused, Answer
<1>2. h \in Nat /\ got[p] \in Nat /\ regs \in Nat /\ regs + 1 \in 0 .. MaxReg
  BY <1>1, Numbers DEF Typed, Inputs
<1>3. BAKMNGSVRTB' \in SUBSET Server /\ BAKMNGTRETB' \in SUBSET Node
  BY <1>1, <1>2 DEF Typed, Server, Node
<1>4. history' \in History
  <2>1. Race(p) \in SUBSET Page
    BY DEF Race, Typed, History
  <2> QED BY <1>1, <2>1 DEF Typed, History
<1>5. "saved" \in Answer
  BY DEF Answer
<1> QED BY <1>1, <1>2, <1>3, <1>4, <1>5, Replies DEF Typed, hostVars

LEMMA TypedInsertTgt ==
    ASSUME Typed, NEW p \in Page, InsertTgtSvr(p), ~Refused(p)
    PROVE  Typed'
<1> DEFINE b == page[p].bms_id
           late == IF \E s \in At(BAKMNGSVRTB, b) : s.by = page[p].shown THEN {} ELSE {regs + 1}
<1>1. PICK nam \in TgtName :
         /\ BAKTGTSVRTB' = BAKTGTSVRTB \cup
               {[id |-> got[p], pid |-> b, nam |-> nam, by |-> regs + 1, of |-> page[p].shown]}
         /\ BAKMNGTRETB' = BAKMNGTRETB \cup {[id |-> got[p], pid |-> b, nam |-> nam]}
         /\ regs < MaxReg /\ regs' = regs + 1
         /\ history' = [history EXCEPT !.raced = Race(p), !.checked = {},
                          !.unchecked = @ \/ p \notin history.checked, !.late = @ \cup late]
         /\ UNCHANGED <<MNGSVRTB, BAKMNGSVRTB, info, hostVars>>
         /\ Reply(p, "saved")
  BY DEF InsertTgtSvr, Refused, Answer
<1>2. b \in Nat /\ got[p] \in Nat /\ page[p].shown \in Nat /\ regs \in Nat /\ regs + 1 \in 0 .. MaxReg
  BY <1>1, Numbers DEF Typed, Inputs
<1>3. BAKTGTSVRTB' \in SUBSET Target /\ BAKMNGTRETB' \in SUBSET Node
  BY <1>1, <1>2, NameAssumption DEF Typed, Target, Node
<1>4. history' \in History
  <2>1. Race(p) \in SUBSET Page /\ late \in SUBSET Nat
    BY <1>2 DEF Race, Typed, History
  <2> HIDE DEF late
  <2> QED BY <1>1, <2>1 DEF Typed, History
<1>5. "saved" \in Answer
  BY DEF Answer
<1> QED BY <1>1, <1>2, <1>3, <1>4, <1>5, Replies DEF Typed, hostVars

\* A deletion takes rows away, and notes which instances were left or at work.
LEMMA TypedDelete ==
    ASSUME Typed, NEW p \in Page, Reply(p, "deleted"),
           BAKMNGSVRTB' \subseteq BAKMNGSVRTB, BAKTGTSVRTB' \subseteq BAKTGTSVRTB,
           BAKMNGTRETB' \subseteq BAKMNGTRETB, info' \subseteq info, dirs' \subseteq dirs,
           history' \in History, UNCHANGED <<MNGSVRTB, regs, work>>
    PROVE  Typed'
<1>1. "deleted" \in Answer /\ BAKMNGTRETB' \in SUBSET Node
  BY DEF Answer, Typed
<1> QED BY <1>1, Replies DEF Typed

LEMMA Leaving ==
    ASSUME Typed, NEW T
    PROVE  /\ Leave(T) \in History /\ Leave(T).busy = history.busy \cup (Bys(T) \cap Bys(work))
           /\ Leave(T).late = history.late /\ Leave(T).checked = history.checked
           /\ Leave(T).unchecked = history.unchecked /\ Leave(T).raced = history.raced
<1> DEFINE B == Bys(T) \cap Bys(work)
<1>1. B \in SUBSET Nat
  BY DEF Bys, Typed, Info
<1> HIDE DEF B
<1>2. Leave(T) = [history EXCEPT !.busy = history.busy \cup B]
  BY DEF Leave, B
<1>3. B = Bys(T) \cap Bys(work)
  BY DEF B
<1> QED BY <1>1, <1>2, <1>3 DEF Typed, History

LEMMA TypedDeleteMng ==
    ASSUME Typed, NEW p \in Page, DeleteMngSvr(p), ~Refused(p)
    PROVE  Typed'
<1> DEFINE b == page[p].bms_id
<1>1. CASE /\ history' = [history EXCEPT !.late = @ \cup Bys(Under(b))]
           /\ BAKMNGSVRTB' = BAKMNGSVRTB \ At(BAKMNGSVRTB, b)
           /\ BAKMNGTRETB' = BAKMNGTRETB \ At(BAKMNGTRETB, b)
           /\ UNCHANGED <<MNGSVRTB, BAKTGTSVRTB, info, regs, hostVars>>
           /\ Reply(p, "deleted")
  <2>1. Bys(Under(b)) \in SUBSET Nat
    BY DEF Bys, Under, Typed, Target
  <2>2. history' \in History
    BY <1>1, <2>1 DEF Typed, History
  <2> QED BY <1>1, <2>2, TypedDelete DEF hostVars
<1>2. CASE /\ BAKMNGSVRTB' = BAKMNGSVRTB \ At(BAKMNGSVRTB, b)
           /\ BAKTGTSVRTB' = BAKTGTSVRTB \ InstancesOf(b)
           /\ BAKMNGTRETB' = {n \in BAKMNGTRETB : NotOf(n, b)}
           /\ info' = {i \in info : InfoNotOf(i, b)}
           /\ Remove(b, OfServer(page[p].bms_nam))
           /\ history' = Leave(Under(b))
           /\ UNCHANGED <<MNGSVRTB, regs, work>>
           /\ Reply(p, "deleted")
  BY <1>2, Leaving, TypedDelete DEF Remove
<1> QED BY <1>1, <1>2 DEF DeleteMngSvr, Refused, Answer

LEMMA TypedDeleteTgt ==
    ASSUME Typed, NEW p \in Page, DeleteTgtSvr(p), ~Refused(p)
    PROVE  Typed'
<1> DEFINE in == page[p]
           T == At(BAKTGTSVRTB, in.bts_id)
<1>1. /\ BAKTGTSVRTB' = BAKTGTSVRTB \ T
      /\ BAKMNGTRETB' = BAKMNGTRETB \ At(BAKMNGTRETB, in.bts_id)
      /\ info' = {i \in info : ~(i.bms_id = in.bms_id /\ i.bts_id = in.bts_id)}
      /\ Remove(in.bts_id, OfTarget(in.name, in.bts_nam))
      /\ history' = Leave(T)
      /\ UNCHANGED <<MNGSVRTB, BAKMNGSVRTB, regs, work>>
      /\ Reply(p, "deleted")
  BY DEF DeleteTgtSvr, Refused, Answer
<1> QED BY <1>1, Leaving, TypedDelete DEF Remove

LEMMA TypedPage ==
    ASSUME Typed, Finite, NEW p \in Page, Click(p) \/ Save(p) \/ Delete(p)
    PROVE  Typed'
<1>1. page[p] \in Inputs
  BY DEF Typed
<1>2. UpdateMngSvr(p) \/ UpdateTgtSvr(p) \/ DeleteNothing(p) => Refused(p)
  BY DEF UpdateMngSvr, UpdateTgtSvr, DeleteNothing, Refused, Answer
<1>3. FindMngSvrMaxId(p) \/ FindTgtSvrMaxId(p) \/ BeginDelete(p) =>
        Refused(p) \/ \E next \in PC, n \in Nat : Ask(p, next, n)
  <2>1. ASSUME FindMngSvrMaxId(p), ~Refused(p) PROVE \E next \in PC, n \in Nat : Ask(p, next, n)
    <3>1. Ask(p, "insertMng", MngMaxId(page[p].bmt_id))
      BY <2>1 DEF FindMngSvrMaxId, Refused, Answer
    <3>2. MngMaxId(page[p].bmt_id) \in Nat
      BY <1>1, IdsAreNumbers DEF Inputs
    <3> QED BY <3>1, <3>2 DEF PC
  <2>2. ASSUME FindTgtSvrMaxId(p), ~Refused(p) PROVE \E next \in PC, n \in Nat : Ask(p, next, n)
    <3>1. Ask(p, "insertTgt", TgtMaxId(page[p].bms_id, page[p].bmt_id))
      BY <2>2 DEF FindTgtSvrMaxId, Refused, Answer
    <3>2. TgtMaxId(page[p].bms_id, page[p].bmt_id) \in Nat
      BY <1>1, IdsAreNumbers DEF Inputs
    <3> QED BY <3>1, <3>2 DEF PC
  <2>3. ASSUME BeginDelete(p) PROVE \E next \in PC, n \in Nat : Ask(p, next, n)
    <3>1. Ask(p, "deleteMng", Cardinality(Under(page[p].bms_id))) \/ Ask(p, "deleteTgt", 1)
      BY <2>3 DEF BeginDelete
    <3>2. Cardinality(Under(page[p].bms_id)) \in Nat
      <4>1. Under(page[p].bms_id) \in SUBSET BAKTGTSVRTB
        BY DEF Under
      <4>2. IsFiniteSet(Under(page[p].bms_id))
        BY <4>1, FS_Subset DEF Finite
      <4> QED BY <4>2, FS_CardinalityType
    <3> QED BY <3>1, <3>2 DEF PC
  <2> QED BY <2>1, <2>2, <2>3
<1> QED BY <1>2, <1>3, TypedClick, TypedRefused, TypedAsk, TypedInsertMng, TypedInsertTgt,
           TypedDeleteMng, TypedDeleteTgt DEF Save, Delete

LEMMA TypedHost ==
    ASSUME Typed, \/ InsertSvr
                  \/ \E h \in InUse : DeleteSvrInfo(h) \/ DeleteSvr(h)
                  \/ \E t \in BAKTGTSVRTB : StartWork(t)
                  \/ \E w \in work : EndWork(w)
    PROVE  Typed'
<1>1. CASE InsertSvr
  <2>1. /\ MNGSVRTB \in Seq(BOOLEAN) /\ Len(MNGSVRTB) \in Nat /\ Len(MNGSVRTB) < Hosts
        /\ MNGSVRTB' = Append(MNGSVRTB, TRUE)
    BY <1>1 DEF InsertSvr, Typed
  <2>2. MNGSVRTB' \in Seq(BOOLEAN) /\ Len(MNGSVRTB') <= Hosts
    BY <2>1, Numbers
  <2> QED BY <1>1, <2>2 DEF InsertSvr, Typed, restVars, webVars, hostVars
<1>2. ASSUME NEW h \in InUse, DeleteSvrInfo(h) PROVE Typed'
  BY <1>2, InUseIsHost DEF DeleteSvrInfo, Typed, restVars, webVars, hostVars
<1>3. ASSUME NEW h \in InUse, DeleteSvr(h) PROVE Typed'
  <2>1. h \in DOMAIN MNGSVRTB /\ MNGSVRTB' = [MNGSVRTB EXCEPT ![h] = FALSE]
    BY <1>3 DEF DeleteSvr, InUse
  <2>2. MNGSVRTB' \in Seq(BOOLEAN) /\ Len(MNGSVRTB') = Len(MNGSVRTB)
    BY <2>1 DEF Typed
  <2> QED BY <1>3, <2>2 DEF DeleteSvr, Typed, restVars, webVars, hostVars
<1>4. ASSUME NEW t \in BAKTGTSVRTB, StartWork(t) PROVE Typed'
  <2>1. t.pid \in Nat /\ t.id \in Nat /\ t.by \in Nat /\ t.nam \in Name \cup {NoName}
    BY DEF Typed, Target
  <2>2. [bms_id |-> t.pid, bts_id |-> t.id, by |-> t.by] \in Info
    BY <2>1 DEF Info
  <2>3. PICK s \in BAKMNGSVRTB :
          dirs' = dirs \cup {[host |-> Lead(t.pid), bms |-> s.nam, bts |-> t.nam, by |-> t.by]}
    BY <1>4 DEF StartWork, At
  <2>4. [host |-> Lead(t.pid), bms |-> s.nam, bts |-> t.nam, by |-> t.by] \in Dir
    <3>1. Lead(t.pid) \in Nat
      BY <1>4, InUseIsHost, Numbers DEF StartWork
    <3> QED BY <2>1, <3>1 DEF Dir, Typed, Server
  <2> QED BY <1>4, <2>2, <2>3, <2>4 DEF StartWork, Typed, restVars, webVars
<1>5. ASSUME NEW w \in work, EndWork(w) PROVE Typed'
  BY <1>5 DEF EndWork, Typed, restVars, webVars
<1> QED BY <1>1, <1>2, <1>3, <1>4, <1>5

-----------------------------------------------------------------------------
\* Where no server and no instance comes or goes, only the license check can matter.
LEMMA RegKept ==
    ASSUME RegInv, Typed', UNCHANGED <<BAKMNGSVRTB, BAKTGTSVRTB>>,
           history'.late = history.late, history'.unchecked = history.unchecked,
           history'.checked # {} => history.checked # {} \/ LicenseLeft
    PROVE  RegInv'
<1>1. Finite'
  BY DEF RegInv, Finite
<1>2. Licensed'
  <2>1. Cardinality(BAKTGTSVRTB) \in Nat
    BY FS_CardinalityType DEF RegInv, Finite
  <2> QED BY <2>1, Numbers DEF RegInv, Licensed, LicenseIsKept, LicenseLeft
<1>3. InstanceHasItsServer'
  BY DEF RegInv, InstanceHasItsServer, At
<1> QED BY <1>1, <1>2, <1>3 DEF RegInv

\* Fewer instances are within the license, too.
LEMMA FewerLicensed ==
    ASSUME RegInv, BAKTGTSVRTB' \subseteq BAKTGTSVRTB,
           history'.unchecked = history.unchecked, history'.checked = history.checked
    PROVE  Licensed' /\ IsFiniteSet(BAKTGTSVRTB')
<1>1. BAKTGTSVRTB' \in SUBSET BAKTGTSVRTB /\ IsFiniteSet(BAKTGTSVRTB)
  BY DEF RegInv, Finite
<1>2. IsFiniteSet(BAKTGTSVRTB') /\ Cardinality(BAKTGTSVRTB') <= Cardinality(BAKTGTSVRTB)
  BY <1>1, FS_Subset
<1>3. Cardinality(BAKTGTSVRTB) \in Nat /\ Cardinality(BAKTGTSVRTB') \in Nat
  BY <1>1, <1>2, FS_CardinalityType
<1> QED BY <1>2, <1>3, Numbers DEF RegInv, Licensed, LicenseIsKept

LEMMA RegInsertMng ==
    ASSUME RegInv, Typed', NEW p \in Page, InsertMngSvr(p), ~Refused(p)
    PROVE  RegInv'
<1>1. PICK s : /\ BAKMNGSVRTB' = BAKMNGSVRTB \cup {s} /\ s.id = got[p]
               /\ history' = [history EXCEPT !.raced = Race(p)] /\ BAKTGTSVRTB' = BAKTGTSVRTB
  BY DEF InsertMngSvr, Refused, Answer
<1>2. got[p] \in Nat /\ history \in History
  BY DEF RegInv, Typed
<1>3. history'.late = history.late /\ history'.unchecked = history.unchecked /\ history'.checked = history.checked
  BY <1>1, <1>2 DEF History
<1>4. \E n \in Nat : \A r \in BAKMNGSVRTB' : r.id <= n
  <2>1. PICK n \in Nat : \A r \in BAKMNGSVRTB : r.id <= n
    BY DEF RegInv, Finite
  <2>2. n + got[p] \in Nat /\ \A r \in BAKMNGSVRTB' : r.id <= n + got[p]
    BY <1>1, <1>2, <2>1 DEF RegInv, Typed, Server
  <2> QED BY <2>2
<1>5. Licensed'
  BY <1>1, <1>3, FewerLicensed
<1>6. InstanceHasItsServer'
  BY <1>1, <1>3 DEF RegInv, InstanceHasItsServer, At
<1>7. \E n \in Nat : \A r \in BAKTGTSVRTB' : r.id <= n
  BY <1>1 DEF RegInv, Finite
<1>8. IsFiniteSet(BAKTGTSVRTB')
  BY <1>1 DEF RegInv, Finite
<1> QED BY <1>4, <1>5, <1>6, <1>7, <1>8 DEF RegInv, Finite

LEMMA RegInsertTgt ==
    ASSUME RegInv, Typed', NEW p \in Page, InsertTgtSvr(p), ~Refused(p)
    PROVE  RegInv'
<1> DEFINE b == page[p].bms_id
           late == IF \E s \in At(BAKMNGSVRTB, b) : s.by = page[p].shown THEN {} ELSE {regs + 1}
<1>1. PICK t : /\ BAKTGTSVRTB' = BAKTGTSVRTB \cup {t}
               /\ t.id = got[p] /\ t.pid = b /\ t.by = regs + 1 /\ t.of = page[p].shown
               /\ history' = [history EXCEPT !.raced = Race(p), !.checked = {},
                                !.unchecked = @ \/ p \notin history.checked, !.late = @ \cup late]
               /\ BAKMNGSVRTB' = BAKMNGSVRTB
  BY DEF InsertTgtSvr, Refused, Answer
<1>2. got[p] \in Nat /\ history \in History
  BY DEF RegInv, Typed
<1>3. /\ history'.checked = {}
      /\ history'.unchecked = (history.unchecked \/ p \notin history.checked)
      /\ history'.late = history.late \cup late
  <2> HIDE DEF late
  <2> QED BY <1>1, <1>2 DEF History
<1>4. \E n \in Nat : \A r \in BAKTGTSVRTB' : r.id <= n
  <2>1. PICK n \in Nat : \A r \in BAKTGTSVRTB : r.id <= n
    BY DEF RegInv, Finite
  <2>2. n + got[p] \in Nat /\ \A r \in BAKTGTSVRTB' : r.id <= n + got[p]
    BY <1>1, <1>2, <2>1 DEF RegInv, Typed, Target
  <2> QED BY <2>2
<1>5. IsFiniteSet(BAKTGTSVRTB') /\ Licensed'
  <2>1. IsFiniteSet(BAKTGTSVRTB)
    BY DEF RegInv, Finite
  <2>2. /\ IsFiniteSet(BAKTGTSVRTB')
        /\ Cardinality(BAKTGTSVRTB') \in {Cardinality(BAKTGTSVRTB), Cardinality(BAKTGTSVRTB) + 1}
    BY <1>1, <2>1, FS_AddElement
  <2>3. Cardinality(BAKTGTSVRTB) \in Nat
    BY <2>1, FS_CardinalityType
  <2>4. CASE p \in history.checked
    <3>1. Cardinality(BAKTGTSVRTB) < License
      BY <2>4 DEF RegInv, Licensed
    <3>2. Cardinality(BAKTGTSVRTB') <= License
      BY <2>2, <2>3, <3>1, Numbers
    <3> QED BY <1>3, <2>2, <3>2 DEF Licensed, LicenseIsKept
  <2>5. CASE p \notin history.checked
    BY <1>3, <2>2, <2>5 DEF Licensed, LicenseIsKept
  <2> QED BY <2>4, <2>5
<1>6. InstanceHasItsServer'
  <2>1. ASSUME NEW x \in BAKTGTSVRTB
        PROVE  x.by \in history'.late \/ \E s \in At(BAKMNGSVRTB', x.pid) : s.by = x.of
    BY <1>1, <1>3 DEF RegInv, InstanceHasItsServer, At
  <2>2. t.by \in history'.late \/ \E s \in At(BAKMNGSVRTB', t.pid) : s.by = t.of
    BY <1>1, <1>3
  <2> QED BY <1>1, <2>1, <2>2 DEF InstanceHasItsServer, At
<1>7. \E n \in Nat : \A r \in BAKMNGSVRTB' : r.id <= n
  BY <1>1 DEF RegInv, Finite
<1> QED BY <1>4, <1>5, <1>6, <1>7 DEF RegInv, Finite

LEMMA RegDeleteMng ==
    ASSUME RegInv, Typed', NEW p \in Page, DeleteMngSvr(p), ~Refused(p)
    PROVE  RegInv'
<1> DEFINE b == page[p].bms_id
<1>1. /\ BAKMNGSVRTB' = BAKMNGSVRTB \ At(BAKMNGSVRTB, b)
      /\ \/ /\ BAKTGTSVRTB' = BAKTGTSVRTB
            /\ history' = [history EXCEPT !.late = @ \cup Bys(Under(b))]
         \/ BAKTGTSVRTB' = BAKTGTSVRTB \ Under(b) /\ history' = Leave(Under(b))
  BY DEF DeleteMngSvr, Refused, Answer, InstancesOf
<1>2. /\ history'.checked = history.checked /\ history'.unchecked = history.unchecked
      /\ \/ BAKTGTSVRTB' = BAKTGTSVRTB /\ history'.late = history.late \cup Bys(Under(b))
         \/ BAKTGTSVRTB' = BAKTGTSVRTB \ Under(b) /\ history'.late = history.late
  <2>1. history \in History
    BY DEF RegInv, Typed
  <2>2. CASE history' = [history EXCEPT !.late = @ \cup Bys(Under(b))] /\ BAKTGTSVRTB' = BAKTGTSVRTB
    BY <2>1, <2>2 DEF History
  <2>3. CASE BAKTGTSVRTB' = BAKTGTSVRTB \ Under(b) /\ history' = Leave(Under(b))
    BY <2>3, Leaving DEF RegInv
  <2> QED BY <1>1, <2>2, <2>3
<1>3. Licensed' /\ IsFiniteSet(BAKTGTSVRTB')
  BY <1>2, FewerLicensed
<1>4. InstanceHasItsServer'
  <2> SUFFICES ASSUME NEW t \in BAKTGTSVRTB', t.by \notin history'.late
               PROVE  \E s \in At(BAKMNGSVRTB', t.pid) : s.by = t.of
    BY DEF InstanceHasItsServer, At
  <2>1. t \in BAKTGTSVRTB /\ t.by \notin history.late /\ t \notin Under(b)
    BY <1>2 DEF Bys
  <2>2. PICK s \in At(BAKMNGSVRTB, t.pid) : s.by = t.of
    BY <2>1 DEF RegInv, InstanceHasItsServer
  <2>3. t.pid # b
    BY <2>1 DEF Under
  <2>4. s \in At(BAKMNGSVRTB', t.pid)
    BY <1>1, <2>2, <2>3 DEF At
  <2> QED BY <2>2, <2>4
<1>5. Finite'
  BY <1>1, <1>3 DEF RegInv, Finite
<1> QED BY <1>3, <1>4, <1>5 DEF RegInv

LEMMA RegDeleteTgt ==
    ASSUME RegInv, Typed', NEW p \in Page, DeleteTgtSvr(p), ~Refused(p)
    PROVE  RegInv'
<1> DEFINE T == At(BAKTGTSVRTB, page[p].bts_id)
<1>1. BAKTGTSVRTB' = BAKTGTSVRTB \ T /\ BAKMNGSVRTB' = BAKMNGSVRTB /\ history' = Leave(T)
  BY DEF DeleteTgtSvr, Refused, Answer
<1>2. history'.checked = history.checked /\ history'.unchecked = history.unchecked /\ history'.late = history.late
  BY <1>1, Leaving DEF RegInv
<1>3. Licensed' /\ IsFiniteSet(BAKTGTSVRTB')
  BY <1>1, <1>2, FewerLicensed
<1>4. InstanceHasItsServer'
  BY <1>1, <1>2 DEF RegInv, InstanceHasItsServer, At
<1>5. Finite'
  BY <1>1, <1>3 DEF RegInv, Finite
<1> QED BY <1>3, <1>4, <1>5 DEF RegInv

\* A request that changes no row.
LEMMA Requests ==
    ASSUME Typed, NEW p \in Page, Click(p) \/ Save(p) \/ Delete(p)
    PROVE  \/ Click(p) \/ Refused(p)
           \/ page[p].bmt_id # 0 /\ Ask(p, "insertMng", MngMaxId(page[p].bmt_id))
           \/ /\ page[p].bms_id # 0 /\ page[p].bmt_id # 0
              /\ Ask(p, "insertTgt", TgtMaxId(page[p].bms_id, page[p].bmt_id))
           \/ Ask(p, "deleteMng", Cardinality(Under(page[p].bms_id)))
           \/ page[p].view = "target" /\ Ask(p, "deleteTgt", 1)
           \/ InsertMngSvr(p) \/ InsertTgtSvr(p) \/ DeleteMngSvr(p) \/ DeleteTgtSvr(p)
<1>1. UpdateMngSvr(p) \/ UpdateTgtSvr(p) \/ DeleteNothing(p) => Refused(p)
  BY DEF UpdateMngSvr, UpdateTgtSvr, DeleteNothing, Refused, Answer
<1>2. FindMngSvrMaxId(p) =>
        \/ Refused(p)
        \/ page[p].bmt_id # 0 /\ Ask(p, "insertMng", MngMaxId(page[p].bmt_id))
  BY DEF FindMngSvrMaxId, Refused, Answer
<1>3. FindTgtSvrMaxId(p) =>
        \/ Refused(p)
        \/ /\ page[p].bms_id # 0 /\ page[p].bmt_id # 0
           /\ Ask(p, "insertTgt", TgtMaxId(page[p].bms_id, page[p].bmt_id))
  BY DEF FindTgtSvrMaxId, Refused, Answer
<1>4. BeginDelete(p) => \/ Ask(p, "deleteMng", Cardinality(Under(page[p].bms_id)))
                        \/ page[p].view = "target" /\ Ask(p, "deleteTgt", 1)
  BY DEF BeginDelete
<1> QED BY <1>1, <1>2, <1>3, <1>4 DEF Save, Delete

LEMMA RegPage ==
    ASSUME RegInv, Typed', NEW p \in Page, Click(p) \/ Save(p) \/ Delete(p)
    PROVE  RegInv'
<1>0. history \in History /\ Typed
  BY DEF RegInv, Typed
<1>1. CASE Click(p)
  <2>1. PICK new \in Inputs :
              /\ Clicked(p, new)
              /\ history'.checked \in {history.checked \ {p}, history.checked \cup {p}}
              /\ p \in history'.checked => LicenseLeft
    BY <1>0, <1>1, Clicks
  <2>2. history'.late = history.late /\ history'.unchecked = history.unchecked
    BY <1>0, <2>1 DEF Clicked, History
  <2>3. UNCHANGED <<BAKMNGSVRTB, BAKTGTSVRTB>>
    BY <2>1 DEF Clicked, dbVars
  <2> QED BY <2>1, <2>2, <2>3, RegKept
<1>2. CASE Refused(p)
  <2>1. UNCHANGED <<BAKMNGSVRTB, BAKTGTSVRTB, history>>
    BY <1>2 DEF Refused, ReplyOnly, dbVars
  <2> QED BY <2>1, RegKept
<1>3. ASSUME NEW next, NEW n, Ask(p, next, n) PROVE RegInv'
  <2>1. UNCHANGED <<BAKMNGSVRTB, BAKTGTSVRTB>> /\ history' = [history EXCEPT !.raced = @ \ {p}]
    BY <1>3 DEF Ask, dbVars
  <2>2. /\ history'.late = history.late /\ history'.unchecked = history.unchecked
        /\ history'.checked = history.checked
    BY <1>0, <2>1 DEF History
  <2> QED BY <2>1, <2>2, RegKept
<1> QED BY <1>0, <1>1, <1>2, <1>3, Requests, RegInsertMng, RegInsertTgt, RegDeleteMng, RegDeleteTgt

LEMMA RegNext ==
    ASSUME RegInv, [Next]_vars
    PROVE  RegInv'
<1>1. CASE \E p \in Page : Click(p) \/ Save(p) \/ Delete(p)
  BY <1>1, TypedPage, RegPage DEF RegInv
<1>2. CASE \/ InsertSvr
           \/ \E h \in InUse : DeleteSvrInfo(h) \/ DeleteSvr(h)
           \/ \E t \in BAKTGTSVRTB : StartWork(t)
           \/ \E w \in work : EndWork(w)
  <2>1. Typed'
    BY <1>2, TypedHost DEF RegInv
  <2>2. UNCHANGED <<BAKMNGSVRTB, BAKTGTSVRTB, history>>
    BY <1>2 DEF InsertSvr, DeleteSvrInfo, DeleteSvr, StartWork, EndWork, restVars
  <2> QED BY <2>1, <2>2, RegKept
<1>3. CASE UNCHANGED vars
  <2>1. Typed'
    BY <1>3 DEF RegInv, Typed, vars, dbVars, hostVars, webVars
  <2> QED BY <1>3, <2>1, RegKept DEF vars, dbVars
<1> QED BY <1>1, <1>2, <1>3 DEF Next

LEMMA RegInit == Init => RegInv
<1> SUFFICES ASSUME Init PROVE RegInv
  OBVIOUS
<1>1. Blank \in Inputs
  BY DEF Blank, Inputs
<1>2. page \in [Page -> Inputs] /\ history \in History /\ pc \in [Page -> PC] /\ answer \in [Page -> Answer]
  BY <1>1 DEF Init, History, PC, Answer
<1>3. MNGSVRTB \in Seq(BOOLEAN) /\ Len(MNGSVRTB) = 0 /\ got \in [Page -> Nat]
  BY DEF Init
<1>4. Typed
  BY <1>2, <1>3, Numbers DEF Init, Typed
<1>5. Finite /\ Cardinality(BAKTGTSVRTB) = 0
  BY FS_EmptySet DEF Init, Finite
<1>6. Licensed
  BY <1>5, Numbers DEF Init, Licensed, LicenseIsKept
<1> QED BY <1>4, <1>5, <1>6 DEF Init, RegInv, InstanceHasItsServer

LEMMA RegAlways == Spec => []RegInv
BY RegInit, RegNext, PTL DEF Spec

\* For any number of windows, servers and instances: every variable of the registry
\* has the type that the queries and the forms give it.
THEOREM TypeCorrect == Spec => []TypeOK
<1>1. RegInv => TypeOK
  <2> SUFFICES ASSUME Typed PROVE TypeOK
    BY DEF RegInv
  <2>1. \A p \in Page : page[p] \in Inputs
    BY DEF Typed
  <2>2. \A p \in Page : \A n \in page[p].tree : n \in Node
    BY <2>1 DEF Inputs
  <2>3. ASSUME NEW in \in Inputs PROVE [in EXCEPT !.tree = {}] \in Inputs
    BY DEF Inputs
  <2> QED BY <2>1, <2>2, <2>3 DEF Typed, TypeOK
<1> QED BY <1>1, RegAlways, PTL

\* For any number of windows and any interleaving of theirs: an instance is never under
\* a server that only got the id of the one it was meant for, unless that server was
\* going or gone when it was registered (insertTgtSvr, deleteMngSvr).
THEOREM InstancesKeepServers == Spec => []InstanceHasItsServer
<1>1. RegInv => InstanceHasItsServer
  BY DEF RegInv
<1> QED BY <1>1, RegAlways, PTL

\* For any license: it is only exceeded through a form that was opened without the
\* check, or that another registration has overtaken (lcnInfo, fn_bts_add).
THEOREM LicenseHolds == Spec => []LicenseIsKept
<1>1. RegInv => LicenseIsKept
  BY DEF RegInv, Licensed
<1> QED BY <1>1, RegAlways, PTL

-----------------------------------------------------------------------------
\* Few hosts and registrations: the digits of an id do not run into each other.
LEMMA Room ==
    ASSUME Few, Typed
    PROVE  /\ Hosts * Span \in Nat /\ regs \in Nat /\ Hosts < Span
           /\ Hosts * Span + regs <= Slot
<1>1. Hosts \in Nat /\ Radix \in Nat /\ Span \in Nat /\ Hosts + 1 <= Radix /\ regs \in Nat /\ regs <= Span
  BY Numbers DEF Few, Typed
<1>2. (Hosts + 1) * Span <= Radix * Span
  BY <1>1
<1>3. (Hosts + 1) * Span = Hosts * Span + Span
  BY <1>1
<1>4. Hosts * Span \in Nat /\ Radix * Span \in Nat
  BY <1>1
<1> QED BY <1>1, <1>2, <1>3, <1>4, Numbers DEF Few, Slot

LEMMA OneParent ==
    ASSUME Few, Typed, NEW n \in Nat, NEW b \in Nat, NEW c \in Nat, Within(n, b), Within(n, c)
    PROVE  b = c
<1>1. ASSUME NEW x \in Nat, NEW y \in Nat, x < y PROVE x * Slot + Slot <= y * Slot
  BY <1>1, Numbers
<1>2. b * Slot \in Nat /\ c * Slot \in Nat /\ Slot \in Nat
  BY Numbers
<1>3. ASSUME NEW x \in Nat, NEW y \in Nat, x < y, Within(n, x), Within(n, y) PROVE FALSE
  <2>1. x * Slot + Slot <= y * Slot /\ x * Slot \in Nat /\ y * Slot \in Nat
    BY <1>1, <1>2, <1>3, Numbers
  <2>2. n < x * Slot + Hosts * Span + regs /\ y * Slot <= n
    BY <1>3 DEF Within
  <2> QED BY <2>1, <2>2, Room, Numbers
<1> QED BY <1>3

LEMMA RestOf ==
    ASSUME NEW b \in Nat, NEW m \in Nat, NEW r \in Nat, r < m
    PROVE  (b * m + r) % m = r
OBVIOUS

LEMMA RightIs ==
    ASSUME Few, Typed, NEW n \in Nat, NEW b \in Nat, Within(n, b)
    PROVE  Right(n) \in Nat /\ n = b * Slot + Right(n) /\ Right(n) < Hosts * Span + regs
<1> DEFINE r == n - b * Slot
<1>1. b * Slot \in Nat /\ Slot \in Nat
  BY Numbers
<1>2. r \in Nat /\ r < Hosts * Span + regs /\ r < Slot /\ n = b * Slot + r
  BY <1>1, Room DEF Within
<1> HIDE DEF r
<1>3. (b * Slot + r) % Slot = r
  BY <1>1, <1>2, RestOf
<1> QED BY <1>2, <1>3 DEF Right

\* A target server and an instance never have one id.
LEMMA ServerIdIs ==
    ASSUME Few, Typed, Digits, NEW s \in BAKMNGSVRTB
    PROVE  Span <= s.id /\ s.id < Slot /\ s.pid < Span
<1>1. s.id \in Nat /\ s.pid \in Nat /\ 1 <= s.pid /\ s.pid <= Hosts /\ s.pid * Span <= s.id /\ s.id < s.pid * Span + regs
  BY DEF Typed, Server, Digits
<1>2. Span <= s.pid * Span /\ s.pid * Span <= Hosts * Span /\ s.pid * Span \in Nat
  BY <1>1, Numbers
<1> QED BY <1>1, <1>2, Room, Numbers

LEMMA WithinIs ==
    ASSUME Typed, NEW n \in Nat, NEW b \in Nat, Within(n, b)
    PROVE  Slot <= n /\ b # 0
<1>1. b # 0
  BY Numbers DEF Within
<1>2. Slot <= b * Slot /\ b * Slot \in Nat
  BY <1>1, Numbers
<1> QED BY <1>1, <1>2, Numbers DEF Within

LEMMA InstanceIdIs ==
    ASSUME Few, Typed, Digits, NEW t \in BAKTGTSVRTB
    PROVE  Within(t.id, t.pid) /\ Slot <= t.id
<1>1. t.id \in Nat /\ t.pid \in Nat /\ Within(t.id, t.pid)
  BY DEF Typed, Target, Digits
<1> QED BY <1>1, WithinIs

\* There are never fewer registrations than there were.
LEMMA WithinGrows ==
    ASSUME Few, Typed, regs' \in Nat, regs <= regs', NEW n \in Nat, NEW b \in Nat, Within(n, b)
    PROVE  Within(n, b)'
<1>1. b * Slot \in Nat
  BY Numbers
<1> QED BY <1>1, Room DEF Within

LEMMA FitsGrows ==
    ASSUME Few, Typed, regs' \in Nat, regs <= regs', NEW in \in Inputs, NEW request, NEW id \in Nat,
           FormFits(in, request, id)
    PROVE  FormFits(in, request, id)'
<1>1. in.bms_id \in Nat /\ in.bmt_id \in Nat /\ in.bts_id \in Nat
  BY DEF Inputs
<1>2. in.bms_id * Slot \in Nat /\ in.bmt_id * Span \in Nat
  BY <1>1, Numbers
<1>3. FormIsOf(in)'
  <2>1. in.view = "target" /\ in.bts_id # 0 => Within(in.bts_id, in.bms_id)'
    BY <1>1, WithinGrows DEF FormFits, FormIsOf
  <2> QED BY <2>1 DEF FormFits, FormIsOf
<1>4. request = "insertMng" => id <= in.bmt_id * Span + regs'
  BY <1>2, Room DEF FormFits
<1>5. request = "insertTgt" => id <= in.bms_id * Slot + Hosts * Span + regs'
  BY <1>2, Room DEF FormFits
<1> QED BY <1>3, <1>4, <1>5 DEF FormFits

\* One page acts, the others keep what they have.
LEMMA FormsStep ==
    ASSUME Few, Typed, Typed', Forms, NEW p \in Page, regs <= regs',
           \A q \in Page \ {p} : page'[q] = page[q] /\ pc'[q] = pc[q] /\ got'[q] = got[q],
           FormFits(page[p], pc[p], got[p])'
    PROVE  Forms'
<1>1. regs' \in Nat
  BY Numbers DEF Typed
<1>2. ASSUME NEW q \in Page, q # p PROVE FormFits(page[q], pc[q], got[q])'
  <2>1. page[q] \in Inputs /\ got[q] \in Nat /\ FormFits(page[q], pc[q], got[q])
    BY DEF Typed, Forms
  <2>2. PICK in, c, g : in = page[q] /\ c = pc[q] /\ g = got[q]
    OBVIOUS
  <2>3. in \in Inputs /\ g \in Nat /\ FormFits(in, c, g)
    BY <2>1, <2>2
  <2>4. FormFits(in, c, g)'
    BY <1>1, <2>3, FitsGrows
  <2>5. in = page'[q] /\ c = pc'[q] /\ g = got'[q]
    BY <1>2, <2>2
  <2> QED BY <2>4, <2>5 DEF FormFits, FormIsOf, Within
<1> QED BY <1>2 DEF Forms

-----------------------------------------------------------------------------
\* A click shows a row that is there, or keeps what the form held.
LEMMA ClickFits ==
    ASSUME Few, Typed, Digits, NEW p \in Page, FormIsOf(page[p]), Click(p)
    PROVE  FormIsOf(page'[p])
<1> DEFINE P == page[p]
<1>0. P \in Inputs /\ page \in [Page -> Inputs]
  BY DEF Typed
<1>1. ASSUME NEW new, Show(p, new) PROVE page'[p] = new
  BY <1>0, <1>1 DEF Show
<1>2. CASE Load(p)
  <2>1. page'[p] = [Blank EXCEPT !.tree = BAKMNGTRETB]
    BY <1>1, <1>2 DEF Load
  <2>2. page'[p].bms_id = 0 /\ page'[p].bmt_id = 0 /\ page'[p].bms_pid = 0 /\ page'[p].view = "list"
    BY <2>1 DEF Blank
  <2> QED BY <2>2, Numbers DEF FormIsOf
<1>3. CASE ClickHost(p)
  <2>1. PICK h \in InUse : page'[p] = [P EXCEPT !.view = "list", !.name = NoName, !.bms_pid = h]
    BY <1>1, <1>3 DEF ClickHost
  <2>2. page'[p].bms_id = P.bms_id /\ page'[p].bmt_id = P.bmt_id /\ page'[p].bms_pid = h /\ page'[p].view = "list"
    BY <1>0, <2>1 DEF Inputs
  <2>3. h <= Hosts
    BY InUseIsHost, Numbers
  <2> QED BY <2>2, <2>3 DEF FormIsOf
<1>4. CASE ClickServer(p)
  <2>1. PICK n \in P.tree :
           LET in == [P EXCEPT !.view = "server", !.name = n.nam]
               S  == {s \in At(BAKMNGSVRTB, n.id) : s.pid = n.pid}
           IN \/ Show(p, ClearServer(in))
              \/ \E s \in S : Show(p, [in EXCEPT !.bms_id = s.id, !.bms_pid = s.pid, !.bms_nam = s.nam, !.shown = s.by])
    BY <1>4 DEF ClickServer
  <2> DEFINE in == [P EXCEPT !.view = "server", !.name = n.nam]
  <2>2. n \in Node
    BY <1>0 DEF Inputs
  <2>3. in \in Inputs /\ in.view = "server" /\ in.bms_id = P.bms_id /\ in.bmt_id = P.bmt_id
    BY <1>0, <2>2 DEF Inputs, Node
  <2> HIDE DEF in
  <2>4. \/ page'[p] = ClearServer(in)
        \/ \E s \in BAKMNGSVRTB : page'[p] = [in EXCEPT !.bms_id = s.id, !.bms_pid = s.pid, !.bms_nam = s.nam, !.shown = s.by]
    BY <1>1, <2>1 DEF At, in
  <2>5. CASE page'[p] = ClearServer(in)
    <3>1. page'[p].bms_id = 0 /\ page'[p].bmt_id = P.bmt_id /\ page'[p].bms_pid = 0 /\ page'[p].view = "server"
      BY <2>3, <2>5 DEF ClearServer, Inputs
    <3> QED BY <3>1, Numbers DEF FormIsOf
  <2>6. ASSUME NEW s \in BAKMNGSVRTB,
               page'[p] = [in EXCEPT !.bms_id = s.id, !.bms_pid = s.pid, !.bms_nam = s.nam, !.shown = s.by]
        PROVE  FormIsOf(page'[p])
    <3>1. page'[p].bms_id = s.id /\ page'[p].bmt_id = P.bmt_id /\ page'[p].bms_pid = s.pid /\ page'[p].view = "server"
      BY <2>3, <2>6 DEF Inputs
    <3>2. s.pid <= Hosts
      BY DEF Digits
    <3> QED BY <3>1, <3>2, ServerIdIs DEF FormIsOf
  <2> QED BY <2>4, <2>5, <2>6
<1>5. CASE ClickTarget(p)
  <2>1. PICK n \in P.tree :
           LET in == [P EXCEPT !.view = "target"]
               T  == {t \in At(BAKTGTSVRTB, n.id) : t.pid = n.pid}
               S  == At(BAKMNGSVRTB, n.pid)
           IN \/ Show(p, ClearTarget(in))
              \/ \E t \in T :
                Show(p, [in EXCEPT !.bts_id = t.id, !.bms_id = t.pid, !.bts_nam = t.nam,
                         !.bmt_id = IF Lead(t.id) \in InUse THEN Lead(t.id) ELSE @,
                         !.name = IF \E s \in S : s.pid = Lead(s.id) THEN (CHOOSE s \in S : TRUE).nam ELSE @,
                         !.shown = IF S = {} THEN 0 ELSE (CHOOSE s \in S : TRUE).by])
    BY <1>5 DEF ClickTarget
  <2> DEFINE in == [P EXCEPT !.view = "target"]
             S == At(BAKMNGSVRTB, n.pid)
             host(t) == IF Lead(t.id) \in InUse THEN Lead(t.id) ELSE in.bmt_id
             nam == IF \E s \in S : s.pid = Lead(s.id) THEN (CHOOSE s \in S : TRUE).nam ELSE in.name
             by == IF S = {} THEN 0 ELSE (CHOOSE s \in S : TRUE).by
             shows(t) == [in EXCEPT !.bts_id = t.id, !.bms_id = t.pid, !.bts_nam = t.nam,
                          !.bmt_id = host(t), !.name = nam, !.shown = by]
  <2>3. in \in Inputs /\ in.bms_id = P.bms_id /\ in.bmt_id = P.bmt_id /\ in.bms_pid = P.bms_pid /\ in.view = "target"
    BY <1>0 DEF Inputs
  <2>4. ASSUME NEW t \in BAKTGTSVRTB PROVE host(t) <= Hosts
    BY <2>3, InUseIsHost, Numbers DEF FormIsOf
  <2>5. \/ page'[p] = ClearTarget(in)
        \/ \E t \in BAKTGTSVRTB : page'[p] = shows(t)
    BY <1>1, <2>1 DEF At
  <2> HIDE DEF in, nam, by, host
  <2>6. CASE page'[p] = ClearTarget(in)
    <3>1. /\ page'[p].bms_id = P.bms_id /\ page'[p].bmt_id = P.bmt_id /\ page'[p].bms_pid = P.bms_pid
          /\ page'[p].bts_id = 0
      BY <2>3, <2>6 DEF ClearTarget, Inputs
    <3> QED BY <3>1 DEF FormIsOf
  <2>7. ASSUME NEW t \in BAKTGTSVRTB, page'[p] = shows(t) PROVE FormIsOf(page'[p])
    <3>1. /\ page'[p].bms_id = t.pid /\ page'[p].bmt_id = host(t) /\ page'[p].bms_pid = P.bms_pid
          /\ page'[p].bts_id = t.id
      BY <2>3, <2>7 DEF Inputs
    <3>2. Within(t.id, t.pid)
      BY DEF Digits
    <3>3. Span <= t.pid /\ t.pid < Slot
      BY <3>2 DEF Within
    <3> QED BY <3>1, <3>2, <3>3, <2>4 DEF FormIsOf
  <2> HIDE DEF shows
  <2> QED BY <2>5, <2>6, <2>7
<1>6. CASE AddServer(p)
  <2> DEFINE in == [P EXCEPT !.view = "server", !.bmt_id = P.bms_pid]
  <2>1. in \in Inputs /\ in.bmt_id = P.bms_pid /\ in.view = "server"
    BY <1>0 DEF Inputs
  <2>2. page'[p] = ClearServer(in)
    BY <1>1, <1>6 DEF AddServer
  <2> HIDE DEF in
  <2>3. page'[p].bms_id = 0 /\ page'[p].bmt_id = P.bms_pid /\ page'[p].bms_pid = 0 /\ page'[p].view = "server"
    BY <2>1, <2>2 DEF ClearServer, Inputs
  <2> QED BY <2>3, Numbers DEF FormIsOf
<1>7. CASE AddTarget(p)
  <2> DEFINE in == [P EXCEPT !.view = "target", !.bmt_id = P.bms_pid]
  <2>1. in \in Inputs /\ in.bmt_id = P.bms_pid /\ in.bms_pid = P.bms_pid /\ in.bms_id = P.bms_id
    BY <1>0 DEF Inputs
  <2>2. page'[p] = ClearTarget(in)
    BY <1>0, <1>7 DEF AddTarget
  <2> HIDE DEF in
  <2>3. /\ page'[p].bms_id = P.bms_id /\ page'[p].bmt_id = P.bms_pid /\ page'[p].bms_pid = P.bms_pid
        /\ page'[p].bts_id = 0
    BY <2>1, <2>2 DEF ClearTarget, Inputs
  <2> QED BY <2>3 DEF FormIsOf
<1> QED BY <1>2, <1>3, <1>4, <1>5, <1>6, <1>7 DEF Click

\* An answer shows the list again, or leaves the form.
LEMMA ReplyFits ==
    ASSUME Few, Typed, Typed', Forms, NEW p \in Page, NEW a \in Answer, Reply(p, a), regs <= regs'
    PROVE  Forms'
<1>1. page[p] \in Inputs /\ FormIsOf(page[p]) /\ regs' \in Nat
  BY Numbers DEF Typed, Forms, FormFits
<1>2. BAKMNGTRETB' \in SUBSET Node
  BY DEF Typed
<1>3. PICK in \in Inputs : in = page'[p]
  BY DEF Typed
<1>4. FormFits(in, "ready", 0)
  <2>1. in = page[p] \/ in = Loaded(p)
    BY <1>2, <1>3, Replies DEF Typed
  <2>2. FormIsOf(Loaded(p))
    BY <1>1, <1>2, Replies DEF FormIsOf
  <2> QED BY <1>1, <2>1, <2>2 DEF FormFits
<1>5. FormFits(in, "ready", 0)'
  BY <1>1, <1>3, <1>4, FitsGrows
<1>6. FormFits(page[p], pc[p], got[p])'
  <2>1. pc'[p] = "ready"
    BY DEF Reply, Typed
  <2> QED BY <1>3, <1>5, <2>1 DEF FormFits, FormIsOf, Within
<1>7. \A q \in Page \ {p} : page'[q] = page[q] /\ pc'[q] = pc[q] /\ got'[q] = got[q]
  BY <1>2, Replies DEF Reply, Typed
<1> QED BY <1>6, <1>7, FormsStep

\* The form does not change while a request is under way.
LEMMA AskFits ==
    ASSUME Few, Typed, Typed', Forms, NEW p \in Page, NEW next, NEW n \in Nat, Ask(p, next, n),
           FormFits(page[p], next, n)
    PROVE  Forms'
<1>1. page' = page /\ regs' = regs /\ pc'[p] = next /\ got'[p] = n
  BY DEF Ask, dbVars, Typed
<1>2. FormFits(page[p], pc[p], got[p])'
  BY <1>1 DEF FormFits, FormIsOf, Within
<1>3. \A q \in Page \ {p} : page'[q] = page[q] /\ pc'[q] = pc[q] /\ got'[q] = got[q]
  BY DEF Ask, Typed
<1> QED BY <1>1, <1>2, <1>3, FormsStep, Room

\* The id a registration asks for is in the range of its parent.
LEMMA MngIdFits ==
    ASSUME Few, RegInv, Digits, NEW h \in Nat
    PROVE  h * Span <= MngMaxId(h) /\ MngMaxId(h) <= h * Span + regs
<1>1. h * Span \in Nat /\ regs \in Nat
  BY Room, Numbers DEF RegInv
<1>2. ASSUME NEW s \in BAKMNGSVRTB, s.pid = h, MngMaxId(h) = s.id + 1
      PROVE  h * Span <= MngMaxId(h) /\ MngMaxId(h) <= h * Span + regs
  <2>1. h * Span <= s.id /\ s.id < h * Span + regs /\ s.id \in Nat
    BY <1>2 DEF Digits, RegInv, Typed, Server
  <2> QED BY <1>1, <1>2, <2>1
<1>3. CASE MngMaxId(h) = h * Span
  BY <1>1, <1>3
<1> QED BY <1>2, <1>3, MngMaxIdIs DEF RegInv

LEMMA TgtIdFits ==
    ASSUME Few, RegInv, Digits, NEW b \in Nat, NEW h \in Nat, h <= Hosts
    PROVE  b * Slot <= TgtMaxId(b, h) /\ TgtMaxId(b, h) <= b * Slot + Hosts * Span + regs
<1>1. b * Slot \in Nat /\ h * Span \in Nat /\ h * Span <= Hosts * Span /\ Hosts * Span \in Nat /\ regs \in Nat
  BY Room, Numbers DEF RegInv
<1>2. ASSUME NEW t \in Under(b), TgtMaxId(b, h) = b * Slot + (Right(t.id) + 1)
      PROVE  b * Slot <= TgtMaxId(b, h) /\ TgtMaxId(b, h) <= b * Slot + Hosts * Span + regs
  <2>1. t.id \in Nat /\ t.pid = b /\ Within(t.id, b)
    BY DEF Under, Digits, RegInv, Typed, Target
  <2>2. Right(t.id) \in Nat /\ Right(t.id) < Hosts * Span + regs
    BY <2>1, RightIs DEF RegInv
  <2> QED BY <1>1, <1>2, <2>2
<1>3. CASE TgtMaxId(b, h) = b * Slot + h * Span
  BY <1>1, <1>3
<1> QED BY <1>2, <1>3, TgtMaxIdIs DEF RegInv

-----------------------------------------------------------------------------
\* Where no row comes, the ids stay what they are.
LEMMA DigitsKept ==
    ASSUME Few, Typed, Digits, regs' = regs, BAKMNGSVRTB' \subseteq BAKMNGSVRTB,
           BAKTGTSVRTB' \subseteq BAKTGTSVRTB, info' \cup work' \subseteq info \cup work
    PROVE  Digits'
BY DEF Digits, Within

\* A request that changes no row changes nothing about the ids but in its own form.
LEMMA IdKept ==
    ASSUME Few, RegInv, IdInv, Forms', UNCHANGED <<BAKMNGSVRTB, BAKTGTSVRTB, BAKMNGTRETB, regs>>,
           info' \cup work' \subseteq info \cup work, history'.busy = history.busy
    PROVE  IdInv'
<1>1. Digits'
  BY DigitsKept DEF IdInv, RegInv
<1>2. Tree'
  BY DEF IdInv, Tree, Registered
<1>3. AllPresent'
  BY DEF IdInv, AllPresent, Present
<1> QED BY <1>1, <1>2, <1>3 DEF IdInv

LEMMA IdClick ==
    ASSUME Few, RegInv, RegInv', IdInv, NEW p \in Page, Click(p)
    PROVE  IdInv'
<1>1. PICK new \in Inputs :
              /\ Clicked(p, new)
              /\ history'.checked \in {history.checked \ {p}, history.checked \cup {p}}
  BY Clicks DEF RegInv
<1>2. /\ UNCHANGED <<BAKMNGSVRTB, BAKTGTSVRTB, BAKMNGTRETB, info, work, regs, pc, got>>
      /\ history'.busy = history.busy
  BY <1>1 DEF Clicked, dbVars, hostVars, RegInv, Typed, History
<1>3. Forms'
  <2>1. FormIsOf(page'[p])
    BY ClickFits DEF RegInv, IdInv, Forms, FormFits
  <2>2. pc[p] = "ready" /\ regs <= regs'
    BY <1>1, <1>2, Room DEF Clicked, RegInv
  <2>3. FormFits(page[p], pc[p], got[p])'
    BY <1>2, <2>1, <2>2 DEF FormFits, FormIsOf, Within
  <2>4. \A q \in Page \ {p} : page'[q] = page[q] /\ pc'[q] = pc[q] /\ got'[q] = got[q]
    BY <1>1, <1>2 DEF Clicked, RegInv, Typed
  <2> QED BY <2>2, <2>3, <2>4, FormsStep DEF RegInv, IdInv
<1> QED BY <1>2, <1>3, IdKept

LEMMA IdRefused ==
    ASSUME Few, RegInv, RegInv', IdInv, NEW p \in Page, Refused(p)
    PROVE  IdInv'
<1>1. PICK a \in Answer : ReplyOnly(p, a)
  BY DEF Refused
<1>2. UNCHANGED <<BAKMNGSVRTB, BAKTGTSVRTB, BAKMNGTRETB, info, work, regs, history>> /\ Reply(p, a)
  BY <1>1 DEF ReplyOnly, dbVars, hostVars
<1>3. Forms'
  <2>1. regs <= regs'
    BY <1>2, Room DEF RegInv
  <2> QED BY <1>2, <2>1, ReplyFits DEF RegInv, IdInv
<1> QED BY <1>2, <1>3, IdKept

LEMMA IdAsk ==
    ASSUME Few, RegInv, RegInv', IdInv, NEW p \in Page, NEW next, NEW n \in Nat, Ask(p, next, n),
           FormFits(page[p], next, n)
    PROVE  IdInv'
<1>1. /\ UNCHANGED <<BAKMNGSVRTB, BAKTGTSVRTB, BAKMNGTRETB, info, work, regs>>
      /\ history'.busy = history.busy
  BY DEF Ask, dbVars, hostVars, RegInv, Typed, History
<1>2. Forms'
  BY AskFits DEF RegInv, IdInv
<1> QED BY <1>1, <1>2, IdKept

\* Each question fits the form.
LEMMA IdAsks ==
    ASSUME Few, RegInv, RegInv', IdInv, NEW p \in Page,
           \/ page[p].bmt_id # 0 /\ Ask(p, "insertMng", MngMaxId(page[p].bmt_id))
           \/ /\ page[p].bms_id # 0 /\ page[p].bmt_id # 0
              /\ Ask(p, "insertTgt", TgtMaxId(page[p].bms_id, page[p].bmt_id))
           \/ Ask(p, "deleteMng", Cardinality(Under(page[p].bms_id)))
           \/ page[p].view = "target" /\ Ask(p, "deleteTgt", 1)
    PROVE  IdInv'
<1> DEFINE P == page[p]
<1>1. P \in Inputs /\ FormIsOf(P) /\ Digits
  BY DEF RegInv, Typed, IdInv, Forms, FormFits
<1>2. P.bms_id \in Nat /\ P.bmt_id \in Nat /\ P.bmt_id <= Hosts
  BY <1>1 DEF Inputs, FormIsOf
<1>3. CASE P.bmt_id # 0 /\ Ask(p, "insertMng", MngMaxId(P.bmt_id))
  <2>1. MngMaxId(P.bmt_id) \in Nat
    BY <1>2, IdsAreNumbers DEF RegInv
  <2>2. FormFits(P, "insertMng", MngMaxId(P.bmt_id))
    BY <1>1, <1>2, <1>3, MngIdFits DEF FormFits
  <2> QED BY <1>3, <2>1, <2>2, IdAsk
<1>4. CASE /\ P.bms_id # 0 /\ P.bmt_id # 0
           /\ Ask(p, "insertTgt", TgtMaxId(P.bms_id, P.bmt_id))
  <2>1. TgtMaxId(P.bms_id, P.bmt_id) \in Nat
    BY <1>2, IdsAreNumbers DEF RegInv
  <2>2. FormFits(P, "insertTgt", TgtMaxId(P.bms_id, P.bmt_id))
    BY <1>1, <1>2, <1>4, TgtIdFits DEF FormFits
  <2> QED BY <1>4, <2>1, <2>2, IdAsk
<1>5. CASE Ask(p, "deleteMng", Cardinality(Under(P.bms_id)))
  <2>1. Cardinality(Under(P.bms_id)) \in Nat
    <3>1. IsFiniteSet(Under(P.bms_id))
      <4>1. Under(P.bms_id) \in SUBSET BAKTGTSVRTB
        BY DEF Under
      <4> QED BY <4>1, FS_Subset DEF RegInv, Finite
    <3> QED BY <3>1, FS_CardinalityType
  <2>2. FormFits(P, "deleteMng", Cardinality(Under(P.bms_id)))
    BY <1>1 DEF FormFits
  <2> QED BY <1>5, <2>1, <2>2, IdAsk
<1>6. CASE P.view = "target" /\ Ask(p, "deleteTgt", 1)
  <2>1. FormFits(P, "deleteTgt", 1)
    BY <1>1, <1>6 DEF FormFits
  <2> QED BY <1>6, <2>1, IdAsk
<1> QED BY <1>3, <1>4, <1>5, <1>6

LEMMA IdInsertMng ==
    ASSUME Few, RegInv, RegInv', IdInv, NEW p \in Page, InsertMngSvr(p), ~Refused(p)
    PROVE  IdInv'
<1> DEFINE h == page[p].bmt_id
<1>1. PICK s, n : /\ BAKMNGSVRTB' = BAKMNGSVRTB \cup {s} /\ s.id = got[p] /\ s.pid = h
                  /\ BAKMNGTRETB' = BAKMNGTRETB \cup {n} /\ n.id = got[p] /\ n.pid = h
                  /\ pc[p] = "insertMng" /\ regs' = regs + 1
                  /\ got[p] \notin Ids(BAKMNGSVRTB) \cup Ids(BAKMNGTRETB)
                  /\ history' = [history EXCEPT !.raced = Race(p)]
                  /\ UNCHANGED <<BAKTGTSVRTB, info, work>> /\ Reply(p, "saved")
  BY DEF InsertMngSvr, Refused, Answer, hostVars
<1>2. regs \in Nat /\ regs' \in Nat /\ regs <= regs'
  BY <1>1, Room DEF RegInv
<1>3. h \in Nat /\ got[p] \in Nat /\ h # 0 /\ h <= Hosts /\ h * Span <= got[p] /\ got[p] <= h * Span + regs
  BY <1>1 DEF RegInv, Typed, Inputs, IdInv, Forms, FormFits, FormIsOf
<1>4. Digits'
  <2>1. ASSUME NEW x \in BAKMNGSVRTB'
        PROVE  x.pid \in 1 .. Hosts /\ x.pid * Span <= x.id /\ x.id < x.pid * Span + regs'
    <3>1. CASE x = s
      <4>1. h * Span \in Nat /\ h \in 1 .. Hosts
        BY <1>3, Numbers
      <4> QED BY <1>1, <1>2, <1>3, <3>1, <4>1
    <3>2. CASE x \in BAKMNGSVRTB
      <4>1. x.pid \in 1 .. Hosts /\ x.pid * Span <= x.id /\ x.id < x.pid * Span + regs
        BY <3>2 DEF IdInv, Digits
      <4>2. x.id \in Nat /\ x.pid * Span \in Nat
        BY <3>2, Numbers DEF RegInv, Typed, Server
      <4> QED BY <1>1, <1>2, <4>1, <4>2
    <3> QED BY <1>1, <3>1, <3>2
  <2>2. ASSUME NEW t \in BAKTGTSVRTB PROVE Within(t.id, t.pid)'
    BY <1>2, WithinGrows DEF IdInv, Digits, RegInv, Typed, Target
  <2>3. ASSUME NEW i \in info \cup work PROVE Within(i.bts_id, i.bms_id)'
    BY <1>2, WithinGrows DEF IdInv, Digits, RegInv, Typed, Info
  <2> QED BY <1>1, <2>1, <2>2, <2>3 DEF Digits
<1>5. Forms'
  BY <1>1, <1>2, ReplyFits DEF RegInv, IdInv, Answer
<1>6. Tree'
  <2>1. \A r \in Registered : r.id # got[p]
    BY <1>1 DEF IdInv, Tree, Ids
  <2>2. Registered' = Registered \cup {s}
    BY <1>1 DEF Registered
  <2> QED BY <1>1, <2>1, <2>2 DEF IdInv, Tree
<1>7. AllPresent'
  BY <1>1 DEF IdInv, AllPresent, Present, RegInv, Typed, History
<1> QED BY <1>4, <1>5, <1>6, <1>7 DEF IdInv

LEMMA IdInsertTgt ==
    ASSUME Few, RegInv, RegInv', IdInv, NEW p \in Page, InsertTgtSvr(p), ~Refused(p)
    PROVE  IdInv'
<1> DEFINE b == page[p].bms_id
           late == IF \E s \in At(BAKMNGSVRTB, b) : s.by = page[p].shown THEN {} ELSE {regs + 1}
<1>1. PICK s, n : /\ BAKTGTSVRTB' = BAKTGTSVRTB \cup {s} /\ s.id = got[p] /\ s.pid = b
                  /\ BAKMNGTRETB' = BAKMNGTRETB \cup {n} /\ n.id = got[p] /\ n.pid = b
                  /\ pc[p] = "insertTgt" /\ regs' = regs + 1
                  /\ got[p] \notin Ids(BAKTGTSVRTB) \cup Ids(BAKMNGTRETB)
                  /\ history' = [history EXCEPT !.raced = Race(p), !.checked = {},
                                !.unchecked = @ \/ p \notin history.checked, !.late = @ \cup late]
                  /\ UNCHANGED <<BAKMNGSVRTB, info, work>> /\ Reply(p, "saved")
  BY DEF InsertTgtSvr, Refused, Answer, hostVars
<1>2. regs \in Nat /\ regs' \in Nat /\ regs <= regs'
  BY <1>1, Room DEF RegInv
<1>3. /\ b \in Nat /\ got[p] \in Nat /\ Span <= b /\ b < Slot
      /\ b * Slot <= got[p] /\ got[p] <= b * Slot + Hosts * Span + regs
  BY <1>1 DEF RegInv, Typed, Inputs, IdInv, Forms, FormFits, FormIsOf
<1>4. Digits'
  <2>1. ASSUME NEW x \in BAKMNGSVRTB
        PROVE  x.pid \in 1 .. Hosts /\ x.pid * Span <= x.id /\ x.id < x.pid * Span + regs'
    <3>1. x.pid \in 1 .. Hosts /\ x.pid * Span <= x.id /\ x.id < x.pid * Span + regs
      BY DEF IdInv, Digits
    <3>2. x.id \in Nat /\ x.pid * Span \in Nat
      BY Numbers DEF RegInv, Typed, Server
    <3> QED BY <1>1, <1>2, <3>1, <3>2
  <2>2. ASSUME NEW t \in BAKTGTSVRTB PROVE Within(t.id, t.pid)'
    BY <1>2, WithinGrows DEF IdInv, Digits, RegInv, Typed, Target
  <2>3. Within(s.id, s.pid)'
    <3>1. b * Slot \in Nat /\ Hosts * Span \in Nat
      BY <1>3, Numbers
    <3>2. got[p] < b * Slot + Hosts * Span + regs'
      BY <1>1, <1>2, <1>3, <3>1
    <3> QED BY <1>1, <1>3, <3>2 DEF Within
  <2>4. ASSUME NEW i \in info \cup work PROVE Within(i.bts_id, i.bms_id)'
    BY <1>2, WithinGrows DEF IdInv, Digits, RegInv, Typed, Info
  <2> QED BY <1>1, <2>1, <2>2, <2>3, <2>4 DEF Digits
<1>5. Forms'
  BY <1>1, <1>2, ReplyFits DEF RegInv, IdInv, Answer
<1>6. Tree'
  <2>1. \A r \in Registered : r.id # got[p]
    BY <1>1 DEF IdInv, Tree, Ids
  <2>2. Registered' = Registered \cup {s}
    BY <1>1 DEF Registered
  <2> QED BY <1>1, <2>1, <2>2 DEF IdInv, Tree
<1>7. AllPresent'
  <2>1. history'.busy = history.busy
    <3> HIDE DEF late
    <3> QED BY <1>1 DEF RegInv, Typed, History
  <2> QED BY <1>1, <2>1 DEF IdInv, AllPresent, Present
<1> QED BY <1>4, <1>5, <1>6, <1>7 DEF IdInv

LEMMA IdDeleteMng ==
    ASSUME Few, RegInv, RegInv', IdInv, NEW p \in Page, DeleteMngSvr(p), ~Refused(p)
    PROVE  IdInv'
<1> DEFINE b == page[p].bms_id
<1>0. b \in Nat /\ b # 0 /\ Span <= b /\ b < Slot
  BY DEF DeleteMngSvr, RegInv, Typed, Inputs, IdInv, Forms, FormFits, FormIsOf
<1>1. \A t \in BAKTGTSVRTB : t.id # b
  <2>1. ASSUME NEW t \in BAKTGTSVRTB PROVE t.id # b
    <3>1. Slot <= t.id /\ t.id \in Nat
      BY InstanceIdIs DEF RegInv, IdInv, Typed, Target
    <3> QED BY <1>0, <3>1, Numbers
  <2> QED BY <2>1
<1>2. \A s \in BAKMNGSVRTB : s.pid # b
  <2>1. ASSUME NEW s \in BAKMNGSVRTB PROVE s.pid # b
    <3>1. s.pid < Span /\ s.pid \in Nat
      BY ServerIdIs DEF RegInv, IdInv, Typed, Server
    <3> QED BY <1>0, <3>1, Numbers
  <2> QED BY <2>1
<1>3. CASE /\ history' = [history EXCEPT !.late = @ \cup Bys(Under(b))]
           /\ BAKMNGSVRTB' = BAKMNGSVRTB \ At(BAKMNGSVRTB, b)
           /\ BAKMNGTRETB' = BAKMNGTRETB \ At(BAKMNGTRETB, b)
           /\ UNCHANGED <<MNGSVRTB, BAKTGTSVRTB, info, regs, hostVars>>
           /\ Reply(p, "deleted")
  <2>1. regs' = regs /\ regs <= regs' /\ UNCHANGED <<BAKTGTSVRTB, info, work>>
    BY <1>3, Room DEF hostVars, RegInv
  <2>2. Digits'
    BY <1>3, <2>1, DigitsKept DEF RegInv, IdInv
  <2>3. Forms'
    BY <1>3, <2>1, ReplyFits DEF RegInv, IdInv, Answer
  <2>4. Tree'
    <3>1. Registered' = {r \in Registered : r.id # b} /\ BAKMNGTRETB' = {n \in BAKMNGTRETB : n.id # b}
      BY <1>1, <1>3, <2>1 DEF Registered, At
    <3> QED BY <3>1 DEF IdInv, Tree
  <2>5. AllPresent'
    <3>1. history'.busy = history.busy
      BY <1>3 DEF RegInv, Typed, History
    <3> QED BY <2>1, <3>1 DEF IdInv, AllPresent, Present
  <2> QED BY <2>2, <2>3, <2>4, <2>5 DEF IdInv
<1>4. CASE /\ BAKMNGSVRTB' = BAKMNGSVRTB \ At(BAKMNGSVRTB, b)
           /\ BAKTGTSVRTB' = BAKTGTSVRTB \ InstancesOf(b)
           /\ BAKMNGTRETB' = {n \in BAKMNGTRETB : NotOf(n, b)}
           /\ info' = {i \in info : InfoNotOf(i, b)}
           /\ Remove(b, OfServer(page[p].bms_nam))
           /\ history' = Leave(Under(b))
           /\ UNCHANGED <<MNGSVRTB, regs, work>>
           /\ Reply(p, "deleted")
  <2>1. regs' = regs /\ regs <= regs'
    BY <1>4, Room DEF RegInv
  <2>2. Digits'
    BY <1>4, <2>1, DigitsKept DEF RegInv, IdInv
  <2>3. Forms'
    BY <1>4, <2>1, ReplyFits DEF RegInv, IdInv, Answer
  <2>4. Tree'
    <3>1. /\ Registered' = {r \in Registered : r.id # b /\ r.pid # b}
          /\ BAKMNGTRETB' = {n \in BAKMNGTRETB : n.id # b /\ n.pid # b}
      BY <1>1, <1>2, <1>4 DEF Registered, At, InstancesOf, Under, NotOf
    <3> QED BY <3>1 DEF IdInv, Tree
  <2>5. AllPresent'
    <3> SUFFICES ASSUME NEW i \in info' \cup work', i.by \notin history'.busy
                 PROVE  \E t \in BAKTGTSVRTB' : t.id = i.bts_id /\ t.pid = i.bms_id /\ t.by = i.by
      BY DEF AllPresent, Present
    <3>1. history'.busy = history.busy \cup (Bys(Under(b)) \cap Bys(work))
      BY <1>4, Leaving DEF RegInv
    <3>2. PICK t \in BAKTGTSVRTB : t.id = i.bts_id /\ t.pid = i.bms_id /\ t.by = i.by
      BY <1>4, <3>1 DEF IdInv, AllPresent, Present
    <3>3. t \notin Under(b)
      BY <1>4, <3>1, <3>2 DEF Under, Bys, InfoNotOf
    <3> QED BY <1>4, <3>2, <3>3 DEF InstancesOf
  <2> QED BY <2>2, <2>3, <2>4, <2>5 DEF IdInv
<1> QED BY <1>3, <1>4 DEF DeleteMngSvr, Refused, Answer

LEMMA IdDeleteTgt ==
    ASSUME Few, RegInv, RegInv', IdInv, NEW p \in Page, DeleteTgtSvr(p), ~Refused(p)
    PROVE  IdInv'
<1> DEFINE in == page[p]
           T == At(BAKTGTSVRTB, in.bts_id)
<1>1. /\ BAKTGTSVRTB' = BAKTGTSVRTB \ T
      /\ BAKMNGTRETB' = BAKMNGTRETB \ At(BAKMNGTRETB, in.bts_id)
      /\ info' = {i \in info : ~(i.bms_id = in.bms_id /\ i.bts_id = in.bts_id)}
      /\ history' = Leave(T)
      /\ UNCHANGED <<MNGSVRTB, BAKMNGSVRTB, regs, work>>
      /\ Reply(p, "deleted") /\ pc[p] = "deleteTgt" /\ in.bts_id # 0
  BY DEF DeleteTgtSvr, Refused, Answer
<1>2. in.bts_id \in Nat /\ in.bms_id \in Nat /\ Within(in.bts_id, in.bms_id)
  BY <1>1 DEF RegInv, Typed, Inputs, IdInv, Forms, FormFits, FormIsOf
<1>3. \A s \in BAKMNGSVRTB : s.id # in.bts_id
  <2>1. ASSUME NEW s \in BAKMNGSVRTB PROVE s.id # in.bts_id
    <3>1. s.id < Slot /\ s.id \in Nat
      BY ServerIdIs DEF RegInv, IdInv, Typed, Server
    <3>2. Slot <= in.bts_id
      BY <1>2, WithinIs DEF RegInv
    <3> QED BY <1>2, <3>1, <3>2, Numbers
  <2> QED BY <2>1
<1>4. regs' = regs /\ regs <= regs'
  BY <1>1, Room DEF RegInv
<1>5. Digits'
  BY <1>1, <1>4, DigitsKept DEF RegInv, IdInv
<1>6. Forms'
  BY <1>1, <1>4, ReplyFits DEF RegInv, IdInv, Answer
<1>7. Tree'
  <2>1. /\ Registered' = {r \in Registered : r.id # in.bts_id}
        /\ BAKMNGTRETB' = {n \in BAKMNGTRETB : n.id # in.bts_id}
    BY <1>1, <1>3 DEF Registered, At
  <2> QED BY <2>1 DEF IdInv, Tree
<1>8. AllPresent'
  <2> SUFFICES ASSUME NEW i \in info' \cup work', i.by \notin history'.busy
               PROVE  \E t \in BAKTGTSVRTB' : t.id = i.bts_id /\ t.pid = i.bms_id /\ t.by = i.by
    BY DEF AllPresent, Present
  <2>1. history'.busy = history.busy \cup (Bys(T) \cap Bys(work))
    BY <1>1, Leaving DEF RegInv
  <2>2. PICK t \in BAKTGTSVRTB : t.id = i.bts_id /\ t.pid = i.bms_id /\ t.by = i.by
    BY <1>1, <2>1 DEF IdInv, AllPresent, Present
  <2>3. t \notin T
    <3> SUFFICES ASSUME t \in T PROVE FALSE
      OBVIOUS
    <3>1. t.id = in.bts_id
      BY DEF At
    <3>2. i \in info'
      BY <1>1, <2>1, <2>2 DEF Bys
    <3>3. i \in info /\ i.bms_id # in.bms_id
      BY <1>1, <2>2, <3>1, <3>2
    <3>4. Within(i.bts_id, i.bms_id) /\ i.bms_id \in Nat
      BY <3>3 DEF IdInv, Digits, RegInv, Typed, Info
    <3> QED BY <1>2, <2>2, <3>1, <3>3, <3>4, OneParent DEF RegInv
  <2> QED BY <1>1, <2>2, <2>3
<1> QED BY <1>5, <1>6, <1>7, <1>8 DEF IdInv

LEMMA IdHost ==
    ASSUME Few, RegInv, RegInv', IdInv, \/ InsertSvr
                                        \/ \E h \in InUse : DeleteSvrInfo(h) \/ DeleteSvr(h)
                                        \/ \E t \in BAKTGTSVRTB : StartWork(t)
                                        \/ \E w \in work : EndWork(w)
    PROVE  IdInv'
<1>1. UNCHANGED <<BAKMNGSVRTB, BAKTGTSVRTB, BAKMNGTRETB, regs, page, pc, got, history>>
  BY DEF InsertSvr, DeleteSvrInfo, DeleteSvr, StartWork, EndWork, restVars, webVars
<1>2. Forms'
  BY <1>1 DEF IdInv, Forms, FormFits, FormIsOf, Within
<1>3. CASE info' \cup work' \subseteq info \cup work
  BY <1>1, <1>2, <1>3, IdKept
<1>4. ASSUME NEW t \in BAKTGTSVRTB, StartWork(t) PROVE IdInv'
  <2>1. info' = info /\ work' = work \cup {[bms_id |-> t.pid, bts_id |-> t.id, by |-> t.by]}
    BY <1>4 DEF StartWork
  <2>2. Digits'
    <3>1. Within(t.id, t.pid)
      BY DEF IdInv, Digits
    <3> QED BY <1>1, <2>1, <3>1 DEF IdInv, Digits, Within
  <2>3. AllPresent'
    BY <1>1, <2>1 DEF IdInv, AllPresent, Present
  <2>4. Tree'
    BY <1>1 DEF IdInv, Tree, Registered
  <2> QED BY <1>2, <2>2, <2>3, <2>4 DEF IdInv
<1>5. InsertSvr \/ (\E h \in InUse : DeleteSvrInfo(h) \/ DeleteSvr(h)) \/ (\E w \in work : EndWork(w)) =>
         info' \cup work' \subseteq info \cup work
  BY DEF InsertSvr, DeleteSvrInfo, DeleteSvr, EndWork, hostVars
<1> QED BY <1>3, <1>4, <1>5

LEMMA IdNext ==
    ASSUME Few, RegInv, IdInv, [Next]_vars
    PROVE  IdInv'
<1>0. RegInv'
  BY RegNext
<1>1. CASE \E p \in Page : Click(p) \/ Save(p) \/ Delete(p)
  BY <1>0, <1>1, Requests, IdClick, IdRefused, IdAsks, IdInsertMng, IdInsertTgt, IdDeleteMng, IdDeleteTgt
     DEF RegInv
<1>2. CASE \/ InsertSvr
           \/ \E h \in InUse : DeleteSvrInfo(h) \/ DeleteSvr(h)
           \/ \E t \in BAKTGTSVRTB : StartWork(t)
           \/ \E w \in work : EndWork(w)
  BY <1>0, <1>2, IdHost
<1>3. CASE UNCHANGED vars
  BY <1>3 DEF vars, dbVars, hostVars, webVars, IdInv, Digits, Within, Forms, FormFits, FormIsOf, Tree,
              Registered, AllPresent, Present
<1> QED BY <1>1, <1>2, <1>3 DEF Next

LEMMA IdInit == ASSUME Few PROVE Init => IdInv
<1> SUFFICES ASSUME Init PROVE IdInv
  OBVIOUS
<1>1. Forms
  <2>1. FormIsOf(Blank)
    BY Numbers DEF Blank, FormIsOf
  <2> QED BY <2>1 DEF Init, Forms, FormFits
<1> QED BY <1>1 DEF Init, IdInv, Digits, Tree, Registered, AllPresent

LEMMA IdAlways == ASSUME Few PROVE Spec => [](RegInv /\ IdInv)
<1>1. Init => RegInv /\ IdInv
  BY RegInit, IdInit
<1>2. RegInv /\ IdInv /\ [Next]_vars => (RegInv /\ IdInv)'
  BY RegNext, IdNext
<1> QED BY <1>1, <1>2, PTL DEF Spec

-----------------------------------------------------------------------------
\* While the digits of the ids have room (Few): the tree of the pages is the registry,
\* and no two rows of it have one id, however the requests of the windows mix.
THEOREM TreeIsAlwaysRegistry == ASSUME Few PROVE Spec => []TreeIsRegistry
<1>1. IdInv => TreeIsRegistry
  <2> SUFFICES ASSUME Tree PROVE TreeIsRegistry
    BY DEF IdInv
  <2> DEFINE key(r) == [id |-> r.id, pid |-> r.pid]
  <2>1. ASSUME NEW n \in BAKMNGTRETB PROVE \E r \in Registered : key(n) = key(r)
    BY DEF Tree
  <2>2. ASSUME NEW r \in Registered PROVE \E n \in BAKMNGTRETB : key(r) = key(n)
    BY DEF Tree
  <2>3. \A r, q \in Registered : r.id = q.id => r = q
    BY DEF Tree
  <2>4. {key(n) : n \in BAKMNGTRETB} = {key(r) : r \in Registered}
    <3> HIDE DEF key
    <3> QED BY <2>1, <2>2
  <2> QED BY <2>3, <2>4 DEF TreeIsRegistry, Registered
<1> QED BY <1>1, IdAlways, PTL

\* While the digits have room: what is stored under the ids of an instance is about it,
\* unless it was written by a page that was at work when the instance was deleted
\* (deleteTgtSvr, deleteMngSvr and the inserts at the end of a run).
THEOREM InfoIsAlwaysOfItsInstance == ASSUME Few PROVE Spec => []InfoIsOfItsInstance
<1>1. IdInv => InfoIsOfItsInstance
  BY DEF IdInv, AllPresent, Present, InfoIsOfItsInstance, At
<1> QED BY <1>1, IdAlways, PTL

\* While the digits have room: a deletion takes nothing from an instance that stays.
THEOREM DeletionsSpareInstances == ASSUME Few PROVE Spec => InfoStaysWithInstance
<1>1. RegInv /\ IdInv /\ [Next]_vars =>
        [\A i \in info \ info' : \A t \in BAKTGTSVRTB' : ~(t.by = i.by /\ t.id = i.bts_id)]_vars
  <2> SUFFICES ASSUME RegInv, IdInv, [Next]_vars, NEW i \in info \ info', NEW t \in BAKTGTSVRTB', t.id = i.bts_id
               PROVE  FALSE
    OBVIOUS
  <2>1. PICK p \in Page : \/ DeleteMngSvr(p) /\ ~Refused(p)
                          \/ DeleteTgtSvr(p) /\ ~Refused(p)
    <3>1. ASSUME NEW p \in Page, Click(p) \/ Save(p) \/ Delete(p)
          PROVE  (DeleteMngSvr(p) /\ ~Refused(p)) \/ (DeleteTgtSvr(p) /\ ~Refused(p))
      <4>1. Click(p) => UNCHANGED dbVars
        BY Clicks DEF Clicked, RegInv
      <4>2. \A next, n : Ask(p, next, n) => UNCHANGED dbVars
        BY DEF Ask
      <4>3. Refused(p) => UNCHANGED dbVars
        BY DEF Refused, ReplyOnly
      <4>4. InsertMngSvr(p) \/ InsertTgtSvr(p) => info' = info
        BY DEF InsertMngSvr, InsertTgtSvr, ReplyOnly, dbVars
      <4>5. UNCHANGED dbVars => info' = info
        BY DEF dbVars
      <4> QED BY <3>1, <4>1, <4>2, <4>3, <4>4, <4>5, Requests DEF RegInv
    <3>2. InsertSvr \/ (\E h \in InUse : DeleteSvrInfo(h) \/ DeleteSvr(h)) \/ (\E x \in BAKTGTSVRTB : StartWork(x))
            \/ (\E w \in work : EndWork(w)) => info \subseteq info'
      BY DEF InsertSvr, DeleteSvrInfo, DeleteSvr, StartWork, EndWork
    <3>3. UNCHANGED vars => info' = info
      BY DEF vars, dbVars
    <3> QED BY <3>1, <3>2, <3>3 DEF Next
  <2>2. /\ Within(i.bts_id, i.bms_id) /\ i.bts_id \in Nat /\ i.bms_id \in Nat
    BY DEF IdInv, Digits, RegInv, Typed, Info
  <2>3. CASE DeleteMngSvr(p) /\ ~Refused(p)
    <3> DEFINE b == page[p].bms_id
    <3>1. BAKTGTSVRTB' = BAKTGTSVRTB \ Under(b) /\ i.bms_id = b
      BY <2>3 DEF DeleteMngSvr, Refused, Answer, InfoNotOf, InstancesOf
    <3>2. t \in BAKTGTSVRTB /\ t.pid # b
      BY <3>1 DEF Under
    <3>3. Within(i.bts_id, t.pid) /\ t.pid \in Nat
      BY <3>2 DEF IdInv, Digits, RegInv, Typed, Target
    <3> QED BY <2>2, <3>1, <3>2, <3>3, OneParent DEF RegInv
  <2>4. CASE DeleteTgtSvr(p) /\ ~Refused(p)
    <3>1. /\ BAKTGTSVRTB' = BAKTGTSVRTB \ At(BAKTGTSVRTB, page[p].bts_id)
          /\ i.bts_id = page[p].bts_id
      BY <2>4 DEF DeleteTgtSvr, Refused, Answer
    <3> QED BY <3>1 DEF At
  <2> QED BY <2>1, <2>3, <2>4
<1> QED BY <1>1, IdAlways, PTL DEF Spec, InfoStaysWithInstance

-----------------------------------------------------------------------------
LEMMA Quotient ==
    ASSUME NEW n \in Nat
    PROVE  /\ n \div Radix \in Nat
           /\ Radix * (n \div Radix) <= n /\ n < Radix * (n \div Radix) + Radix
<1>1. n \div Radix \in Nat
  BY Numbers
<1>2. Radix * (n \div Radix) <= n
  BY Numbers
<1>3. n < Radix * (n \div Radix) + Radix
  BY Numbers
<1> QED BY <1>1, <1>2, <1>3

\* First is a recursive function, of which nothing is known but that it is chosen: a
\* function with its equation exists, which gives each number the one its chain ends at.
LEMMA FirstIs ==
    ASSUME NEW n \in Nat
    PROVE  First[n] = IF n < Radix THEN n ELSE First[n \div Radix]
<1> DEFINE EndsAt(m, d) == \E S \in SUBSET Nat :
               m \in S /\ \A k \in S : IF k < Radix THEN k = d ELSE k \div Radix \in S
           Ends(m) == {d \in Nat : EndsAt(m, d)}
           f == [m \in Nat |-> CHOOSE d \in Nat : d \in Ends(m)]
<1>1. ASSUME NEW m \in Nat, m < Radix, NEW d \in Nat
      PROVE  EndsAt(m, d) <=> d = m
  <2>1. EndsAt(m, m)
    <3>1. {m} \in SUBSET Nat
      OBVIOUS
    <3> QED BY <3>1, <1>1
  <2> QED BY <2>1, <1>1
<1>2. ASSUME NEW m \in Nat, ~(m < Radix), NEW d \in Nat
      PROVE  EndsAt(m, d) <=> EndsAt(m \div Radix, d)
  <2>1. ASSUME EndsAt(m \div Radix, d) PROVE EndsAt(m, d)
    <3>1. PICK S \in SUBSET Nat :
             m \div Radix \in S /\ \A k \in S : IF k < Radix THEN k = d ELSE k \div Radix \in S
      BY <2>1
    <3>2. \A k \in S \cup {m} : IF k < Radix THEN k = d ELSE k \div Radix \in S \cup {m}
      BY <3>1, <1>2
    <3>3. S \cup {m} \in SUBSET Nat
      OBVIOUS
    <3> QED BY <3>2, <3>3
  <2>2. ASSUME EndsAt(m, d) PROVE EndsAt(m \div Radix, d)
    BY <1>2, <2>2
  <2> QED BY <2>1, <2>2
<1> HIDE DEF EndsAt
<1>3. ASSUME NEW m \in Nat
      PROVE  f[m] = IF m < Radix THEN m ELSE f[m \div Radix]
  <2>1. CASE m < Radix
    BY <2>1, <1>1
  <2>2. CASE ~(m < Radix)
    <3>1. m \div Radix \in Nat
      BY Quotient
    <3>2. Ends(m) = Ends(m \div Radix)
      BY <1>2, <2>2
    <3> HIDE DEF Ends
    <3> QED BY <3>1, <3>2, <2>2
  <2> QED BY <2>1, <2>2
<1>4. f = [m \in Nat |-> IF m < Radix THEN m ELSE f[m \div Radix]]
  <2>1. f = [m \in Nat |-> f[m]]
    OBVIOUS
  <2> HIDE DEF f
  <2> QED BY <2>1, <1>3
<1> HIDE DEF f
<1>5. First = [m \in Nat |-> IF m < Radix THEN m ELSE First[m \div Radix]]
  BY <1>4 DEF First
<1> HIDE DEF First
<1> QED BY <1>5

\* All numbers that begin with b have the first digit of b. P is a power of Radix and
\* those below; a least one for which this fails would have one below it.
LEMMA FirstOfAll ==
    ASSUME NEW P \in SUBSET Nat, \A p \in P : p = 1 \/ \E q \in P : p = Radix * q,
           NEW p \in P, NEW b \in Nat, 0 < b, NEW n \in Nat, b * p <= n, n < (b + 1) * p
    PROVE  First[n] = First[b]
<1> DEFINE Fails(k) == \E m \in Nat : b * k <= m /\ m < (b + 1) * k /\ First[m] # First[b]
           W == {k \in P : Fails(k)}
<1>1. W = {}
  <2>1. SUFFICES ASSUME W # {} PROVE FALSE
    OBVIOUS
  <2>2. PICK k \in W : \A j \in W : <<j, k>> \notin OpToRel(<, Nat)
    <3>1. W \subseteq Nat
      OBVIOUS
    <3> HIDE DEF W
    <3> QED BY <2>1, <3>1, NatLessThanWellFounded, WFMin
  <2>3. PICK m \in Nat : b * k <= m /\ m < (b + 1) * k /\ First[m] # First[b]
    OBVIOUS
  <2>4. k # 1
    BY <2>3
  <2>5. PICK q \in P : k = Radix * q
    BY <2>4
  <2>6. q \in Nat /\ b * q \in Nat /\ (b + 1) * q = b * q + q
    OBVIOUS
  <2>7. b * k = Radix * (b * q) /\ (b + 1) * k = Radix * (b * q + q)
    BY <2>5, <2>6, Numbers
  <2> DEFINE x == b * q
             y == m \div Radix
  <2>8. y \in Nat /\ Radix * y <= m /\ m < Radix * y + Radix
    BY Quotient
  <2>9. 0 < q
    BY <2>3, <2>6, <2>7, Numbers
  <2>10. Radix <= m
    <3>3. x \in Nat
      BY <2>6
    <3>1. 1 <= x
      BY <2>6, <2>9
    <3> HIDE DEF x
    <3>2. Radix <= Radix * x
      BY <3>1, <3>3, Numbers
    <3> QED BY <3>2, <2>3, <2>7, Numbers DEF x
  <2>11. x <= y /\ y < x + q
    <3>1. x \in Nat /\ Radix * x <= m /\ m < Radix * (x + q)
      BY <2>3, <2>6, <2>7
    <3> HIDE DEF x, y
    <3>2. Radix * x < Radix * (y + 1) /\ Radix * y < Radix * (x + q)
      BY <3>1, <2>6, <2>8, Numbers
    <3>3. ASSUME NEW u \in Nat, NEW v \in Nat, Radix * u < Radix * v PROVE u < v
      <4>1. SUFFICES ASSUME v <= u PROVE FALSE
        OBVIOUS
      <4>2. Radix * v <= Radix * u
        BY <4>1, Numbers
      <4> QED BY <4>2, <3>3, Numbers
    <3>4. x < y + 1 /\ y < x + q
      BY <3>2, <3>3, <3>1, <2>6, <2>8
    <3> QED BY <3>4, <3>1, <2>6, <2>8
  <2>12. First[y] # First[b]
    BY <2>3, <2>10, FirstIs, Numbers
  <2>13. q \in W
    BY <2>6, <2>8, <2>11, <2>12
  <2>14. q < k
    BY <2>5, <2>6, <2>9, Numbers
  <2> QED BY <2>2, <2>6, <2>13, <2>14 DEF OpToRel
<1> QED BY <1>1

\* While the digits have room: the first digit of the id of a server or an instance is
\* the backup server it was registered for, so the commands that backup, restore and
\* deletion send by charAt(0) reach it.
THEOREM CommandsAlwaysReachTheirHost == ASSUME Few PROVE Spec => []CommandsReachTheirHost
<1>1. RegInv /\ IdInv => CommandsReachTheirHost
  <2> SUFFICES ASSUME Typed, Digits, NEW s \in BAKMNGSVRTB, s.pid < Radix
               PROVE  Lead(s.id) = s.pid /\ \A t \in Under(s.id) : Lead(t.id) = s.pid
    BY DEF RegInv, IdInv, CommandsReachTheirHost
  <2>1. PICK P \in SUBSET (1 .. Span) : Span \in P /\ \A p \in P : p = 1 \/ \E q \in P : p = Radix * q
    BY DigitAssumption
  <2> DEFINE Q == P \cup {Slot}
  <2>2. Q \in SUBSET Nat /\ Span \in Q /\ Slot \in Q
    BY <2>1, Numbers
  <2>3. \A p \in Q : p = 1 \/ \E q \in Q : p = Radix * q
    BY <2>1 DEF Slot
  <2> HIDE DEF Q
  <2>4. ASSUME NEW p \in Q, NEW b \in Nat, 0 < b, NEW n \in Nat, b * p <= n, n < (b + 1) * p
        PROVE  First[n] = First[b]
    BY <2>2, <2>3, <2>4, FirstOfAll
  <2>5. /\ s.id \in Nat /\ s.pid \in Nat /\ 0 < s.pid
        /\ s.pid * Span <= s.id /\ s.id < s.pid * Span + regs
    BY DEF Typed, Server, Digits
  <2>6. First[s.id] = s.pid
    <3>1. s.pid * Span \in Nat /\ (s.pid + 1) * Span = s.pid * Span + Span
      BY <2>5, Numbers
    <3>2. s.id < (s.pid + 1) * Span
      BY <2>5, <3>1, Room, Numbers DEF Few, Typed
    <3>3. First[s.id] = First[s.pid]
      BY <2>2, <2>4, <2>5, <3>2
    <3> QED BY <3>3, <2>5, FirstIs
  <2>7. ASSUME NEW t \in Under(s.id) PROVE First[t.id] = s.pid
    <3>1. /\ t.id \in Nat /\ Within(t.id, s.id)
      BY DEF Under, Typed, Target, Digits
    <3>2. 0 < s.id /\ s.id * Slot <= t.id
      BY <3>1, <2>5, Numbers DEF Within
    <3>3. t.id < (s.id + 1) * Slot
      <4>1. s.id * Slot \in Nat /\ (s.id + 1) * Slot = s.id * Slot + Slot
        BY <2>5, Numbers
      <4> QED BY <4>1, <3>1, Room, Numbers DEF Within
    <3>4. First[t.id] = First[s.id]
      BY <2>2, <2>4, <2>5, <3>1, <3>2, <3>3
    <3> QED BY <3>4, <2>6
  <2> QED BY <2>6, <2>7 DEF Lead
<1> QED BY <1>1, IdAlways, PTL

-----------------------------------------------------------------------------
\* MAX + 1 is the id of no row.
LEMMA MngIdIsFree ==
    ASSUME Few, MaxReg < Span, RegInv, IdInv, NEW h \in Nat, h <= Hosts, NEW r \in Registered
    PROVE  r.id # MngMaxId(h)
<1>0. /\ Typed /\ Digits /\ h * Span \in Nat /\ h * Span <= Hosts * Span /\ Hosts * Span \in Nat
      /\ regs \in Nat /\ regs < Span /\ Span \in Nat /\ Slot \in Nat /\ MngMaxId(h) \in Nat
      /\ Hosts * Span + regs < Slot
  <2>1. regs <= MaxReg /\ regs \in Nat /\ MaxReg \in Nat /\ Span \in Nat /\ Slot \in Nat /\ Hosts \in Nat
    BY Numbers DEF RegInv, Typed
  <2>2. (Hosts + 1) * Span <= Slot
    <3>1. Hosts + 1 <= Radix /\ Hosts + 1 \in Nat
      BY Numbers DEF Few
    <3> QED BY <3>1, Numbers DEF Slot
  <2>3. (Hosts + 1) * Span = Hosts * Span + Span
    BY <2>1
  <2>4. Hosts * Span \in Nat /\ h * Span \in Nat /\ h * Span <= Hosts * Span
    BY <2>1
  <2>5. MngMaxId(h) \in Nat
    BY IdsAreNumbers DEF RegInv
  <2> QED BY <2>1, <2>2, <2>3, <2>4, <2>5 DEF RegInv, IdInv
<1>1. h * Span <= MngMaxId(h) /\ MngMaxId(h) <= h * Span + regs
  BY <1>0, MngIdFits
<1>2. CASE r \in BAKTGTSVRTB
  <2>1. Slot <= r.id /\ r.id \in Nat
    BY <1>0, <1>2, InstanceIdIs DEF Typed, Target
  <2> QED BY <1>0, <1>1, <2>1
<1>3. CASE r \in BAKMNGSVRTB /\ r.pid = h
  <2>1. r.id < MngMaxId(h) /\ r.id \in Nat
    BY <1>0, <1>3, MngMaxIdIs DEF RegInv, Typed, Server
  <2> QED BY <1>0, <2>1
<1>4. CASE r \in BAKMNGSVRTB /\ r.pid # h
  <2>1. r.id \in Nat /\ r.pid \in Nat /\ r.pid * Span <= r.id /\ r.id < r.pid * Span + regs
    BY <1>0, <1>4 DEF Typed, Server, Digits
  <2>2. r.pid < h => r.pid * Span + Span <= h * Span
    BY <1>0, <2>1
  <2>3. h < r.pid => h * Span + Span <= r.pid * Span
    BY <1>0, <2>1
  <2>4. r.pid * Span \in Nat /\ (r.pid < h \/ h < r.pid)
    BY <1>0, <1>4, <2>1
  <2>5. CASE r.pid < h
    BY <1>0, <1>1, <2>1, <2>2, <2>4, <2>5
  <2>6. CASE h < r.pid
    BY <1>0, <1>1, <2>1, <2>3, <2>4, <2>6
  <2> QED BY <2>4, <2>5, <2>6
<1> QED BY <1>2, <1>3, <1>4 DEF Registered

LEMMA TgtIdIsFree ==
    ASSUME Few, MaxReg < Span, RegInv, IdInv, NEW b \in Nat, Span <= b, NEW h \in Nat, h <= Hosts, NEW r \in Registered
    PROVE  r.id # TgtMaxId(b, h)
<1>0. /\ Typed /\ Digits /\ b * Slot \in Nat /\ Slot <= b * Slot /\ Hosts * Span \in Nat
      /\ regs \in Nat /\ Slot \in Nat /\ TgtMaxId(b, h) \in Nat /\ Hosts * Span + regs < Slot
  <2>1. regs <= MaxReg /\ regs \in Nat /\ MaxReg \in Nat /\ Span \in Nat /\ Slot \in Nat /\ Hosts \in Nat
    BY Numbers DEF RegInv, Typed
  <2>2. (Hosts + 1) * Span <= Slot
    <3>1. Hosts + 1 <= Radix /\ Hosts + 1 \in Nat
      BY Numbers DEF Few
    <3> QED BY <3>1, Numbers DEF Slot
  <2>3. (Hosts + 1) * Span = Hosts * Span + Span
    BY <2>1
  <2>4. Hosts * Span \in Nat /\ b * Slot \in Nat /\ Slot <= b * Slot
    <3>1. 1 <= b
      BY Numbers
    <3> QED BY <2>1, <3>1
  <2>5. TgtMaxId(b, h) \in Nat
    BY IdsAreNumbers DEF RegInv
  <2> QED BY <2>1, <2>2, <2>3, <2>4, <2>5 DEF RegInv, IdInv
<1>1. b * Slot <= TgtMaxId(b, h) /\ TgtMaxId(b, h) <= b * Slot + Hosts * Span + regs
  BY <1>0, TgtIdFits
<1>2. CASE r \in BAKMNGSVRTB
  <2>1. r.id < Slot /\ r.id \in Nat
    BY <1>0, <1>2, ServerIdIs DEF Typed, Server
  <2> QED BY <1>0, <1>1, <2>1
<1>3. CASE r \in BAKTGTSVRTB /\ r.pid = b
  <2>1. r \in Under(b) /\ r.id \in Nat /\ Within(r.id, b)
    BY <1>0, <1>3 DEF Under, Digits, Typed, Target
  <2>2. Right(r.id) \in Nat /\ r.id = b * Slot + Right(r.id)
    BY <1>0, <2>1, RightIs
  <2>3. PICK t \in Under(b) : TgtMaxId(b, h) = b * Slot + (Right(t.id) + 1) /\ Right(r.id) <= Right(t.id)
    BY <1>0, <2>1, TgtMaxIdIs
  <2>4. Right(t.id) \in Nat
    BY Numbers DEF Under, RegInv, Typed, Target, Right
  <2> QED BY <1>0, <2>2, <2>3, <2>4
<1>4. CASE r \in BAKTGTSVRTB /\ r.pid # b
  <2>1. r.id \in Nat /\ r.pid \in Nat /\ Within(r.id, r.pid)
    BY <1>0, <1>4 DEF Typed, Target, Digits
  <2>2. r.pid * Slot <= r.id /\ r.id < r.pid * Slot + Hosts * Span + regs
    BY <2>1 DEF Within
  <2>3. r.pid < b => r.pid * Slot + Slot <= b * Slot
    BY <1>0, <2>1
  <2>4. b < r.pid => b * Slot + Slot <= r.pid * Slot
    BY <1>0, <2>1
  <2>5. r.pid * Slot \in Nat /\ (r.pid < b \/ b < r.pid)
    BY <1>0, <1>4, <2>1
  <2>6. CASE r.pid < b
    BY <1>0, <1>1, <2>1, <2>2, <2>3, <2>5, <2>6
  <2>7. CASE b < r.pid
    BY <1>0, <1>1, <2>1, <2>2, <2>4, <2>5, <2>7
  <2> QED BY <2>5, <2>6, <2>7
<1> QED BY <1>2, <1>3, <1>4 DEF Registered

\* Where no row comes, a free id stays free.
LEMMA UnracedKept ==
    ASSUME Unraced, Registered' \subseteq Registered,
           \A p \in Page : pc'[p] \in {"insertMng", "insertTgt"} =>
              /\ pc[p] \in {"insertMng", "insertTgt"} /\ got'[p] = got[p]
              /\ answer'[p] = answer[p] /\ (p \in history.raced => p \in history'.raced)
    PROVE  Unraced'
BY DEF Unraced

LEMMA UnracedReply ==
    ASSUME RegInv, Unraced, NEW p \in Page, NEW a, Reply(p, a), Registered' \subseteq Registered,
           history.raced \subseteq history'.raced
    PROVE  Unraced'
<1>1. \A q \in Page \ {p} : pc'[q] = pc[q] /\ got'[q] = got[q] /\ answer'[q] = answer[q]
  BY DEF Reply, RegInv, Typed
<1>2. pc'[p] = "ready"
  BY DEF Reply, RegInv, Typed
<1> QED BY <1>1, <1>2, UnracedKept

\* A registration overtakes those that are under way.
LEMMA UnracedInsert ==
    ASSUME RegInv, Unraced, NEW p \in Page, Reply(p, "saved"), history'.raced = Race(p)
    PROVE  Unraced'
<1>1. \A q \in Page \ {p} : pc'[q] = pc[q] /\ answer'[q] = answer[q]
  BY DEF Reply, RegInv, Typed
<1>2. pc'[p] = "ready"
  BY DEF Reply, RegInv, Typed
<1>3. ASSUME NEW q \in Page, pc'[q] \in {"insertMng", "insertTgt"}
      PROVE  answer'[q] = "none" /\ q \in history'.raced
  BY <1>1, <1>2, <1>3 DEF Race, Unraced
<1> QED BY <1>3 DEF Unraced

LEMMA UnracedAsk ==
    ASSUME RegInv, Unraced, NEW p \in Page, NEW next, NEW n, Ask(p, next, n),
           next \in {"insertMng", "insertTgt"} => \A r \in Registered : r.id # n
    PROVE  Unraced'
<1>1. /\ \A q \in Page \ {p} : pc'[q] = pc[q] /\ got'[q] = got[q] /\ answer'[q] = answer[q]
      /\ pc'[p] = next /\ got'[p] = n /\ answer'[p] = "none"
  BY DEF Ask, RegInv, Typed
<1>2. history'.raced = history.raced \ {p} /\ Registered' = Registered
  BY DEF Ask, RegInv, Typed, History, dbVars, Registered
<1>3. ASSUME NEW q \in Page, pc'[q] \in {"insertMng", "insertTgt"}
      PROVE  answer'[q] = "none" /\ (q \in history'.raced \/ \A r \in Registered' : r.id # got'[q])
  <2>1. CASE q = p
    BY <1>1, <1>2, <1>3, <2>1
  <2>2. CASE q # p
    BY <1>1, <1>2, <1>3, <2>2 DEF Unraced
  <2> QED BY <2>1, <2>2
<1> QED BY <1>3 DEF Unraced

LEMMA UnracedPage ==
    ASSUME Few, MaxReg < Span, RegInv, IdInv, Unraced, NEW p \in Page, Click(p) \/ Save(p) \/ Delete(p)
    PROVE  Unraced'
<1> DEFINE P == page[p]
<1>0. /\ P \in Inputs /\ P.bms_id \in Nat /\ P.bmt_id \in Nat /\ P.bmt_id <= Hosts
      /\ P.bms_id # 0 => Span <= P.bms_id
  BY DEF RegInv, Typed, Inputs, IdInv, Forms, FormFits, FormIsOf
<1>1. CASE Click(p)
  <2>1. PICK new \in Inputs : Clicked(p, new)
    BY <1>1, Clicks DEF RegInv
  <2>2. Registered' = Registered /\ history'.raced = history.raced
    BY <2>1 DEF Clicked, dbVars, Registered, RegInv, Typed, History
  <2>3. pc[p] = "ready" /\ pc' = pc /\ got' = got /\ \A q \in Page \ {p} : answer'[q] = answer[q]
    BY <2>1 DEF Clicked, RegInv, Typed
  <2>4. \A q \in Page : pc'[q] \in {"insertMng", "insertTgt"} =>
              /\ pc[q] \in {"insertMng", "insertTgt"} /\ got'[q] = got[q]
              /\ answer'[q] = answer[q] /\ (q \in history.raced => q \in history'.raced)
    BY <2>2, <2>3
  <2> QED BY <2>2, <2>4, UnracedKept
<1>2. CASE Refused(p)
  <2>1. PICK a : UNCHANGED <<dbVars, history>> /\ Reply(p, a)
    BY <1>2 DEF Refused, ReplyOnly
  <2> QED BY <2>1, UnracedReply DEF dbVars, Registered
<1>3. CASE P.bmt_id # 0 /\ Ask(p, "insertMng", MngMaxId(P.bmt_id))
  BY <1>0, <1>3, MngIdIsFree, UnracedAsk
<1>4. CASE /\ P.bms_id # 0 /\ P.bmt_id # 0
           /\ Ask(p, "insertTgt", TgtMaxId(P.bms_id, P.bmt_id))
  BY <1>0, <1>4, TgtIdIsFree, UnracedAsk
<1>5. CASE \/ Ask(p, "deleteMng", Cardinality(Under(P.bms_id))) \/ Ask(p, "deleteTgt", 1)
  BY <1>5, UnracedAsk
<1>6. CASE InsertMngSvr(p) /\ ~Refused(p)
  <2>1. history' = [history EXCEPT !.raced = Race(p)] /\ Reply(p, "saved")
    BY <1>6 DEF InsertMngSvr, Refused, Answer
  <2>2. history'.raced = Race(p)
    BY <2>1 DEF RegInv, Typed, History
  <2> QED BY <2>1, <2>2, UnracedInsert
<1>7. CASE InsertTgtSvr(p) /\ ~Refused(p)
  <2> DEFINE late == IF \E s \in At(BAKMNGSVRTB, P.bms_id) : s.by = P.shown THEN {} ELSE {regs + 1}
  <2>1. /\ history' = [history EXCEPT !.raced = Race(p), !.checked = {},
                         !.unchecked = @ \/ p \notin history.checked, !.late = @ \cup late]
        /\ Reply(p, "saved")
    BY <1>7 DEF InsertTgtSvr, Refused, Answer
  <2> HIDE DEF late
  <2>2. history'.raced = Race(p)
    BY <2>1 DEF RegInv, Typed, History
  <2> QED BY <2>1, <2>2, UnracedInsert
<1>8. CASE DeleteMngSvr(p) /\ ~Refused(p)
  <2>1. /\ Reply(p, "deleted") /\ Registered' \subseteq Registered
        /\ \/ history' = [history EXCEPT !.late = @ \cup Bys(Under(P.bms_id))]
           \/ history' = Leave(Under(P.bms_id))
    BY <1>8 DEF DeleteMngSvr, Refused, Answer, Registered
  <2>2. history'.raced = history.raced
    <3>1. CASE history' = [history EXCEPT !.late = @ \cup Bys(Under(P.bms_id))]
      BY <3>1 DEF RegInv, Typed, History
    <3>2. CASE history' = Leave(Under(P.bms_id))
      BY <3>2, Leaving DEF RegInv
    <3> QED BY <2>1, <3>1, <3>2
  <2> QED BY <2>1, <2>2, UnracedReply
<1>9. CASE DeleteTgtSvr(p) /\ ~Refused(p)
  <2>1. /\ Reply(p, "deleted") /\ Registered' \subseteq Registered
        /\ history' = Leave(At(BAKTGTSVRTB, P.bts_id))
    BY <1>9 DEF DeleteTgtSvr, Refused, Answer, Registered
  <2>2. history'.raced = history.raced
    BY <2>1, Leaving DEF RegInv
  <2> QED BY <2>1, <2>2, UnracedReply
<1> QED BY <1>1, <1>2, <1>3, <1>4, <1>5, <1>6, <1>7, <1>8, <1>9, Requests DEF RegInv

LEMMA UnracedNext ==
    ASSUME Few, MaxReg < Span, RegInv, IdInv, Unraced, [Next]_vars
    PROVE  Unraced'
<1>1. CASE \E p \in Page : Click(p) \/ Save(p) \/ Delete(p)
  BY <1>1, UnracedPage
<1>2. CASE \/ InsertSvr
           \/ \E h \in InUse : DeleteSvrInfo(h) \/ DeleteSvr(h)
           \/ \E t \in BAKTGTSVRTB : StartWork(t)
           \/ \E w \in work : EndWork(w)
           \/ UNCHANGED vars
  <2>1. UNCHANGED <<BAKMNGSVRTB, BAKTGTSVRTB, pc, got, answer, history>>
    BY <1>2 DEF InsertSvr, DeleteSvrInfo, DeleteSvr, StartWork, EndWork, restVars, webVars, vars, dbVars
  <2> QED BY <2>1 DEF Unraced, Registered
<1> QED BY <1>1, <1>2 DEF Next

\* While the digits have room: a registration that has a parent fails only if another
\* one was made between its two queries (findMngSvrMaxId and insertMngSvr, and the same
\* for instances): two windows are the only way to lose one.
THEOREM OnlyRacedRegistrationsFail == ASSUME Few, MaxReg < Span PROVE Spec => RegistrationFailsOnlyRaced
<1>1. Init => Unraced
  BY DEF Init, Unraced
<1>2. RegInv /\ IdInv /\ Unraced /\ [Next]_vars =>
        [\A p \in Page : pc[p] \in {"insertMng", "insertTgt"} /\ answer'[p] = "error" =>
            p \in history.raced]_vars
  <2> SUFFICES ASSUME RegInv, IdInv, Unraced, Next, NEW p \in Page,
                      pc[p] \in {"insertMng", "insertTgt"}, answer'[p] = "error"
               PROVE  p \in history.raced
    BY DEF Unraced
  <2>1. answer[p] = "none" /\ answer' # answer
    BY DEF Unraced
  <2>2. PICK q \in Page : Click(q) \/ Save(q) \/ Delete(q)
    BY <2>1 DEF Next, InsertSvr, DeleteSvrInfo, DeleteSvr, StartWork, EndWork, restVars, webVars
  <2>3. ASSUME q # p PROVE FALSE
    <3>1. \A a : Reply(q, a) => answer'[p] = answer[p]
      BY <2>3 DEF Reply, RegInv, Typed
    <3>2. Click(q) => answer'[p] = answer[p]
      BY <2>3, Clicks DEF Clicked, RegInv, Typed
    <3>3. \A next, n : Ask(q, next, n) => answer'[p] = answer[p]
      BY <2>3 DEF Ask, RegInv, Typed
    <3>4. Refused(q) \/ InsertMngSvr(q) \/ InsertTgtSvr(q) \/ DeleteMngSvr(q) \/ DeleteTgtSvr(q) =>
             \E a : Reply(q, a)
      BY DEF Refused, ReplyOnly, InsertMngSvr, InsertTgtSvr, DeleteMngSvr, DeleteTgtSvr
    <3> QED BY <2>1, <2>2, <3>1, <3>2, <3>3, <3>4, Requests DEF RegInv
  <2>4. InsertMngSvr(p) \/ InsertTgtSvr(p)
    BY <2>2, <2>3 DEF Click, Load, ClickHost, ClickServer, ClickTarget, AddServer, AddTarget,
                      Save, UpdateMngSvr, UpdateTgtSvr, FindMngSvrMaxId, FindTgtSvrMaxId,
                      Delete, BeginDelete, DeleteMngSvr, DeleteTgtSvr, DeleteNothing
  <2>5. ~Reply(p, "saved")
    <3>1. Reply(p, "saved") => answer'[p] = "saved"
      BY DEF Reply, RegInv, Typed
    <3> QED BY <3>1
  <2>6. got[p] \in Ids(BAKMNGSVRTB) \cup Ids(BAKTGTSVRTB) \cup Ids(BAKMNGTRETB)
    BY <2>4, <2>5 DEF InsertMngSvr, InsertTgtSvr
  <2>7. \E r \in Registered : r.id = got[p]
    BY <2>6 DEF IdInv, Tree, Registered, Ids
  <2> QED BY <2>7 DEF Unraced
<1> QED BY <1>1, <1>2, UnracedNext, IdAlways, PTL DEF Spec, RegistrationFailsOnlyRaced

=============================================================================
