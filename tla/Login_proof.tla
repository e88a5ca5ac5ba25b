---------------------------- MODULE Login_proof ----------------------------
(***************************************************************************)
(* Proofs about Login: for any number of users, browsers, sessions and     *)
(* simultaneous logins, what the table of LoginManager says of the         *)
(* sessions, whom a login ends, why it fails, and that the table           *)
(* implements SessionBook.                                                 *)
(*                                                                         *)
(* The invariant has a part for the sessions and one for the web threads.  *)
(* The latter says how far a login has come in ending the sessions of its  *)
(* user: those still in the table are ahead of its enumeration, unless two *)
(* logins of the user meet.                                                *)
(***************************************************************************)
EXTENDS Login, FiniteSetTheorems, TLAPS

SessType == /\ loginUsers \in [Session -> User \cup {NoUser}]
            /\ bound \in [Session -> SUBSET User]
            /\ fresh \in SUBSET Session /\ valid \in SUBSET (Session \ fresh)
            /\ ending \in SUBSET (Session \ (fresh \cup valid))
            /\ torn \in SUBSET (Session \ fresh)

\* A session whose attributes are still there stands in the table for one of its users;
\* one that has ended leaves nothing behind, unless it is torn.
Alive    == \A s \in valid \cup ending : IF Entered(s) = {} THEN ~LoggedIn(s)
                                         ELSE loginUsers[s] \in Entered(s)
Dead     == \A s \in Session \ (valid \cup ending \cup torn) : bound[s] = {} /\ ~LoggedIn(s)
Bindings == \A t \in Thread : pc[t] \in {"put", "attr"} => sess[t] \in valid \cup torn
SessInv  == SessType /\ Alive /\ Dead /\ Bindings

WebType  == /\ pc \in [Thread -> PC] /\ usr \in [Thread -> User]
            /\ sess \in [Thread -> Session \cup {NoSession}]
            /\ cookie \in [Browser -> Session \cup {NoSession}]
            /\ todo \in [Thread -> SUBSET Session]
            /\ key \in [Thread -> Session \cup {NoSession}]
            /\ met \in SUBSET User

\* A session that is about to be ended has been created, and the user of the login has
\* logged into it, until its attributes are gone.
Killing(t) == pc[t] \in {"kill", "end", "unbind"} =>
                 /\ key[t] \in Session \ fresh
                 /\ key[t] \in valid \cup ending => usr[t] \in Entered(key[t])
                 /\ pc[t] = "unbind" => key[t] \in ending

\* The history variable met does its work.
Meeting  == \A t, x \in Thread : t # x /\ Open(t) /\ Open(x) /\ usr[t] = usr[x]
               => usr[t] \in met

\* What removeSession has still to find, and what it leaves to setSession.
Ahead(t) == \A s \in Session : loginUsers[s] = usr[t]
               => s \in todo[t] \/ (pc[t] \in {"kill", "end", "unbind"} /\ s = key[t])
Cleared(t) == \A s \in Session : loginUsers[s] # usr[t]
Clearing(t) == usr[t] \notin met =>
               /\ pc[t] \in {"scan", "kill", "end", "unbind"} => Ahead(t)
               /\ (pc[t] = "end" /\ key[t] \notin valid \cup ending) => loginUsers[key[t]] # usr[t]
               /\ pc[t] \in {"bind", "put"} => Cleared(t)

\* One thread runs the second step of an end.
Solo == \A t, x \in Thread : t # x /\ pc[t] = "unbind" /\ pc[x] = "unbind" => key[t] # key[x]

WebInv == WebType /\ Meeting /\ Solo /\ \A t \in Thread : Killing(t) /\ Clearing(t)
IInv   == SessInv /\ WebInv

-----------------------------------------------------------------------------
LEMMA InitInv == Init => IInv
<1> SUFFICES ASSUME Init PROVE IInv
  OBVIOUS
<1>1. \A t \in Thread : pc[t] = "idle"
  BY DEF Init
<1>2. SessInv
  <2>1. SessType /\ Dead
    BY NoneAssumption DEF Init, SessType, Dead, LoggedIn
  <2>2. Alive
    BY DEF Init, Alive
  <2>3. Bindings
    BY <1>1 DEF Bindings
  <2>4. QED
    BY <2>1, <2>2, <2>3 DEF SessInv
<1>3. WebInv
  <2>1. WebType
    BY SomeAssumption DEF Init, WebType, PC, Answer
  <2>2. QED
    BY <1>1, <2>1 DEF WebInv, Killing, Meeting, Solo, Clearing, Open
<1>4. QED
  BY <1>2, <1>3 DEF IInv

-----------------------------------------------------------------------------
(***************************************************************************)
(* The sessions.  They change in five ways: not at all or by one that is   *)
(* created, by the two steps of an end, by the two steps of a login.       *)
(***************************************************************************)
SameAttr(x) == /\ (pc'[x] = "attr") <=> (pc[x] = "attr")
               /\ pc[x] = "attr" => sess'[x] = sess[x] /\ usr'[x] = usr[x]
SameBind(x) == pc'[x] \in {"put", "attr"} => pc[x] \in {"put", "attr"} /\ sess'[x] = sess[x]

LEMMA SameEntered ==
  ASSUME bound' = bound, \A x \in Thread : SameAttr(x), NEW s
  PROVE  Entered(s)' = Entered(s)
  BY DEF SameAttr, Entered, Binding

LEMMA SessionsKept ==
  ASSUME SessInv, UNCHANGED <<loginUsers, bound, ending, torn>>,
         \/ UNCHANGED <<fresh, valid>>
         \/ \E s \in fresh : valid' = valid \cup {s} /\ fresh' = fresh \ {s},
         \A x \in Thread : SameAttr(x),
         \A x \in Thread : SameBind(x) \/ sess'[x] \in valid'
  PROVE  SessInv' /\ \A s \in Session : Entered(s)' = Entered(s)
<1>1. \A s \in Session : Entered(s)' = Entered(s)
  BY SameEntered
<1>2. SessType' /\ valid \subseteq valid' /\ valid' \subseteq valid \cup fresh
  BY DEF SessInv, SessType
<1>3. \A s \in fresh : Entered(s) = {} /\ ~LoggedIn(s) /\ bound[s] = {}
  <2> SUFFICES ASSUME NEW s \in fresh PROVE Entered(s) = {} /\ ~LoggedIn(s) /\ bound[s] = {}
    OBVIOUS
  <2>1. bound[s] = {} /\ ~LoggedIn(s) /\ s \notin valid \cup torn
    BY DEF SessInv, SessType, Dead
  <2>2. Binding(s) = {}
    BY <2>1 DEF SessInv, Bindings, Binding
  <2>3. QED
    BY <2>1, <2>2 DEF Entered
<1>4. Alive'
  <2> SUFFICES ASSUME NEW s \in valid' \cup ending'
               PROVE  IF Entered(s)' = {} THEN ~LoggedIn(s)' ELSE loginUsers'[s] \in Entered(s)'
    BY DEF Alive
  <2>1. s \in Session /\ Entered(s)' = Entered(s) /\ (LoggedIn(s)' <=> LoggedIn(s))
    BY <1>1, <1>2 DEF SessType, LoggedIn
  <2>2. CASE s \in fresh
    BY <1>3, <2>1, <2>2
  <2>3. CASE s \in valid \cup ending
    BY <2>1, <2>3 DEF SessInv, Alive
  <2>4. QED
    BY <1>2, <2>2, <2>3
<1>5. Dead'
  BY <1>2 DEF SessInv, Dead, LoggedIn
<1>6. Bindings'
  BY <1>2 DEF SessInv, Bindings, SameBind
<1>7. QED
  BY <1>1, <1>2, <1>4, <1>5, <1>6 DEF SessInv

\* The first step of an end: what the session leaves is still there.
LEMMA SessionInvalid ==
  ASSUME SessInv, NEW s \in Session, Invalidate(s),
         \A x \in Thread : SameAttr(x), \A x \in Thread : SameBind(x)
  PROVE  SessInv' /\ \A r \in Session : Entered(r)' = Entered(r)
<1>1. /\ s \in valid /\ valid' = valid \ {s} /\ ending' = ending \cup {s}
      /\ torn' = IF Binding(s) = {} THEN torn ELSE torn \cup {s}
      /\ UNCHANGED <<loginUsers, fresh, bound>>
  BY DEF Invalidate
<1>2. \A r \in Session : Entered(r)' = Entered(r)
  BY <1>1, SameEntered
<1>3. SessType' /\ torn \subseteq torn' /\ valid' \cup ending' = valid \cup ending
  BY <1>1 DEF SessInv, SessType
<1>4. Alive'
  BY <1>1, <1>2, <1>3 DEF SessInv, SessType, Alive, LoggedIn
<1>5. Dead'
  BY <1>1, <1>3 DEF SessInv, Dead, LoggedIn
<1>6. Bindings'
  <2> SUFFICES ASSUME NEW x \in Thread, pc'[x] \in {"put", "attr"}
               PROVE  sess'[x] \in valid' \cup torn'
    BY DEF Bindings
  <2>1. pc[x] \in {"put", "attr"} /\ sess'[x] = sess[x] /\ sess[x] \in valid \cup torn
    BY DEF SameBind, SessInv, Bindings
  <2>2. CASE sess[x] = s
    <3>1. x \in Binding(s)
      BY <2>1, <2>2 DEF Binding
    <3>2. QED
      BY <1>1, <2>1, <2>2, <3>1
  <2>3. QED
    BY <1>1, <1>3, <2>1, <2>2
<1>7. QED
  BY <1>2, <1>3, <1>4, <1>5, <1>6 DEF SessInv

\* The second: what is bound by now takes the entry along.
LEMMA SessionUnbound ==
  ASSUME SessInv, WebType, Meeting, NEW s \in Session, Unbind(s),
         \A x \in Thread : SameAttr(x), \A x \in Thread : SameBind(x)
  PROVE  /\ SessInv'
         /\ \A r \in Session \ {s} : Entered(r)' = Entered(r) /\ loginUsers'[r] = loginUsers[r]
         /\ loginUsers'[s] \in {loginUsers[s], NoUser}
         /\ \A x \in Thread : Open(x) /\ pc[x] # "attr" /\ usr[x] \notin met /\ usr[x] \in Entered(s)
               => loginUsers'[s] # usr[x]
<1>1. /\ s \in ending /\ ending' = ending \ {s}
      /\ loginUsers' = [loginUsers EXCEPT ![s] = IF bound[s] # {} THEN NoUser ELSE loginUsers[s]]
      /\ bound' = [bound EXCEPT ![s] = {}]
      /\ UNCHANGED <<fresh, valid, torn>>
  BY DEF Unbind, ValueUnbound
<1>2. /\ SessType'
      /\ \A r \in Session \ {s} : bound'[r] = bound[r] /\ loginUsers'[r] = loginUsers[r]
      /\ bound'[s] = {} /\ loginUsers'[s] = IF bound[s] # {} THEN NoUser ELSE loginUsers[s]
  <2>1. loginUsers \in [Session -> User \cup {NoUser}] /\ bound \in [Session -> SUBSET User]
    BY DEF SessInv, SessType
  <2>2. loginUsers' \in [Session -> User \cup {NoUser}] /\ bound' \in [Session -> SUBSET User]
    BY <1>1, <2>1
  <2>3. QED
    BY <1>1, <2>1, <2>2 DEF SessInv, SessType
<1>3. \A r \in Session \ {s} : Entered(r)' = Entered(r)
  BY <1>2 DEF SameAttr, Entered, Binding
<1>4. Alive'
  <2> SUFFICES ASSUME NEW r \in valid' \cup ending'
               PROVE  IF Entered(r)' = {} THEN ~LoggedIn(r)' ELSE loginUsers'[r] \in Entered(r)'
    BY DEF Alive
  <2>1. r \in Session /\ r # s /\ r \in valid \cup ending
    BY <1>1 DEF SessInv, SessType
  <2>2. Entered(r)' = Entered(r) /\ loginUsers'[r] = loginUsers[r] /\ (LoggedIn(r)' <=> LoggedIn(r))
    BY <1>2, <1>3, <2>1 DEF LoggedIn
  <2>3. QED
    BY <2>1, <2>2 DEF SessInv, Alive
<1>5. Dead'
  <2> SUFFICES ASSUME NEW r \in Session, r \notin valid' \cup ending' \cup torn'
               PROVE  bound'[r] = {} /\ loginUsers'[r] = NoUser
    BY DEF Dead, LoggedIn
  <2>1. CASE r # s
    BY <1>1, <1>2, <2>1 DEF SessInv, Dead, LoggedIn
  <2>2. CASE r = s
    <3>1. s \notin valid \cup torn
      BY <1>1, <2>2 DEF SessInv, SessType
    <3>2. Binding(s) = {}
      BY <3>1 DEF SessInv, Bindings, Binding
    <3>3. bound[s] = {} => Entered(s) = {}
      BY <3>2 DEF Entered
    <3>4. bound[s] = {} => loginUsers[s] = NoUser
      BY <1>1, <3>3 DEF SessInv, Alive, LoggedIn
    <3>5. QED
      BY <1>2, <2>2, <3>4
  <2>3. QED
    BY <2>1, <2>2
<1>6. Bindings'
  BY <1>1 DEF SessInv, Bindings, SameBind
<1>7. ASSUME NEW x \in Thread, Open(x), pc[x] # "attr", usr[x] \notin met, usr[x] \in Entered(s)
      PROVE  loginUsers'[s] # usr[x]
  <2>1. usr[x] \in bound[s]
    <3>1. SUFFICES ASSUME NEW y \in Binding(s), pc[y] = "attr", usr[y] = usr[x] PROVE FALSE
      BY <1>7 DEF Entered
    <3>2. y \in Thread /\ y # x /\ Open(y)
      BY <1>7, <3>1 DEF Binding, Open, Answer
    <3>3. QED
      BY <1>7, <3>1, <3>2 DEF Meeting
  <2>2. loginUsers'[s] = NoUser /\ usr[x] \in User
    BY <1>2, <2>1 DEF WebType
  <2>3. QED
    BY <2>2, NoneAssumption
<1>8. QED
  BY <1>2, <1>3, <1>4, <1>5, <1>6, <1>7 DEF SessInv

\* The first step of a login: the entry, under a user whose login is about to store it.
LEMMA SessionEntered ==
  ASSUME SessInv, WebType, NEW t \in Thread, pc[t] = "put",
         UNCHANGED <<fresh, valid, ending, bound, torn, usr, sess>>,
         pc' = [pc EXCEPT ![t] = "attr"],
         loginUsers' = [loginUsers EXCEPT ![sess[t]] =
                           IF usr[t] \in bound[sess[t]] THEN loginUsers[sess[t]] ELSE usr[t]]
  PROVE  /\ SessInv' /\ \A s \in Session : Entered(s) \subseteq Entered(s)'
         /\ sess[t] \in Session
         /\ loginUsers' = loginUsers \/ loginUsers' = [loginUsers EXCEPT ![sess[t]] = usr[t]]
<1> DEFINE q == sess[t]
<1>1. q \in Session /\ q \in valid \cup torn
  BY DEF SessInv, SessType, Bindings
<1>2. loginUsers' = loginUsers \/ loginUsers' = [loginUsers EXCEPT ![q] = usr[t]]
  <2>1. CASE usr[t] \in bound[q]
    BY <1>1, <2>1 DEF SessInv, SessType
  <2>2. CASE usr[t] \notin bound[q]
    BY <2>2
  <2>3. QED
    BY <2>1, <2>2
<1>3. /\ pc'[t] = "attr" /\ usr[t] \in User /\ \A x \in Thread \ {t} : pc'[x] = pc[x]
      /\ loginUsers \in [Session -> User \cup {NoUser}]
  BY DEF WebType, SessInv, SessType
<1>4. SessType'
  BY <1>1, <1>2, <1>3 DEF SessInv, SessType
<1>5. \A s \in Session : Entered(s) \subseteq Entered(s)'
  BY <1>3 DEF Entered, Binding
<1>6. \A s \in Session \ {q} : Entered(s)' = Entered(s) /\ loginUsers'[s] = loginUsers[s]
  BY <1>2, <1>3 DEF Entered, Binding
<1>7. usr[t] \in Entered(q)'
  BY <1>3 DEF Entered, Binding
<1>8. Alive'
  <2> SUFFICES ASSUME NEW s \in valid \cup ending
               PROVE  IF Entered(s)' = {} THEN ~LoggedIn(s)' ELSE loginUsers'[s] \in Entered(s)'
    BY DEF Alive
  <2>1. s \in Session
    BY DEF SessInv, SessType
  <2>2. CASE s # q
    BY <1>6, <2>1, <2>2 DEF SessInv, Alive, LoggedIn
  <2>3. CASE s = q /\ usr[t] \notin bound[q]
    <3>1. loginUsers'[q] = usr[t]
      BY <1>1, <1>3, <2>3
    <3>2. QED
      BY <1>7, <2>3, <3>1
  <2>4. CASE s = q /\ usr[t] \in bound[q]
    <3>1. usr[t] \in Entered(q)
      BY <1>3, <2>4 DEF Entered
    <3>2. loginUsers[q] \in Entered(q)
      BY <2>4, <3>1 DEF SessInv, Alive
    <3>3. loginUsers'[q] = loginUsers[q]
      BY <1>1, <1>3, <2>4
    <3>4. QED
      BY <1>1, <1>5, <1>7, <2>4, <3>2, <3>3
  <2>5. QED
    BY <2>2, <2>3, <2>4
<1>9. Dead'
  BY <1>1, <1>6 DEF SessInv, Dead, LoggedIn
<1>10. Bindings'
  BY <1>3 DEF SessInv, Bindings
<1>11. QED
  BY <1>1, <1>2, <1>4, <1>5, <1>8, <1>9, <1>10 DEF SessInv

\* The second: the attribute.
LEMMA SessionStored ==
  ASSUME SessInv, WebType, NEW t \in Thread, pc[t] = "attr",
         UNCHANGED <<loginUsers, fresh, valid, ending, torn, usr, sess>>,
         pc' = [pc EXCEPT ![t] = "rights"],
         bound' = [bound EXCEPT ![sess[t]] = @ \cup {usr[t]}]
  PROVE  SessInv' /\ \A s \in Session : Entered(s)' = Entered(s)
<1> DEFINE q == sess[t]
<1>1. q \in Session /\ q \in valid \cup torn
  BY DEF SessInv, SessType, Bindings
<1>2. /\ pc'[t] = "rights" /\ usr[t] \in User /\ \A x \in Thread \ {t} : pc'[x] = pc[x]
      /\ bound \in [Session -> SUBSET User]
  BY DEF WebType, SessInv, SessType
<1>3. bound'[q] = bound[q] \cup {usr[t]} /\ \A s \in Session \ {q} : bound'[s] = bound[s]
  BY <1>1, <1>2
<1>4. SessType'
  BY <1>1, <1>2 DEF SessInv, SessType
<1>5. ASSUME NEW s \in Session, NEW u \in User
      PROVE  u \in Entered(s)' <=> u \in Entered(s)
  <2>1. u \in Entered(s) <=> \/ u \in bound[s]
                             \/ \E x \in Thread : pc[x] = "attr" /\ sess[x] = s /\ usr[x] = u
    BY DEF Entered, Binding
  <2>2. u \in Entered(s)' <=> \/ u \in bound'[s]
                              \/ \E x \in Thread : pc'[x] = "attr" /\ sess[x] = s /\ usr[x] = u
    BY DEF Entered, Binding
  <2>3. CASE s # q
    BY <1>2, <1>3, <2>1, <2>2, <2>3
  <2>4. CASE s = q /\ u = usr[t]
    BY <1>2, <1>3, <2>1, <2>2, <2>4
  <2>5. CASE s = q /\ u # usr[t]
    BY <1>2, <1>3, <2>1, <2>2, <2>5
  <2>6. QED
    BY <2>3, <2>4, <2>5
<1>6. \A s \in Session : Entered(s)' = Entered(s)
  <2>1. \A s \in Session : Entered(s) \subseteq User /\ Entered(s)' \subseteq User
    BY DEF Entered
  <2>2. QED
    BY <1>5, <2>1
<1>7. Alive'
  BY <1>6 DEF SessInv, SessType, Alive, LoggedIn
<1>8. Dead'
  BY <1>1, <1>3 DEF SessInv, Dead, LoggedIn
<1>9. Bindings'
  BY <1>2 DEF SessInv, Bindings
<1>10. QED
  BY <1>4, <1>6, <1>7, <1>8, <1>9 DEF SessInv

-----------------------------------------------------------------------------
(***************************************************************************)
(* The web threads.                                                        *)
(***************************************************************************)
Same(x) == /\ pc'[x] = pc[x] /\ usr'[x] = usr[x] /\ todo'[x] = todo[x] /\ key'[x] = key[x]
           /\ sess'[x] = sess[x]

\* What a step may do to the sessions under a login: it does not bring one back to life,
\* does not forget who has logged into a live one, writes the user of the login nowhere, and
\* what it takes from a session of that user it takes from the table.
Gentle(x) ==
    /\ fresh' \subseteq fresh /\ met \subseteq met'
    /\ valid' \cup ending' \subseteq valid \cup ending \cup fresh
    /\ \A s \in (valid' \cup ending') \ fresh : Entered(s) \subseteq Entered(s)'
    /\ pc[x] = "unbind" => key[x] \in ending'
    /\ \A s \in Session : loginUsers'[s] = usr[x] /\ usr[x] \notin met' => loginUsers[s] = usr[x]
    /\ \A s \in (valid \cup ending) \ (valid' \cup ending') :
          usr[x] \in Entered(s) /\ usr[x] \notin met' /\ pc[x] = "end" => loginUsers'[s] # usr[x]

LEMMA OtherThread ==
  ASSUME WebInv, SessType, NEW x \in Thread, Same(x), Open(x) => Gentle(x)
  PROVE  Killing(x)' /\ Clearing(x)'
<1>0. SUFFICES ASSUME Open(x) PROVE Killing(x)' /\ Clearing(x)'
  BY DEF Same, Open, Answer, WebInv, WebType, PC, Killing, Clearing
<1> USE <1>0
<1>1. Killing(x) /\ Clearing(x)
  BY DEF WebInv
<1>2. Killing(x)'
  BY <1>1 DEF Killing, Same, Gentle
<1>3. Clearing(x)'
  <2> SUFFICES ASSUME usr'[x] \notin met'
               PROVE  /\ pc'[x] \in {"scan", "kill", "end", "unbind"} => Ahead(x)'
                      /\ pc'[x] = "end" /\ key'[x] \notin valid' \cup ending'
                            => loginUsers'[key'[x]] # usr'[x]
                      /\ pc'[x] \in {"bind", "put"} => Cleared(x)'
    BY DEF Clearing
  <2>1. usr[x] \notin met /\ \A s \in Session : loginUsers'[s] = usr[x] => loginUsers[s] = usr[x]
    BY DEF Same, Gentle
  <2>2. pc'[x] \in {"scan", "kill", "end", "unbind"} => Ahead(x)'
    BY <1>1, <2>1 DEF Clearing, Ahead, Same
  <2>3. pc'[x] \in {"bind", "put"} => Cleared(x)'
    BY <1>1, <2>1 DEF Clearing, Cleared, Same
  <2>4. ASSUME pc'[x] = "end", key'[x] \notin valid' \cup ending'
        PROVE  loginUsers'[key'[x]] # usr'[x]
    <3>1. key[x] \in Session /\ pc[x] = "end" /\ key'[x] = key[x] /\ usr'[x] = usr[x]
      BY <1>1, <2>4 DEF Killing, Same
    <3>2. CASE key[x] \in valid \cup ending
      BY <1>1, <2>1, <2>4, <3>1, <3>2 DEF Killing, Gentle, Same
    <3>3. CASE key[x] \notin valid \cup ending
      BY <1>1, <2>1, <3>1, <3>3 DEF Clearing
    <3>4. QED
      BY <3>2, <3>3
  <2>5. QED
    BY <2>2, <2>3, <2>4
<1>4. QED
  BY <1>2, <1>3

LEMMA MeetingKept ==
  ASSUME Meeting, usr' = usr, met' = met, \A x \in Thread : Open(x)' => Open(x)
  PROVE  Meeting'
  BY DEF Meeting

\* A step that is no login's own.
LEMMA NoThread ==
  ASSUME IInv, SessInv', UNCHANGED <<pc, usr, todo, key, sess, met>>,
         cookie' \in [Browser -> Session \cup {NoSession}],
         \A x \in Thread : Gentle(x)
  PROVE  IInv'
<1>1. WebType' /\ Meeting' /\ Solo'
  BY MeetingKept DEF IInv, WebInv, WebType, Open, Solo
<1>2. \A x \in Thread : Killing(x)' /\ Clearing(x)'
  BY OtherThread DEF IInv, SessInv, Same
<1>3. QED
  BY <1>1, <1>2 DEF IInv, WebInv

\* A step of the login t.
LEMMA OneThread ==
  ASSUME IInv, SessInv', WebType', NEW t \in Thread, usr' = usr, met' = met,
         \A x \in Thread \ {t} : Same(x) /\ (Open(x) => Gentle(x)),
         Open(t)' => Open(t), pc'[t] = "unbind" => key'[t] \notin ending,
         Killing(t)', Clearing(t)'
  PROVE  IInv'
<1>1. \A x \in Thread : Open(x)' => Open(x)
  BY DEF Same, Open
<1>2. Meeting'
  BY <1>1, MeetingKept DEF IInv, WebInv
<1>3. \A x \in Thread \ {t} : Killing(x)' /\ Clearing(x)'
  BY OtherThread DEF IInv, SessInv
<1>4. Solo'
  BY DEF IInv, WebInv, Solo, Killing, Same
<1>5. QED
  BY <1>2, <1>3, <1>4 DEF IInv, WebInv

-----------------------------------------------------------------------------
(***************************************************************************)
(* The actions.                                                            *)
(***************************************************************************)
\* Sessions that stay, or one more: gentle to everybody.
LEMMA KeptIsGentle ==
  ASSUME SessType, UNCHANGED <<loginUsers, ending, met>>,
         \/ UNCHANGED <<fresh, valid>>
         \/ \E s \in fresh : valid' = valid \cup {s} /\ fresh' = fresh \ {s},
         \A s \in Session : Entered(s)' = Entered(s),
         NEW x \in Thread, Killing(x)
  PROVE  Gentle(x)
  BY DEF SessType, Gentle, Killing

LEMMA CreatedBy ==
  ASSUME NEW s \in Session, NEW s0, GetSession(s0, s), valid' = valid \cup {s}
  PROVE  /\ \/ UNCHANGED <<fresh, valid>>
            \/ \E r \in fresh : valid' = valid \cup {r} /\ fresh' = fresh \ {r}
         /\ s \in valid'
  BY DEF GetSession

LEMMA PreHandleInv == ASSUME IInv, NEW b \in Browser, PreHandle(b) PROVE IInv'
<1>1. /\ UNCHANGED <<loginUsers, bound, ending, torn, pc, usr, todo, key, sess, met>>
      /\ \E s \in fresh : valid' = valid \cup {s} /\ fresh' = fresh \ {s}
      /\ cookie' \in [Browser -> Session \cup {NoSession}]
  BY DEF PreHandle, webVars, histVars, IInv, WebInv, WebType, SessInv, SessType
<1>2. SessInv' /\ \A s \in Session : Entered(s)' = Entered(s)
  BY <1>1, SessionsKept DEF IInv, SameAttr, SameBind
<1>3. \A x \in Thread : Gentle(x)
  BY <1>1, <1>2, KeptIsGentle DEF IInv, SessInv, WebInv
<1>4. QED
  BY <1>1, <1>2, <1>3, NoThread

LEMMA InvalidIsGentle ==
  ASSUME SessType, NEW s \in Session, Invalidate(s), met' = met,
         \A r \in Session : Entered(r)' = Entered(r),
         NEW x \in Thread, Killing(x)
  PROVE  Gentle(x)
  BY DEF SessType, Gentle, Killing, Invalidate

LEMMA ExpireInv == ASSUME IInv, NEW s \in Session, Expire(s) PROVE IInv'
<1>1. UNCHANGED <<pc, usr, todo, key, sess, met, cookie>> /\ Invalidate(s)
  BY DEF Expire, webVars
<1>2. SessInv' /\ \A r \in Session : Entered(r)' = Entered(r)
  BY <1>1, SessionInvalid DEF IInv, SameAttr, SameBind
<1>3. \A x \in Thread : Gentle(x)
  BY <1>1, <1>2, InvalidIsGentle DEF IInv, SessInv, WebInv
<1>4. QED
  BY <1>1, <1>2, <1>3, NoThread DEF IInv, WebInv, WebType

\* An end spares the threads that are not about to do the same.
LEMMA UnboundIsGentle ==
  ASSUME SessType, NEW s \in Session, Unbind(s), met' = met,
         \A r \in Session \ {s} : Entered(r)' = Entered(r) /\ loginUsers'[r] = loginUsers[r],
         loginUsers'[s] \in {loginUsers[s], NoUser},
         NEW x \in Thread, usr[x] \in User, Killing(x), pc[x] = "unbind" => key[x] # s,
         pc[x] = "end" /\ usr[x] \notin met /\ usr[x] \in Entered(s) => loginUsers'[s] # usr[x]
  PROVE  Gentle(x)
<1>1. /\ s \in ending /\ ending' = ending \ {s} /\ UNCHANGED <<fresh, valid, torn>>
      /\ s \notin valid /\ ending \subseteq Session /\ valid \subseteq Session
  BY DEF Unbind, SessType
<1>2. \A r \in Session : loginUsers'[r] = usr[x] => loginUsers[r] = usr[x]
  BY NoneAssumption
<1>3. QED
  BY <1>1, <1>2 DEF Gentle, Killing

LEMMA ExpiredInv == ASSUME IInv, NEW s \in Session, Expired(s) PROVE IInv'
<1>1. /\ UNCHANGED <<pc, usr, todo, key, sess, met, cookie>> /\ Unbind(s)
      /\ \A x \in Thread : pc[x] = "unbind" => key[x] # s
  BY DEF Expired, webVars
<1>2. /\ SessInv'
      /\ \A r \in Session \ {s} : Entered(r)' = Entered(r) /\ loginUsers'[r] = loginUsers[r]
      /\ loginUsers'[s] \in {loginUsers[s], NoUser}
      /\ \A x \in Thread : Open(x) /\ pc[x] # "attr" /\ usr[x] \notin met /\ usr[x] \in Entered(s)
            => loginUsers'[s] # usr[x]
  BY <1>1, SessionUnbound DEF IInv, WebInv, SameAttr, SameBind
<1>3. ASSUME NEW x \in Thread PROVE Gentle(x)
  <2>1. usr[x] \in User /\ Killing(x) /\ SessType
    BY DEF IInv, SessInv, WebInv, WebType
  <2>2. pc[x] = "end" => Open(x)
    BY DEF Open, Answer
  <2>3. QED
    BY <1>1, <1>2, <2>1, <2>2, UnboundIsGentle
<1>4. QED
  BY <1>1, <1>2, <1>3, NoThread DEF IInv, WebInv, WebType

LEMMA SubmitInv ==
  ASSUME IInv, NEW t \in Thread, NEW b \in Browser, NEW u \in User, Submit(t, b, u)
  PROVE  IInv'
<1>1. /\ ~Open(t) /\ pc' = [pc EXCEPT ![t] = "count"] /\ usr' = [usr EXCEPT ![t] = u]
      /\ sess' = [sess EXCEPT ![t] = cookie[b]]
      /\ UNCHANGED <<loginUsers, bound, fresh, valid, ending, torn, todo, key, cookie>>
      /\ met' = IF \E x \in Thread : Open(x) /\ usr[x] = u THEN met \cup {u} ELSE met
  BY DEF Submit, Goto, sessVars
<1>2. /\ pc'[t] = "count" /\ usr'[t] = u /\ pc[t] \notin {"put", "attr"} /\ met \subseteq met'
      /\ \A x \in Thread \ {t} : Same(x)
  BY <1>1 DEF IInv, WebInv, WebType, Same, Open, Answer
<1>3. WebType'
  BY <1>1 DEF IInv, WebInv, WebType, PC
<1>4. \A x \in Thread : SameAttr(x) /\ SameBind(x)
  BY <1>2 DEF Same, SameAttr, SameBind
<1>5. SessInv' /\ \A s \in Session : Entered(s)' = Entered(s)
  BY <1>1, <1>4, SessionsKept DEF IInv
<1>6. ASSUME NEW x \in Thread \ {t} PROVE Killing(x)' /\ Clearing(x)'
  <2>1. Gentle(x)
    BY <1>1, <1>2, <1>5 DEF IInv, SessInv, SessType, WebInv, Gentle, Killing
  <2>2. QED
    BY <1>2, <2>1, OtherThread DEF IInv, SessInv
<1>7. Killing(t)' /\ Clearing(t)'
  BY <1>2 DEF Killing, Clearing
<1>8. Meeting'
  <2> SUFFICES ASSUME NEW x \in Thread, NEW y \in Thread, x # y, Open(x)', Open(y)',
                      usr'[x] = usr'[y]
               PROVE  usr'[x] \in met'
    BY DEF Meeting
  <2>1. CASE x # t /\ y # t
    BY <1>2, <2>1 DEF IInv, WebInv, Meeting, Open, Same
  <2>2. CASE x = t
    BY <1>1, <1>2, <2>2 DEF Open, Same
  <2>3. CASE y = t
    BY <1>1, <1>2, <2>3 DEF Open, Same
  <2>4. QED
    BY <2>1, <2>2, <2>3
<1>9. Solo'
  BY <1>2 DEF IInv, WebInv, Solo, Same
<1>10. QED
  BY <1>3, <1>5, <1>6, <1>7, <1>8, <1>9 DEF IInv, WebInv

\* A step of one login that leaves the sessions alone.
LEMMA QuietInv ==
  ASSUME IInv, NEW t \in Thread, UNCHANGED <<sessVars, cookie, usr, from, sess, torn, met>>,
         \A x \in Thread \ {t} : Same(x), WebType', Open(t),
         pc[t] # "attr", pc'[t] \notin {"put", "attr", "unbind"},
         Killing(t)', Clearing(t)'
  PROVE  IInv'
<1>1. \A x \in Thread : SameAttr(x) /\ SameBind(x)
  BY DEF Same, SameAttr, SameBind
<1>2. SessInv' /\ \A s \in Session : Entered(s)' = Entered(s)
  BY <1>1, SessionsKept DEF IInv, sessVars
<1>3. \A x \in Thread \ {t} : Gentle(x)
  BY <1>2, KeptIsGentle DEF IInv, SessInv, WebInv, sessVars
<1>4. QED
  BY <1>2, <1>3, OneThread

LEMMA CountInv == ASSUME IInv, NEW t \in Thread, Count(t) PROVE IInv'
<1>1. /\ pc[t] = "count" /\ UNCHANGED <<sessVars, cookie, usr, from, sess, key, torn, met>>
      /\ \/ ~Somebody /\ pc' = [pc EXCEPT ![t] = "bind"] /\ todo' = todo
         \/ pc' = [pc EXCEPT ![t] = "scan"] /\ todo' = [todo EXCEPT ![t] = Table]
  BY DEF Count, Goto, histVars
<1>2. WebType'
  BY <1>1 DEF IInv, WebInv, WebType, PC, Table
<1>3. ~Somebody => Table = {}
  <2>1. IsFiniteSet(Table)
    BY SomeAssumption, FS_Subset DEF Table
  <2>2. QED
    BY <2>1, FS_EmptySet, FS_CardinalityType DEF Somebody
<1>4. \A s \in Session : loginUsers[s] = usr[t] => s \in Table
  BY NoneAssumption DEF IInv, WebInv, WebType, Table, LoggedIn
<1>5. Killing(t)' /\ Clearing(t)' /\ pc'[t] \notin {"put", "attr", "unbind"}
  BY <1>1, <1>2, <1>3, <1>4 DEF IInv, WebInv, WebType, Killing, Clearing, Ahead, Cleared, sessVars
<1>6. \A x \in Thread \ {t} : Same(x)
  BY <1>1 DEF IInv, WebInv, WebType, Same
<1>7. QED
  BY <1>1, <1>2, <1>5, <1>6, QuietInv DEF Open, Answer

LEMMA GetInv == ASSUME IInv, NEW t \in Thread, NEW s \in Session, Get(t, s) PROVE IInv'
<1>1. /\ pc[t] = "scan" /\ UNCHANGED <<sessVars, cookie, usr, from, sess, torn, met>>
      /\ todo' = [todo EXCEPT ![t] = @ \ {s}]
      /\ \/ loginUsers[s] = usr[t] /\ pc' = [pc EXCEPT ![t] = "kill"] /\ key' = [key EXCEPT ![t] = s]
         \/ loginUsers[s] # usr[t] /\ pc' = pc /\ key' = key
         \/ pc' = [pc EXCEPT ![t] = "error"] /\ key' = key
  <2>1. ~LoggedIn(s) => loginUsers[s] # usr[t]
    BY NoneAssumption DEF IInv, WebInv, WebType, LoggedIn
  <2>2. QED
    BY <2>1 DEF Get, Goto, Matches, histVars
<1>2. WebType'
  BY <1>1 DEF IInv, WebInv, WebType, PC, Answer
<1>3. \A x \in Thread \ {t} : Same(x)
  BY <1>1 DEF IInv, WebInv, WebType, Same
<1>4. \A r \in Session : Entered(r)' = Entered(r)
  <2>1. \A x \in Thread : SameAttr(x)
    BY <1>1, <1>2 DEF WebType, SameAttr, IInv, WebInv
  <2>2. QED
    BY <1>1, <2>1, SameEntered DEF sessVars
<1>5. loginUsers[s] = usr[t] => s \notin fresh /\ (s \in valid \cup ending => usr[t] \in Entered(s))
  <2>1. loginUsers[s] = usr[t] => LoggedIn(s)
    BY NoneAssumption DEF IInv, WebInv, WebType, LoggedIn
  <2>2. QED
    BY <2>1 DEF IInv, SessInv, SessType, Alive, Dead
<1>6. Killing(t)' /\ pc'[t] \notin {"put", "attr", "unbind"}
  BY <1>1, <1>4, <1>5 DEF IInv, WebInv, WebType, Killing, sessVars
<1>7. Clearing(t)'
  BY <1>1 DEF IInv, WebInv, WebType, Clearing, Ahead, Cleared, sessVars
<1>8. QED
  BY <1>1, <1>2, <1>3, <1>6, <1>7, QuietInv DEF Open, Answer

LEMMA ScanEndInv == ASSUME IInv, NEW t \in Thread, ScanEnd(t) PROVE IInv'
<1>1. /\ pc[t] = "scan" /\ todo[t] = {} /\ pc' = [pc EXCEPT ![t] = "bind"]
      /\ UNCHANGED <<sessVars, cookie, usr, from, sess, todo, key, torn, met>>
  BY DEF ScanEnd, Goto, histVars
<1>2. WebType' /\ \A x \in Thread \ {t} : Same(x)
  BY <1>1 DEF IInv, WebInv, WebType, PC, Same
<1>3. Killing(t)' /\ Clearing(t)' /\ pc'[t] \notin {"put", "attr", "unbind"}
  BY <1>1 DEF IInv, WebInv, WebType, Killing, Clearing, Ahead, Cleared, sessVars
<1>4. QED
  BY <1>1, <1>2, <1>3, QuietInv DEF Open, Answer

LEMMA KillInv == ASSUME IInv, NEW t \in Thread, Kill(t) PROVE IInv'
<1>1. /\ pc[t] = "kill" /\ UNCHANGED <<sessVars, cookie, usr, from, sess, todo, key, torn, met>>
      /\ \/ key[t] \in valid /\ pc' = [pc EXCEPT ![t] = "end"]
         \/ pc' = [pc EXCEPT ![t] = "error"]
  BY DEF Kill, Goto, histVars
<1>2. WebType' /\ \A x \in Thread \ {t} : Same(x)
  BY <1>1 DEF IInv, WebInv, WebType, PC, Answer, Same
<1>3. \A r \in Session : Entered(r)' = Entered(r)
  <2>1. \A x \in Thread : SameAttr(x)
    BY <1>1 DEF IInv, WebInv, WebType, SameAttr
  <2>2. QED
    BY <1>1, <2>1, SameEntered DEF sessVars
<1>4. Killing(t)' /\ pc'[t] \notin {"put", "attr", "unbind"}
  BY <1>1, <1>3 DEF IInv, WebInv, WebType, Killing, sessVars
<1>5. Clearing(t)'
  BY <1>1 DEF IInv, WebInv, WebType, Clearing, Ahead, Cleared, sessVars
<1>6. QED
  BY <1>1, <1>2, <1>4, <1>5, QuietInv DEF Open, Answer

LEMMA EndInv == ASSUME IInv, NEW t \in Thread, End(t) PROVE IInv'
<1>1. /\ pc[t] = "end" /\ UNCHANGED <<cookie, usr, from, sess, todo, key, met>>
      /\ key[t] \in Session /\ Killing(t) /\ Clearing(t)
  BY DEF End, IInv, WebInv, Killing
<1>2. CASE Invalidate(key[t]) /\ Goto(t, "unbind")
  <2>1. pc' = [pc EXCEPT ![t] = "unbind"]
    BY <1>2 DEF Goto
  <2>2. WebType' /\ \A x \in Thread \ {t} : Same(x)
    BY <1>1, <2>1 DEF IInv, WebInv, WebType, PC, Same
  <2>3. \A x \in Thread : SameAttr(x) /\ SameBind(x)
    BY <1>1, <2>1 DEF IInv, WebInv, WebType, SameAttr, SameBind
  <2>4. SessInv' /\ \A r \in Session : Entered(r)' = Entered(r)
    BY <1>1, <1>2, <2>3, SessionInvalid DEF IInv
  <2>5. \A x \in Thread \ {t} : Gentle(x)
    BY <1>1, <1>2, <2>4, InvalidIsGentle DEF IInv, SessInv, WebInv
  <2>6. /\ key[t] \in valid /\ key[t] \notin ending /\ key[t] \in ending' /\ UNCHANGED <<fresh, loginUsers>>
        /\ pc'[t] = "unbind"
    BY <1>2, <2>1 DEF Invalidate, IInv, WebInv, WebType, SessInv, SessType
  <2>7. Killing(t)' /\ Clearing(t)'
    BY <1>1, <2>4, <2>6 DEF Killing, Clearing, Ahead, Cleared
  <2>8. QED
    BY <1>1, <2>2, <2>4, <2>5, <2>6, <2>7, OneThread DEF Open, Answer
<1>3. CASE key[t] \notin valid \cup ending /\ Goto(t, "scan") /\ UNCHANGED <<sessVars, torn>>
  <2>1. pc' = [pc EXCEPT ![t] = "scan"]
    BY <1>3 DEF Goto
  <2>2. WebType' /\ \A x \in Thread \ {t} : Same(x)
    BY <1>1, <2>1 DEF IInv, WebInv, WebType, PC, Same
  <2>3. Killing(t)' /\ Clearing(t)' /\ pc'[t] \notin {"put", "attr", "unbind"}
    BY <1>1, <1>3, <2>1 DEF IInv, WebInv, WebType, Killing, Clearing, Ahead, Cleared, sessVars
  <2>4. QED
    BY <1>1, <1>3, <2>2, <2>3, QuietInv DEF Open, Answer
<1>4. QED
  BY <1>2, <1>3 DEF End

LEMMA EndedInv == ASSUME IInv, NEW t \in Thread, Ended(t) PROVE IInv'
<1>1. /\ pc[t] = "unbind" /\ UNCHANGED <<cookie, usr, from, sess, todo, key, met>>
      /\ key[t] \in Session /\ Killing(t) /\ Clearing(t) /\ Unbind(key[t])
      /\ pc' = [pc EXCEPT ![t] = "scan"]
  BY DEF Ended, IInv, WebInv, Killing, Goto
<1>2. WebType' /\ \A x \in Thread \ {t} : Same(x)
  BY <1>1 DEF IInv, WebInv, WebType, PC, Same
<1>3. \A x \in Thread : SameAttr(x) /\ SameBind(x)
  BY <1>1 DEF IInv, WebInv, WebType, SameAttr, SameBind
<1>4. /\ SessInv'
      /\ \A r \in Session \ {key[t]} : Entered(r)' = Entered(r) /\ loginUsers'[r] = loginUsers[r]
      /\ loginUsers'[key[t]] \in {loginUsers[key[t]], NoUser}
      /\ \A x \in Thread : Open(x) /\ pc[x] # "attr" /\ usr[x] \notin met
            /\ usr[x] \in Entered(key[t]) => loginUsers'[key[t]] # usr[x]
  BY <1>1, <1>3, SessionUnbound DEF IInv, WebInv
<1>5. key[t] \in ending /\ usr[t] \in Entered(key[t]) /\ Open(t) /\ usr[t] \in User
  BY <1>1 DEF Killing, Open, Answer, IInv, WebInv, WebType
<1>6. ASSUME NEW x \in Thread \ {t} PROVE Gentle(x)
  <2>1. usr[x] \in User /\ Killing(x) /\ SessType
    BY DEF IInv, SessInv, WebInv, WebType
  <2>2. pc[x] = "end" => Open(x)
    BY DEF Open, Answer
  <2>3. CASE pc[x] = "unbind" /\ key[x] = key[t]
    BY <1>1, <2>3 DEF Solo, IInv, WebInv
  <2>4. CASE pc[x] = "unbind" => key[x] # key[t]
    BY <1>1, <1>4, <2>1, <2>2, <2>4, UnboundIsGentle
  <2>5. QED
    BY <2>3, <2>4
<1>7. Killing(t)' /\ Clearing(t)'
  <2>1. pc'[t] = "scan" /\ usr'[t] = usr[t] /\ todo'[t] = todo[t]
    BY <1>1 DEF IInv, WebInv, WebType
  <2>2. usr[t] \notin met => \A r \in Session : loginUsers'[r] = usr[t] => r \in todo[t]
    BY <1>1, <1>4, <1>5 DEF Clearing, Ahead
  <2>3. QED
    BY <1>1, <2>1, <2>2 DEF Killing, Clearing, Ahead
<1>8. pc'[t] # "unbind" /\ \A x \in Thread \ {t} : Same(x) /\ Gentle(x)
  BY <1>1, <1>2, <1>6 DEF IInv, WebInv, WebType
<1>9. QED
  BY <1>1, <1>2, <1>4, <1>5, <1>7, <1>8, OneThread

LEMMA SetSessionInv == ASSUME IInv, NEW t \in Thread, SetSession(t) PROVE IInv'
<1>1. /\ pc[t] = "bind" /\ pc' = [pc EXCEPT ![t] = "put"]
      /\ UNCHANGED <<loginUsers, ending, bound, torn, cookie, usr, todo, key, met>>
  BY DEF SetSession, Goto, histVars
<1>2. PICK s \in Session : /\ GetSession(sess[t], s) /\ valid' = valid \cup {s}
                           /\ sess' = [sess EXCEPT ![t] = s]
  BY DEF SetSession
<1>3. /\ \/ UNCHANGED <<fresh, valid>>
         \/ \E r \in fresh : valid' = valid \cup {r} /\ fresh' = fresh \ {r}
      /\ s \in valid'
  BY <1>2, CreatedBy
<1>4. WebType' /\ \A x \in Thread \ {t} : Same(x)
  BY <1>1, <1>2 DEF IInv, WebInv, WebType, PC, Same
<1>5. sess'[t] = s /\ pc'[t] = "put"
  BY <1>1, <1>2 DEF IInv, WebInv, WebType
<1>6. /\ \A x \in Thread : SameAttr(x)
      /\ \A x \in Thread : SameBind(x) \/ sess'[x] \in valid'
  BY <1>1, <1>3, <1>4, <1>5 DEF Same, SameAttr, SameBind
<1>7. SessInv' /\ \A r \in Session : Entered(r)' = Entered(r)
  BY <1>1, <1>3, <1>6, SessionsKept DEF IInv
<1>8. \A x \in Thread \ {t} : Gentle(x)
  BY <1>1, <1>3, <1>7, KeptIsGentle DEF IInv, SessInv, WebInv
<1>9. Killing(t)' /\ Clearing(t)'
  BY <1>1, <1>5 DEF IInv, WebInv, Killing, Clearing, Cleared
<1>10. QED
  BY <1>1, <1>4, <1>5, <1>7, <1>8, <1>9, OneThread DEF Open, Answer

\* The login of t puts its user into the table: other logins of the user meet it.
LEMMA ValueBoundInv == ASSUME IInv, NEW t \in Thread, ValueBound(t) PROVE IInv'
<1>1. /\ pc[t] = "put"
      /\ UNCHANGED <<fresh, valid, ending, bound, cookie, usr, from, sess, todo, key, torn, met>>
  BY DEF ValueBound
<1>2. CASE /\ pc' = [pc EXCEPT ![t] = "attr"]
           /\ loginUsers' = [loginUsers EXCEPT ![sess[t]] =
                                IF usr[t] \in bound[sess[t]] THEN @ ELSE usr[t]]
  <2>1. WebType' /\ \A x \in Thread \ {t} : Same(x)
    BY <1>1, <1>2 DEF IInv, WebInv, WebType, PC, Same
  <2>2. pc'[t] = "attr"
    BY <1>2 DEF IInv, WebInv, WebType
  <2>3. /\ SessInv' /\ \A s \in Session : Entered(s) \subseteq Entered(s)'
        /\ sess[t] \in Session
        /\ loginUsers' = loginUsers \/ loginUsers' = [loginUsers EXCEPT ![sess[t]] = usr[t]]
    BY <1>1, <1>2, SessionEntered DEF IInv, WebInv
  <2>4. ASSUME NEW x \in Thread \ {t}, Open(x) PROVE Gentle(x)
    <3>1. Open(x) /\ usr[x] = usr[t] => usr[x] \in met
      BY <1>1 DEF IInv, WebInv, Meeting, Open, Answer
    <3>2. \A s \in Session : loginUsers'[s] = usr[x] /\ usr[x] # usr[t] => loginUsers[s] = usr[x]
      BY <2>3 DEF IInv, SessInv, SessType
    <3>3. pc[x] = "unbind" => key[x] \in ending
      BY DEF IInv, WebInv, Killing
    <3>4. QED
      BY <1>1, <2>3, <2>4, <3>1, <3>2, <3>3 DEF IInv, SessInv, SessType, Gentle
  <2>5. Killing(t)' /\ Clearing(t)'
    BY <2>2 DEF Killing, Clearing
  <2>6. QED
    BY <1>1, <2>1, <2>2, <2>3, <2>4, <2>5, OneThread DEF Open, Answer
<1>3. CASE Goto(t, "error") /\ UNCHANGED <<loginUsers, disturbed>>
  <2>1. pc' = [pc EXCEPT ![t] = "error"]
    BY <1>3 DEF Goto
  <2>2. WebType' /\ \A x \in Thread \ {t} : Same(x)
    BY <1>1, <2>1 DEF IInv, WebInv, WebType, PC, Answer, Same
  <2>3. pc'[t] = "error"
    BY <2>1 DEF IInv, WebInv, WebType
  <2>4. Killing(t)' /\ Clearing(t)'
    BY <2>3 DEF Killing, Clearing
  <2>5. QED
    BY <1>1, <1>3, <2>2, <2>3, <2>4, QuietInv DEF Open, Answer, sessVars
<1>4. QED
  BY <1>2, <1>3 DEF ValueBound, Goto

LEMMA SetAttributeInv == ASSUME IInv, NEW t \in Thread, SetAttribute(t) PROVE IInv'
<1>1. /\ pc[t] = "attr" /\ pc' = [pc EXCEPT ![t] = "rights"]
      /\ bound' = [bound EXCEPT ![sess[t]] = @ \cup {usr[t]}]
      /\ UNCHANGED <<loginUsers, fresh, valid, ending, torn, cookie, usr, sess, todo, key, met>>
  BY DEF SetAttribute, Goto, histVars
<1>2. WebType' /\ \A x \in Thread \ {t} : Same(x)
  BY <1>1 DEF IInv, WebInv, WebType, PC, Same
<1>3. pc'[t] = "rights"
  BY <1>1 DEF IInv, WebInv, WebType
<1>4. SessInv' /\ \A s \in Session : Entered(s)' = Entered(s)
  BY <1>1, SessionStored DEF IInv, WebInv
<1>5. \A x \in Thread \ {t} : Gentle(x)
  BY <1>1, <1>4, KeptIsGentle DEF IInv, SessInv, WebInv
<1>6. Killing(t)' /\ Clearing(t)'
  BY <1>3 DEF Killing, Clearing
<1>7. QED
  BY <1>1, <1>2, <1>3, <1>4, <1>5, <1>6, OneThread DEF Open, Answer

LEMMA SetRightsInv == ASSUME IInv, NEW t \in Thread, SetRights(t) PROVE IInv'
<1>1. /\ pc[t] = "rights" /\ pc' = [pc EXCEPT ![t] = "result"]
      /\ UNCHANGED <<loginUsers, ending, bound, torn, usr, todo, key, met>>
  BY DEF SetRights, Goto, histVars
<1>2. PICK s \in Session : /\ GetSession(sess[t], s) /\ valid' = valid \cup {s}
                           /\ sess' = [sess EXCEPT ![t] = s]
                           /\ cookie' = [cookie EXCEPT ![from[t]] = s]
  BY DEF SetRights
<1>3. \/ UNCHANGED <<fresh, valid>>
      \/ \E r \in fresh : valid' = valid \cup {r} /\ fresh' = fresh \ {r}
  BY <1>2, CreatedBy
<1>4. WebType' /\ \A x \in Thread \ {t} : Same(x)
  BY <1>1, <1>2 DEF IInv, WebInv, WebType, PC, Answer, Same
<1>5. pc'[t] = "result"
  BY <1>1 DEF IInv, WebInv, WebType
<1>6. \A x \in Thread : SameAttr(x) /\ SameBind(x)
  BY <1>1, <1>4, <1>5 DEF Same, SameAttr, SameBind
<1>7. SessInv' /\ \A r \in Session : Entered(r)' = Entered(r)
  BY <1>1, <1>3, <1>6, SessionsKept DEF IInv
<1>8. \A x \in Thread \ {t} : Gentle(x)
  BY <1>1, <1>3, <1>7, KeptIsGentle DEF IInv, SessInv, WebInv
<1>9. Killing(t)' /\ Clearing(t)'
  BY <1>5 DEF Killing, Clearing
<1>10. QED
  BY <1>1, <1>4, <1>5, <1>7, <1>8, <1>9, OneThread DEF Open, Answer

LEMMA NextInv == IInv /\ [Next]_vars => IInv'
<1> SUFFICES ASSUME IInv, [Next]_vars PROVE IInv'
  OBVIOUS
<1>1. ASSUME NEW b \in Browser, PreHandle(b) PROVE IInv'
  BY <1>1, PreHandleInv
<1>2. ASSUME NEW b \in Browser, Logout(b) PROVE IInv'
  <2>1. cookie[b] \in Session
    BY <1>2 DEF Logout, IInv, SessInv, SessType
  <2>2. QED
    BY <1>2, <2>1, ExpireInv DEF Logout
<1>3. ASSUME NEW s \in Session, Expire(s) \/ Expired(s) PROVE IInv'
  BY <1>3, ExpireInv, ExpiredInv
<1>4. ASSUME NEW t \in Thread, Serve(t) PROVE IInv'
  BY <1>4, CountInv, GetInv, ScanEndInv, KillInv, EndInv, EndedInv,
     SetSessionInv, ValueBoundInv, SetAttributeInv, SetRightsInv DEF Serve
<1>5. ASSUME NEW t \in Thread, NEW b \in Browser, NEW u \in User, Submit(t, b, u) PROVE IInv'
  BY <1>5, SubmitInv
<1>6. CASE UNCHANGED vars
  <2>1. UNCHANGED <<loginUsers, bound, fresh, valid, ending, torn, cookie,
                    pc, usr, sess, todo, key, met>>
    BY <1>6 DEF vars, sessVars, webVars, histVars
  <2>2. SessInv' /\ \A s \in Session : Entered(s)' = Entered(s)
    BY <2>1, SessionsKept DEF IInv, SameAttr, SameBind
  <2>3. \A x \in Thread : Gentle(x)
    BY <2>1, <2>2, KeptIsGentle DEF IInv, SessInv, WebInv
  <2>4. QED
    BY <2>1, <2>2, <2>3, NoThread DEF IInv, WebInv, WebType
<1>7. QED
  BY <1>1, <1>2, <1>3, <1>4, <1>5, <1>6 DEF Next

\* The sessions and the logins belong together as the invariant says.
THEOREM Inductive == Spec => []IInv
  BY InitInv, NextInv, PTL DEF Spec

-----------------------------------------------------------------------------
\* However many logins, logouts and expiries meet, the table names a user who did log in
\* for each live session somebody has logged into, and a dead session stays in it only if
\* it ended between the two steps of a login.
THEOREM TableAlive == Spec => []TableIsAlive
<1>1. IInv => TableIsAlive
  BY DEF IInv, SessInv, Alive, Dead, TableIsAlive, Table
<1>2. QED
  BY Inductive, <1>1, PTL

\* What the steps do to one thread: nothing, unless they are its own.
LEMMA StandsStill ==
  ASSUME IInv, NEW t \in Thread, Next, ~Serve(t),
         ~\E b \in Browser, u \in User : Submit(t, b, u)
  PROVE  pc'[t] = pc[t]
<1>1. ASSUME NEW b \in Browser, PreHandle(b) \/ Logout(b) PROVE pc' = pc
  BY <1>1 DEF PreHandle, Logout, Expire, webVars
<1>2. ASSUME NEW s \in Session, Expire(s) \/ Expired(s) PROVE pc' = pc
  BY <1>2 DEF Expire, Expired, webVars
<1>3. ASSUME NEW x \in Thread, x # t, Serve(x) PROVE pc'[t] = pc[t]
  BY <1>3 DEF Serve, Count, Get, ScanEnd, Kill, End, Ended, SetSession, ValueBound,
              SetAttribute, SetRights, Goto, IInv, WebInv, WebType
<1>4. ASSUME NEW x \in Thread, x # t, NEW b \in Browser, NEW u \in User, Submit(x, b, u)
      PROVE  pc'[t] = pc[t]
  BY <1>4 DEF Submit, Goto, IInv, WebInv, WebType
<1>5. QED
  BY <1>1, <1>2, <1>3, <1>4 DEF Next

\* A login ends only sessions its own user has logged into, although the table
\* may have changed since it was read.
THEOREM EndedByUser == Spec => EndedByItsUser
<1>1. IInv /\ [Next]_vars =>
        [\A t \in Thread : pc[t] = "end" /\ pc'[t] = "unbind" => usr[t] \in Entered(key[t])]_vars
  <2> SUFFICES ASSUME IInv, Next, NEW t \in Thread, pc[t] = "end", pc'[t] = "unbind"
               PROVE  usr[t] \in Entered(key[t])
    BY DEF vars
  <2>1. key[t] \in valid \cup ending => usr[t] \in Entered(key[t])
    BY DEF IInv, WebInv, Killing
  <2>2. Serve(t) => End(t)
    BY DEF Serve, Count, Get, ScanEnd, Kill, Ended, SetSession, ValueBound, SetAttribute, SetRights
  <2>3. End(t) => key[t] \in valid
    BY DEF End, Goto, Invalidate, IInv, WebInv, WebType
  <2>4. ASSUME NEW b \in Browser, NEW u \in User, Submit(t, b, u) PROVE FALSE
    BY <2>4 DEF Submit, Open, Answer
  <2>5. QED
    BY <2>1, <2>2, <2>3, <2>4, StandsStill
<1>2. QED
  BY Inductive, <1>1, PTL DEF Spec, EndedByItsUser

\* The login code implements SessionBook, step by step; only a user of whom two
\* logins have met can be entered twice.
THEOREM ImplementsBook == Spec => BookKept
<1>1. Init => Book!Init
  BY DEF Init, Book!Init
<1>2. IInv /\ [Next]_vars => [Book!Next \/ SecondEntry]_loginUsers
  <2> SUFFICES ASSUME IInv, [Next]_vars, loginUsers' # loginUsers
               PROVE  Book!Next \/ SecondEntry
    OBVIOUS
  <2> loginUsers \in [Session -> User \cup {NoUser}]
    BY DEF IInv, SessInv, SessType
  <2>1. ASSUME NEW s \in Session, Unbind(s) PROVE Book!Next
    <3>1. loginUsers' = [loginUsers EXCEPT ![s] = IF bound[s] # {} THEN NoUser ELSE loginUsers[s]]
      BY <2>1 DEF Unbind, ValueUnbound
    <3>2. loginUsers' = [loginUsers EXCEPT ![s] = NoUser]
      BY <3>1
    <3>3. QED
      BY <3>2 DEF Book!Next, Book!Leave
  <2>2. ASSUME NEW s \in Session, Expire(s) PROVE FALSE
    BY <2>2 DEF Expire, Invalidate
  <2>3. ASSUME NEW b \in Browser, Logout(b) PROVE FALSE
    BY <2>3 DEF Logout, Expire, Invalidate
  <2>4. ASSUME NEW t \in Thread, Ended(t) PROVE Book!Next
    <3>1. key[t] \in Session
      BY <2>4 DEF Ended, IInv, WebInv, Killing
    <3>2. QED
      BY <2>1, <2>4, <3>1 DEF Ended
  <2>5. ASSUME NEW t \in Thread, ValueBound(t) PROVE Book!Next \/ SecondEntry
    <3> DEFINE s == sess[t]
    <3>1. pc[t] = "put" /\ usr[t] \in User /\ s \in Session
      BY <2>5 DEF ValueBound, IInv, WebInv, WebType, SessInv, SessType, Bindings
    <3>2. loginUsers' = [loginUsers EXCEPT ![s] = IF usr[t] \in bound[s] THEN loginUsers[s] ELSE usr[t]]
      BY <2>5 DEF ValueBound
    <3>3. loginUsers' = [loginUsers EXCEPT ![s] = usr[t]]
      BY <3>2
    <3>4. CASE usr[t] \in met
      BY <3>1, <3>3, <3>4 DEF SecondEntry
    <3>5. CASE usr[t] \notin met
      <4>1. \A r \in Session \ {s} : loginUsers[r] # usr[t]
        BY <3>1, <3>5 DEF IInv, WebInv, Clearing, Cleared
      <4>2. Book!LoginAs(s, usr[t])
        BY <3>3, <4>1 DEF Book!LoginAs
      <4>3. QED
        BY <3>1, <4>2 DEF Book!Next
    <3>6. QED
      BY <3>4, <3>5
  <2>6. ASSUME NEW t \in Thread, Serve(t) PROVE Book!Next \/ SecondEntry
    <3>1. End(t) => loginUsers' = loginUsers
      BY DEF End, Invalidate, sessVars
    <3>2. QED
      BY <2>4, <2>5, <2>6, <3>1
         DEF Serve, Count, Get, ScanEnd, Kill, SetSession, SetAttribute, SetRights, sessVars
  <2>7. ASSUME NEW b \in Browser, PreHandle(b) PROVE FALSE
    BY <2>7 DEF PreHandle
  <2>8. ASSUME NEW t \in Thread, NEW b \in Browser, NEW u \in User, Submit(t, b, u) PROVE FALSE
    BY <2>8 DEF Submit, sessVars
  <2>9. ASSUME NEW s \in Session, Expired(s) PROVE Book!Next
    BY <2>1, <2>9 DEF Expired
  <2>10. QED
    BY <2>2, <2>3, <2>6, <2>7, <2>8, <2>9 DEF Next, vars, sessVars
<1>3. QED
  BY Inductive, <1>1, <1>2, PTL DEF Spec, BookKept

-----------------------------------------------------------------------------
(***************************************************************************)
(* Why a login fails.  A login during which no session began or ended on   *)
(* behalf of others finds the table as it was when it began, but for the   *)
(* sessions it has ended itself, and those it does not meet again: what is *)
(* ahead of its enumeration still stands in the table, the session it is   *)
(* about to end is alive or torn, and the one it binds itself to is alive. *)
(***************************************************************************)
Ending(t) == ending \subseteq {s \in {key[t]} : pc[t] = "unbind"}
CalmAt(t) ==
    /\ Open(t) => Ending(t)
    /\ pc[t] \in {"scan", "kill", "end", "unbind"} => todo[t] \subseteq Table
    /\ pc[t] \in {"kill", "end", "unbind"} => key[t] \notin todo[t]
    /\ pc[t] = "kill" => \/ key[t] \in valid
                         \/ key[t] \in torn /\ loginUsers[key[t]] = usr[t]
    /\ pc[t] = "end" => key[t] \in valid
    /\ pc[t] = "put" => sess[t] \in valid
Calm == \A t \in Thread \ disturbed : CalmAt(t)

LEMMA CalmInit == Init => Calm
  BY DEF Init, Calm, CalmAt, Open, Answer

\* The table stays, the sessions alive stay alive, and none is on its way out.
Keeps == /\ UNCHANGED <<loginUsers, ending, torn>> /\ valid \subseteq valid'

\* What others do to a login: they keep its sessions, or it is disturbed.
LEMMA CalmOthers ==
  ASSUME Calm, NEW x \in Thread, Same(x), x \notin disturbed',
         \/ Keeps /\ disturbed \ disturbed' \subseteq Thread \ {x}
         \/ \E T \in SUBSET (Thread \ {x}) : Disturb(T)
  PROVE  CalmAt(x)'
<1>1. x \notin disturbed /\ CalmAt(x)
  BY DEF Disturb, Calm
<1>2. CASE Keeps
  BY <1>1, <1>2 DEF CalmAt, Keeps, Same, Open, Ending, Table, LoggedIn
<1>3. CASE \E T \in SUBSET (Thread \ {x}) : Disturb(T)
  <2>1. ~Open(x)
    BY <1>3 DEF Disturb
  <2>2. QED
    BY <1>1, <2>1 DEF CalmAt, Open, Answer, Same
<1>4. QED
  BY <1>2, <1>3

\* A step that is no login's own.
LEMMA CalmElsewhere ==
  ASSUME Calm, \A x \in Thread : Same(x),
         (Keeps /\ disturbed' = disturbed) \/ Disturb({})
  PROVE  Calm'
<1>1. {} \in SUBSET Thread
  OBVIOUS
<1>2. QED
  BY <1>1, CalmOthers DEF Calm

\* A step of the login t: it has to keep its own part.
LEMMA CalmOwn ==
  ASSUME Calm, NEW t \in Thread,
         \A x \in Thread \ {t} : Same(x),
         (Keeps /\ disturbed \subseteq disturbed' \cup {t}) \/ Disturb({t}),
         t \notin disturbed' => CalmAt(t)'
  PROVE  Calm'
<1>1. \A x \in Thread \ {t} : {t} \in SUBSET (Thread \ {x})
  OBVIOUS
<1>2. QED
  BY <1>1, CalmOthers DEF Calm

LEMMA OtherThreads ==
  ASSUME IInv, NEW t \in Thread, Serve(t)
  PROVE  \A x \in Thread \ {t} : Same(x)
<1>1. ASSUME NEW s \in Session, Get(t, s) PROVE \A x \in Thread \ {t} : Same(x)
  BY <1>1 DEF Get, Goto, IInv, WebInv, WebType, Same
<1>2. CASE Count(t) \/ ScanEnd(t) \/ Kill(t)
  BY <1>2 DEF Count, ScanEnd, Kill, Goto, IInv, WebInv, WebType, Same
<1>3. CASE End(t) \/ Ended(t)
  BY <1>3 DEF End, Ended, Goto, IInv, WebInv, WebType, Same
<1>4. CASE SetSession(t) \/ SetRights(t)
  BY <1>4 DEF SetSession, SetRights, Goto, IInv, WebInv, WebType, Same
<1>5. CASE ValueBound(t) \/ SetAttribute(t)
  BY <1>5 DEF ValueBound, SetAttribute, Goto, IInv, WebInv, WebType, Same
<1>6. QED
  BY <1>1, <1>2, <1>3, <1>4, <1>5 DEF Serve

LEMMA CalmExpire == ASSUME IInv, Calm, NEW s \in Session, Expire(s) \/ Expired(s) PROVE Calm'
  BY CalmElsewhere DEF Expire, Expired, webVars, Same

LEMMA CalmCount == ASSUME IInv, Calm, NEW t \in Thread, Count(t) PROVE Calm'
<1>1. /\ pc[t] = "count" /\ UNCHANGED <<sessVars, torn, sess, usr, key, disturbed>>
      /\ \/ pc' = [pc EXCEPT ![t] = "bind"] /\ todo' = todo
         \/ pc' = [pc EXCEPT ![t] = "scan"] /\ todo' = [todo EXCEPT ![t] = Table]
  BY DEF Count, Goto, histVars
<1>2. Keeps /\ Table' = Table
  BY <1>1 DEF Keeps, Table, LoggedIn, sessVars
<1>3. t \notin disturbed' => CalmAt(t)'
  BY <1>1, <1>2 DEF Calm, CalmAt, Open, Answer, Ending, IInv, WebInv, WebType, sessVars
<1>4. QED
  BY <1>1, <1>2, <1>3, CalmOwn, OtherThreads DEF Serve

\* What comes up in the enumeration stands in the table: it was ahead, or is new.
LEMMA CalmGet == ASSUME IInv, Calm, NEW t \in Thread, NEW s \in Session, Get(t, s) PROVE Calm'
<1>1. /\ pc[t] = "scan" /\ UNCHANGED <<sessVars, torn, sess, usr, disturbed>>
      /\ todo' = [todo EXCEPT ![t] = @ \ {s}] /\ s \in todo[t] \cup Table
      /\ \/ Matches(t, s) /\ pc' = [pc EXCEPT ![t] = "kill"] /\ key' = [key EXCEPT ![t] = s]
         \/ pc' = pc /\ key' = key
         \/ ~LoggedIn(s) /\ pc' = [pc EXCEPT ![t] = "error"] /\ key' = key
  BY DEF Get, Goto, histVars
<1>2. Keeps /\ Table' = Table
  BY <1>1 DEF Keeps, Table, LoggedIn, sessVars
<1>3. t \notin disturbed => todo[t] \subseteq Table /\ s \in Table /\ ending = {}
  BY <1>1 DEF Calm, CalmAt, Open, Answer, Ending
<1>4. s \in Table => s \in valid \cup ending \cup torn /\ LoggedIn(s)
  BY DEF IInv, SessInv, Dead, Table
<1>5. t \notin disturbed' => CalmAt(t)'
  <2> SUFFICES ASSUME t \notin disturbed PROVE CalmAt(t)'
    BY <1>1
  <2>1. ending' = {} /\ todo'[t] = todo[t] \ {s} /\ todo'[t] \subseteq Table'
    BY <1>1, <1>2, <1>3 DEF sessVars, IInv, WebInv, WebType
  <2>2. CASE Matches(t, s) /\ pc' = [pc EXCEPT ![t] = "kill"] /\ key' = [key EXCEPT ![t] = s]
    <3>1. pc'[t] = "kill" /\ key'[t] = s
      BY <2>2 DEF IInv, WebInv, WebType
    <3>2. QED
      BY <1>1, <1>3, <1>4, <2>1, <2>2, <3>1 DEF CalmAt, Ending, Matches, sessVars
  <2>3. CASE pc' = pc
    BY <1>1, <2>1, <2>3 DEF CalmAt, Ending
  <2>4. QED
    BY <1>1, <1>3, <1>4, <2>2, <2>3
<1>6. QED
  BY <1>1, <1>2, <1>5, CalmOwn, OtherThreads DEF Serve

LEMMA CalmScanEnd == ASSUME IInv, Calm, NEW t \in Thread, ScanEnd(t) PROVE Calm'
<1>1. /\ pc[t] = "scan" /\ UNCHANGED <<sessVars, torn, sess, usr, todo, key, disturbed>>
      /\ pc' = [pc EXCEPT ![t] = "bind"]
  BY DEF ScanEnd, Goto, histVars
<1>2. Keeps /\ pc'[t] = "bind"
  BY <1>1 DEF Keeps, sessVars, IInv, WebInv, WebType
<1>3. t \notin disturbed' => CalmAt(t)'
  BY <1>1, <1>2 DEF Calm, CalmAt, Open, Answer, Ending, Keeps
<1>4. QED
  BY <1>1, <1>2, <1>3, CalmOwn, OtherThreads DEF Serve

LEMMA CalmKill == ASSUME IInv, Calm, NEW t \in Thread, Kill(t) PROVE Calm'
<1>1. /\ pc[t] = "kill" /\ UNCHANGED <<sessVars, torn, sess, usr, todo, key, disturbed>>
      /\ \/ key[t] \in valid /\ pc' = [pc EXCEPT ![t] = "end"]
         \/ pc' = [pc EXCEPT ![t] = "error"]
  BY DEF Kill, Goto, histVars
<1>2. Keeps /\ Table' = Table
  BY <1>1 DEF Keeps, Table, LoggedIn, sessVars
<1>3. pc'[t] = "error" \/ (pc'[t] = "end" /\ key[t] \in valid)
  BY <1>1 DEF IInv, WebInv, WebType
<1>4. t \notin disturbed' => CalmAt(t)'
  BY <1>1, <1>2, <1>3 DEF Calm, CalmAt, Open, Answer, Ending, Keeps, sessVars
<1>5. QED
  BY <1>1, <1>2, <1>4, CalmOwn, OtherThreads DEF Serve

LEMMA CalmEnd == ASSUME IInv, Calm, NEW t \in Thread, End(t) PROVE Calm'
<1>1. pc[t] = "end" /\ key[t] \in Session /\ UNCHANGED <<sess, usr, todo, key>>
  BY DEF End, IInv, WebInv, Killing
<1>2. CASE Invalidate(key[t]) /\ Disturb({t}) /\ Goto(t, "unbind")
  <2>1. /\ pc'[t] = "unbind" /\ ending' = ending \cup {key[t]} /\ loginUsers' = loginUsers
        /\ Table' = Table
    BY <1>2 DEF Goto, Invalidate, Table, LoggedIn, IInv, WebInv, WebType
  <2>2. t \notin disturbed' => CalmAt(t)'
    BY <1>1, <1>2, <2>1 DEF Disturb, Calm, CalmAt, Open, Answer, Ending
  <2>3. QED
    BY <1>2, <2>2, CalmOwn, OtherThreads DEF Serve
<1>3. CASE key[t] \notin valid \cup ending /\ UNCHANGED <<sessVars, torn, disturbed>>
  <2>1. t \in disturbed /\ t \in disturbed'
    BY <1>1, <1>3 DEF Calm, CalmAt
  <2>2. Keeps
    BY <1>3 DEF Keeps, sessVars
  <2>3. QED
    BY <1>3, <2>1, <2>2, CalmOwn, OtherThreads DEF Serve
<1>4. QED
  BY <1>2, <1>3 DEF End

LEMMA CalmEnded == ASSUME IInv, Calm, NEW t \in Thread, Ended(t) PROVE Calm'
<1>1. /\ pc[t] = "unbind" /\ Unbind(key[t]) /\ Disturb({t}) /\ pc' = [pc EXCEPT ![t] = "scan"]
      /\ UNCHANGED <<sess, usr, todo, key>>
  BY DEF Ended, Goto
<1>2. pc'[t] = "scan" /\ ending' = ending \ {key[t]} /\ Table \ {key[t]} \subseteq Table'
  BY <1>1 DEF Unbind, ValueUnbound, Table, LoggedIn, IInv, SessInv, SessType, WebInv, WebType
<1>3. t \notin disturbed' => CalmAt(t)'
  BY <1>1, <1>2 DEF Disturb, Calm, CalmAt, Open, Answer, Ending
<1>4. QED
  BY <1>1, <1>3, CalmOwn, OtherThreads DEF Serve

LEMMA CalmSetSession == ASSUME IInv, Calm, NEW t \in Thread, SetSession(t) PROVE Calm'
<1>1. /\ pc[t] = "bind" /\ pc' = [pc EXCEPT ![t] = "put"]
      /\ UNCHANGED <<loginUsers, ending, torn, usr, todo, key, disturbed>>
  BY DEF SetSession, Goto, histVars
<1>2. PICK s \in Session : valid' = valid \cup {s} /\ sess' = [sess EXCEPT ![t] = s]
  BY DEF SetSession
<1>3. Keeps /\ pc'[t] = "put" /\ sess'[t] \in valid'
  BY <1>1, <1>2 DEF Keeps, IInv, WebInv, WebType
<1>4. t \notin disturbed' => CalmAt(t)'
  BY <1>1, <1>3 DEF Calm, CalmAt, Open, Answer, Ending
<1>5. QED
  BY <1>1, <1>3, <1>4, CalmOwn, OtherThreads DEF Serve

LEMMA CalmValueBound == ASSUME IInv, Calm, NEW t \in Thread, ValueBound(t) PROVE Calm'
<1>1. pc[t] = "put" /\ UNCHANGED <<ending, valid, torn, sess, usr, todo, key>>
  BY DEF ValueBound
<1>2. CASE Goto(t, "attr") /\ Disturb({t})
  <2>1. pc'[t] = "attr"
    BY <1>2 DEF Goto, IInv, WebInv, WebType
  <2>2. t \notin disturbed' => CalmAt(t)'
    BY <1>1, <1>2, <2>1 DEF Disturb, Calm, CalmAt, Open, Answer, Ending
  <2>3. QED
    BY <1>2, <2>2, CalmOwn, OtherThreads DEF Serve
<1>3. CASE Goto(t, "error") /\ UNCHANGED <<loginUsers, disturbed>>
  <2>1. pc'[t] = "error" /\ Keeps
    BY <1>1, <1>3 DEF Goto, Keeps, IInv, WebInv, WebType
  <2>2. CalmAt(t)'
    BY <2>1 DEF CalmAt, Open, Answer
  <2>3. QED
    BY <1>3, <2>1, <2>2, CalmOwn, OtherThreads DEF Serve
<1>4. QED
  BY <1>2, <1>3 DEF ValueBound

LEMMA CalmSetAttribute == ASSUME IInv, Calm, NEW t \in Thread, SetAttribute(t) PROVE Calm'
<1>1. /\ pc[t] = "attr" /\ pc' = [pc EXCEPT ![t] = "rights"]
      /\ UNCHANGED <<loginUsers, ending, valid, torn, sess, usr, todo, key, disturbed>>
  BY DEF SetAttribute, Goto, histVars
<1>2. Keeps /\ pc'[t] = "rights"
  BY <1>1 DEF Keeps, IInv, WebInv, WebType
<1>3. t \notin disturbed' => CalmAt(t)'
  BY <1>1, <1>2 DEF Calm, CalmAt, Open, Answer, Ending
<1>4. QED
  BY <1>1, <1>2, <1>3, CalmOwn, OtherThreads DEF Serve

LEMMA CalmSetRights == ASSUME IInv, Calm, NEW t \in Thread, SetRights(t) PROVE Calm'
<1>1. /\ pc[t] = "rights" /\ pc' = [pc EXCEPT ![t] = "result"] /\ valid \subseteq valid'
      /\ UNCHANGED <<loginUsers, ending, torn, todo, key, disturbed>>
  BY DEF SetRights, Goto, histVars
<1>2. Keeps /\ pc'[t] = "result"
  BY <1>1 DEF Keeps, IInv, WebInv, WebType
<1>3. CalmAt(t)'
  BY <1>2 DEF CalmAt, Open, Answer
<1>4. QED
  BY <1>1, <1>2, <1>3, CalmOwn, OtherThreads DEF Serve

LEMMA CalmSubmit ==
  ASSUME IInv, Calm, NEW t \in Thread, NEW b \in Browser, NEW u \in User, Submit(t, b, u)
  PROVE  Calm'
<1>1. /\ pc' = [pc EXCEPT ![t] = "count"] /\ usr' = [usr EXCEPT ![t] = u]
      /\ sess' = [sess EXCEPT ![t] = cookie[b]]
      /\ UNCHANGED <<sessVars, torn, todo, key>>
      /\ disturbed' = IF ending = {} THEN disturbed \ {t} ELSE disturbed \cup {t}
  BY DEF Submit, Goto
<1>2. Keeps /\ pc'[t] = "count" /\ disturbed \subseteq disturbed' \cup {t}
  BY <1>1 DEF Keeps, sessVars, IInv, WebInv, WebType
<1>3. \A x \in Thread \ {t} : Same(x)
  BY <1>1 DEF Same, IInv, WebInv, WebType
<1>4. t \notin disturbed' => CalmAt(t)'
  BY <1>1, <1>2 DEF CalmAt, Ending, Keeps
<1>5. QED
  BY <1>2, <1>3, <1>4, CalmOwn

LEMMA CalmNext == IInv /\ Calm /\ [Next]_vars => Calm'
<1> SUFFICES ASSUME IInv, Calm, [Next]_vars PROVE Calm'
  OBVIOUS
<1>1. ASSUME NEW b \in Browser, PreHandle(b) PROVE Calm'
  <2>1. /\ UNCHANGED <<loginUsers, ending, torn, disturbed>> /\ valid \subseteq valid'
        /\ \A x \in Thread : Same(x)
    BY <1>1 DEF PreHandle, webVars, histVars, Same
  <2>2. QED
    BY <2>1, CalmElsewhere DEF Keeps
<1>2. ASSUME NEW b \in Browser, Logout(b) PROVE Calm'
  <2>1. cookie[b] \in Session
    BY <1>2 DEF Logout, IInv, SessInv, SessType
  <2>2. QED
    BY <1>2, <2>1, CalmExpire DEF Logout
<1>3. ASSUME NEW s \in Session, Expire(s) \/ Expired(s) PROVE Calm'
  BY <1>3, CalmExpire
<1>4. ASSUME NEW t \in Thread, Serve(t) PROVE Calm'
  BY <1>4, CalmCount, CalmGet, CalmScanEnd, CalmKill, CalmEnd, CalmEnded, CalmSetSession,
     CalmValueBound, CalmSetAttribute, CalmSetRights DEF Serve
<1>5. ASSUME NEW t \in Thread, NEW b \in Browser, NEW u \in User, Submit(t, b, u) PROVE Calm'
  BY <1>5, CalmSubmit
<1>6. CASE UNCHANGED vars
  <2>1. Keeps /\ disturbed' = disturbed /\ \A x \in Thread : Same(x)
    BY <1>6 DEF vars, sessVars, webVars, histVars, Keeps, Same
  <2>2. QED
    BY <2>1, CalmElsewhere
<1>7. QED
  BY <1>1, <1>2, <1>3, <1>4, <1>5, <1>6 DEF Next

\* A login fails (get returns null, invalidate() meets a session that has ended, or the
\* session it binds itself to ends) only if a session began or ended on behalf of others
\* while it ran, or was on its way out when it began, or if a torn session stands in the
\* table for its user: by itself it neither comes upon a session it has ended nor ends
\* one twice.
THEOREM FailsOnlyDisturbed == Spec => LoginFailsOnlyDisturbed
<1>1. IInv /\ Calm /\ [Next]_vars =>
        [\A t \in Thread : pc[t] # "error" /\ pc'[t] = "error" =>
            t \in disturbed \/ \E s \in torn : loginUsers[s] = usr[t]]_vars
  <2> SUFFICES ASSUME IInv, Calm, Next, NEW t \in Thread, pc[t] # "error", pc'[t] = "error",
                      t \notin disturbed
               PROVE  \E s \in torn : loginUsers[s] = usr[t]
    BY DEF vars
  <2>1. CalmAt(t)
    BY DEF Calm
  <2>2. ASSUME NEW b \in Browser, NEW u \in User, Submit(t, b, u) PROVE FALSE
    BY <2>2 DEF Submit, Goto, IInv, WebInv, WebType
  <2>3. Serve(t)
    BY <2>2, StandsStill
  <2>4. ASSUME NEW s \in Session, Get(t, s) PROVE FALSE
    <3>1. pc[t] = "scan" /\ s \in todo[t] \cup Table
      BY <2>4 DEF Get
    <3>2. LoggedIn(s)
      BY <2>1, <3>1 DEF CalmAt, Table
    <3>3. QED
      BY <2>4, <3>1, <3>2 DEF Get, Goto, IInv, WebInv, WebType
  <2>5. CASE Kill(t)
    BY <2>1, <2>5 DEF CalmAt, Kill, Goto, IInv, WebInv, WebType
  <2>6. CASE ValueBound(t)
    BY <2>1, <2>6 DEF CalmAt, ValueBound, Goto, IInv, WebInv, WebType
  <2>7. CASE Count(t) \/ ScanEnd(t) \/ End(t) \/ Ended(t)
    BY <2>7 DEF Count, ScanEnd, End, Ended, Goto, IInv, WebInv, WebType
  <2>8. CASE SetSession(t) \/ SetAttribute(t) \/ SetRights(t)
    BY <2>8 DEF SetSession, SetAttribute, SetRights, Goto, IInv, WebInv, WebType
  <2>9. QED
    BY <2>3, <2>4, <2>5, <2>6, <2>7, <2>8 DEF Serve
<1>2. QED
  BY Inductive, CalmInit, CalmNext, <1>1, PTL DEF Spec, LoginFailsOnlyDisturbed
=============================================================================
