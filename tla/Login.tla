------------------------------- MODULE Login -------------------------------
(***************************************************************************)
(* Logging in and out: LoginController, LoginManager and the sessions of   *)
(* the servlet container.  LoginManager is one object that is bound to     *)
(* every session as an attribute named after the user; the container calls *)
(* valueBound and valueUnbound on it, which keep the table loginUsers.     *)
(* A login first ends the sessions that stand in the table for the user.   *)
(* The container does not lock: it calls valueBound before it stores the   *)
(* attribute, and invalidate() first marks the session as ended and then   *)
(* unbinds the attributes it finds.                                        *)
(*                                                                         *)
(* Web threads of several logins interleave with each other, with logouts  *)
(* and with the expiry of sessions.  Passwords are right: a wrong one ends *)
(* the request before it has done anything.                                *)
(***************************************************************************)
EXTENDS Naturals, FiniteSets

CONSTANTS
    Browser, User,
    Session,     \* the sessions the container can create (bound: each is used once)
    Thread,      \* web threads, each of which serves one login at a time
    MaxLogin,    \* bound: how many logins there are
    NoUser, NoSession

ASSUME NoneAssumption == NoUser \notin User /\ NoSession \notin Session
ASSUME SomeAssumption == User # {} /\ Browser # {} /\ IsFiniteSet(Session)

VARIABLES
    loginUsers,  \* the table: who stands in it for each session
    fresh,       \* sessions the container has not created yet
    valid,       \* sessions that have not been invalidated
    ending,      \* invalidated sessions whose attributes are not unbound yet
    bound,       \* the users LoginManager is bound to each session for
    cookie,      \* the session each browser sends
    logins,      \* how many logins there have been
    pc, usr,     \* progress of each login, and its user
    from,        \* its browser
    sess,        \* the session of its request
    todo,        \* the sessions its enumeration of the table has yet to reach
    key,         \* the session removeSession has looked up
    torn,        \* history: sessions that ended while a login was being bound to them
    met,         \* history: users with two logins at the same time
    disturbed    \* history: logins during which a session began or ended elsewhere

sessVars == <<loginUsers, fresh, valid, ending, bound>>
webVars  == <<pc, usr, from, sess, todo, key>>
histVars == <<torn, met, disturbed>>
vars     == <<sessVars, cookie, logins, webVars, histVars>>

Answer  == {"result", "error"}
PC      == {"idle", "count", "scan", "kill", "end", "unbind", "bind", "put", "attr", "rights"} \cup Answer
Open(t) == pc[t] \notin {"idle"} \cup Answer
LoggedIn(s) == loginUsers[s] # NoUser
Table   == {s \in Session : LoggedIn(s)}          \* loginUsers.keys()
Goto(t, p) == pc' = [pc EXCEPT ![t] = p]
Disturb(T) == disturbed' = disturbed \cup {t \in Thread \ T : Open(t)}
Binding(s) == {t \in Thread : pc[t] \in {"put", "attr"} /\ sess[t] = s}

-----------------------------------------------------------------------------
(***************************************************************************)
(* The servlet container.                                                  *)
(***************************************************************************)

\* request.getSession(): the session of the request while it is valid, or a new one.
GetSession(s0, s) == IF s0 \in valid THEN s = s0 /\ UNCHANGED fresh
                     ELSE s \in fresh /\ fresh' = fresh \ {s}

\* A session ends in two steps: it is no longer valid, then LoginManager is unbound, once
\* for every user it is bound for by now.
Invalidate(s) == /\ s \in valid
                 /\ valid' = valid \ {s} /\ ending' = ending \cup {s}
                 /\ torn' = IF Binding(s) = {} THEN torn ELSE torn \cup {s}
                 /\ UNCHANGED <<loginUsers, fresh, bound>>

ValueUnboundByName(s) == [loginUsers EXCEPT ![s] = IF bound[s] # {} THEN @ ELSE NoUser]  \* mutant
ValueUnbound(s) == [loginUsers EXCEPT ![s] = IF bound[s] # {} THEN NoUser ELSE @]
Unbind(s) == /\ s \in ending
             /\ ending' = ending \ {s}
             /\ loginUsers' = ValueUnbound(s)
             /\ bound' = [bound EXCEPT ![s] = {}]
             /\ UNCHANGED <<fresh, valid, torn>>

\* Any request; the interceptor sends those that are not logged in to /main, and
\* looks at nothing but the table.  A browser without a valid session gets one.
PreHandle(b) ==
    /\ cookie[b] \notin valid
    /\ \E s \in fresh : /\ cookie' = [cookie EXCEPT ![b] = s]
                        /\ valid' = valid \cup {s} /\ fresh' = fresh \ {s}
    /\ UNCHANGED <<loginUsers, ending, bound, logins, webVars, histVars>>

Expire(s) ==
    /\ Invalidate(s) /\ Disturb({})
    /\ UNCHANGED <<cookie, logins, webVars, met>>

Logout(b) == cookie[b] \in valid /\ Expire(cookie[b])

\* The second step of an expiry or a logout.
Expired(s) ==
    /\ \A t \in Thread : pc[t] = "unbind" => key[t] # s
    /\ Unbind(s) /\ Disturb({})
    /\ UNCHANGED <<cookie, logins, webVars, met>>

-----------------------------------------------------------------------------
(***************************************************************************)
(* LoginController.login.                                                  *)
(***************************************************************************)
Submit(t, b, u) ==
    /\ ~Open(t) /\ logins < MaxLogin
    /\ logins' = logins + 1
    /\ usr' = [usr EXCEPT ![t] = u] /\ from' = [from EXCEPT ![t] = b]
    /\ sess' = [sess EXCEPT ![t] = cookie[b]]
    /\ met' = IF \E x \in Thread : Open(x) /\ usr[x] = u THEN met \cup {u} ELSE met
    /\ Goto(t, "count")
    /\ disturbed' = IF ending = {} THEN disturbed \ {t} ELSE disturbed \cup {t}
    /\ UNCHANGED <<sessVars, cookie, todo, key, torn>>

\* getUserCount() > 0; removeSession begins to enumerate the table.
MoreThanOne == Cardinality(Table) > 1                    \* mutant: off by one
Somebody    == Cardinality(Table) > 0
Count(t) ==
    /\ pc[t] = "count"
    /\ \/ ~Somebody /\ Goto(t, "bind") /\ UNCHANGED todo
       \/ Somebody /\ Goto(t, "scan") /\ todo' = [todo EXCEPT ![t] = Table]
    /\ UNCHANGED <<sessVars, cookie, logins, usr, from, sess, key, histVars>>

\* loginUsers.get(session).equals(userId).  An enumeration of a Hashtable does not
\* fail when the table changes: what has gone is passed over, or still comes up as
\* the next element and get returns null; what is new comes up or does not.
MatchesAny(t, s) == LoggedIn(s)                          \* mutant: equals left out
Matches(t, s)    == loginUsers[s] = usr[t]
Get(t, s) ==
    /\ pc[t] = "scan"
    /\ s \in todo[t] \cup Table
    /\ todo' = [todo EXCEPT ![t] = @ \ {s}]
    /\ \/ Matches(t, s) /\ Goto(t, "kill") /\ key' = [key EXCEPT ![t] = s]
       \/ LoggedIn(s) /\ ~Matches(t, s) /\ UNCHANGED <<pc, key>>
       \/ ~LoggedIn(s) /\ pc' \in {pc, [pc EXCEPT ![t] = "error"]} /\ UNCHANGED key
    /\ UNCHANGED <<sessVars, cookie, logins, usr, from, sess, histVars>>

ScanEnd(t) ==
    /\ pc[t] = "scan" /\ todo[t] = {}
    /\ Goto(t, "bind")
    /\ UNCHANGED <<sessVars, cookie, logins, usr, from, sess, todo, key, histVars>>

\* session.invalidate(), which fails if the session has been ended meanwhile.  When two
\* have passed the check, one ends the session and the other waits until it has.
Kill(t) ==
    /\ pc[t] = "kill"
    /\ Goto(t, IF key[t] \in valid THEN "end" ELSE "error")
    /\ UNCHANGED <<sessVars, cookie, logins, usr, from, sess, todo, key, histVars>>

End(t) ==
    /\ pc[t] = "end"
    /\ \/ Invalidate(key[t]) /\ Disturb({t}) /\ Goto(t, "unbind")
       \/ key[t] \notin valid \cup ending /\ Goto(t, "scan") /\ UNCHANGED <<sessVars, torn, disturbed>>
    /\ UNCHANGED <<cookie, logins, usr, from, sess, todo, key, met>>

EndedFailFast(t) ==                                      \* mutant: the iterator of keySet
    /\ pc[t] = "unbind"
    /\ Unbind(key[t]) /\ Disturb({t})
    /\ Goto(t, IF todo[t] = {} THEN "scan" ELSE "error")
    /\ UNCHANGED <<cookie, logins, usr, from, sess, todo, key, met>>
Ended(t) ==
    /\ pc[t] = "unbind"
    /\ Unbind(key[t]) /\ Disturb({t}) /\ Goto(t, "scan")
    /\ UNCHANGED <<cookie, logins, usr, from, sess, todo, key, met>>

\* setSession: session.setAttribute(userId, this) on request.getSession().
SetSession(t) ==
    /\ pc[t] = "bind"
    /\ \E s \in Session :
          /\ GetSession(sess[t], s)
          /\ valid' = valid \cup {s}
          /\ sess' = [sess EXCEPT ![t] = s]
    /\ Goto(t, "put")
    /\ UNCHANGED <<loginUsers, ending, bound, cookie, logins, usr, from, todo, key, histVars>>

\* The container looks whether the session is valid, and unless this very object is
\* bound under the name already, calls valueBound.
ValueBound(t) ==
    LET s == sess[t] IN
    /\ pc[t] = "put"
    /\ \/ /\ Goto(t, "attr")
          /\ loginUsers' = [loginUsers EXCEPT ![s] = IF usr[t] \in bound[s] THEN @ ELSE usr[t]]
          /\ Disturb({t})
       \/ s \notin valid /\ Goto(t, "error") /\ UNCHANGED <<loginUsers, disturbed>>
    /\ UNCHANGED <<fresh, valid, ending, bound, cookie, logins, usr, from, sess, todo, key, torn, met>>

\* Then it stores the attribute, whatever has become of the session.
SetAttribute(t) ==
    /\ pc[t] = "attr"
    /\ bound' = [bound EXCEPT ![sess[t]] = @ \cup {usr[t]}]
    /\ Goto(t, "rights")
    /\ UNCHANGED <<loginUsers, fresh, valid, ending, cookie, logins, usr, from, sess, todo, key, histVars>>

\* The password, the rights and the like go to request.getSession(), asked for again, and
\* the answer carries the cookie of a session the request has created.
SetRights(t) ==
    /\ pc[t] = "rights"
    /\ \E s \in Session :
          /\ GetSession(sess[t], s)
          /\ valid' = valid \cup {s}
          /\ sess' = [sess EXCEPT ![t] = s]
          /\ cookie' = [cookie EXCEPT ![from[t]] = s]
    /\ Goto(t, "result")
    /\ UNCHANGED <<loginUsers, ending, bound, logins, usr, from, todo, key, histVars>>

Serve(t) == \/ Count(t) \/ ScanEnd(t) \/ Kill(t) \/ End(t) \/ Ended(t)
            \/ SetSession(t) \/ ValueBound(t) \/ SetAttribute(t) \/ SetRights(t)
            \/ \E s \in Session : Get(t, s)

-----------------------------------------------------------------------------
Init ==
    /\ loginUsers = [s \in Session |-> NoUser]
    /\ fresh = Session /\ valid = {} /\ ending = {}
    /\ bound = [s \in Session |-> {}]
    /\ cookie = [b \in Browser |-> NoSession] /\ logins = 0
    /\ pc = [t \in Thread |-> "idle"]
    /\ usr = [t \in Thread |-> CHOOSE u \in User : TRUE]
    /\ from = [t \in Thread |-> CHOOSE b \in Browser : TRUE]
    /\ sess = [t \in Thread |-> NoSession]
    /\ todo = [t \in Thread |-> {}]
    /\ key = [t \in Thread |-> NoSession]
    /\ torn = {} /\ met = {} /\ disturbed = {}

Next ==
    \/ \E b \in Browser : PreHandle(b) \/ Logout(b)
    \/ \E s \in Session : Expire(s) \/ Expired(s)
    \/ \E t \in Thread : Serve(t) \/ \E b \in Browser, u \in User : Submit(t, b, u)

Spec == Init /\ [][Next]_vars

-----------------------------------------------------------------------------
TypeOK ==
    /\ loginUsers \in [Session -> User \cup {NoUser}]
    /\ fresh \in SUBSET Session /\ valid \in SUBSET (Session \ fresh)
    /\ ending \in SUBSET (Session \ (fresh \cup valid)) /\ torn \in SUBSET Session
    /\ bound \in [Session -> SUBSET User]
    /\ cookie \in [Browser -> Session \cup {NoSession}]
    /\ pc \in [Thread -> PC] /\ usr \in [Thread -> User] /\ from \in [Thread -> Browser]
    /\ sess \in [Thread -> Session \cup {NoSession}]
    /\ todo \in [Thread -> SUBSET Session]
    /\ key \in [Thread -> Session \cup {NoSession}]
    /\ logins \in 0 .. MaxLogin
    /\ met \in SUBSET User /\ disturbed \in SUBSET Thread

\* The table holds the sessions that are logged into: for a session that is alive it names
\* a user who has logged into it, and none for a session nobody logged into.  It holds a
\* dead session only if that ended while a login was being bound to it (torn): a
\* dead one makes every later login of its user fail in invalidate().
Entered(s) == {u \in User : \/ u \in bound[s]
                           \/ \E t \in Binding(s) : pc[t] = "attr" /\ usr[t] = u}
TableIsAlive ==
    /\ \A s \in valid : IF Entered(s) = {} THEN ~LoggedIn(s) ELSE loginUsers[s] \in Entered(s)
    /\ Table \subseteq valid \cup ending \cup torn

\* A login fails only when a session began or ended during it on behalf of others, or was
\* ending when it began, or when a torn session stands in the table for its user.
LoginFailsOnlyDisturbed ==
    [][\A t \in Thread : pc[t] # "error" /\ pc'[t] = "error" =>
          t \in disturbed \/ \E s \in torn : loginUsers[s] = usr[t]]_vars

\* A session that is not logged out and has not expired is ended only by a login
\* of a user who has logged into it.
EndedByItsUser ==
    [][\A t \in Thread : pc[t] = "end" /\ pc'[t] = "unbind" => usr[t] \in Entered(key[t])]_vars

\* The table implements the book, whatever meets: threads, logouts, expiry.  Only a
\* user of whom two logins ran at the same time can stand in it twice (removeSession and
\* setSession are two steps, and an enumeration sees the sessions that are there).
Book == INSTANCE SessionBook WITH book <- loginUsers
SecondEntry == \E u \in met, s \in Session : loginUsers' = [loginUsers EXCEPT ![s] = u]
BookKept == Book!Init /\ [][Book!Next \/ SecondEntry]_loginUsers
=============================================================================
