---------------------------- MODULE SessionBook ----------------------------
(***************************************************************************)
(* What LoginManager is for: a book of who works in which session, in      *)
(* which nobody stands twice.                                              *)
(***************************************************************************)
CONSTANTS Session, User, NoUser

VARIABLE book     \* who works in each session, or NoUser

Init == book = [s \in Session |-> NoUser]

LoginAs(s, u) == /\ \A t \in Session \ {s} : book[t] # u
                 /\ book' = [book EXCEPT ![s] = u]

\* Logging out, expiry, or making room for a login elsewhere.
Leave(s) == book' = [book EXCEPT ![s] = NoUser]

Next == \E s \in Session : Leave(s) \/ \E u \in User : LoginAs(s, u)

Spec == Init /\ [][Next]_book
=============================================================================
