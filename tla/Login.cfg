\* Three logins, two at a time, of two users in two browsers.
CONSTANTS
    Browser = {b1, b2}
    User = {u1, u2}
    Session = {s1, s2, s3}
    Thread = {t1, t2}
    MaxLogin = 3
    NoUser = NoUser
    NoSession = NoSession
SPECIFICATION Spec
CHECK_DEADLOCK FALSE
INVARIANTS TableIsAlive
PROPERTIES LoginFailsOnlyDisturbed EndedByItsUser BookKept
SYMMETRY Symmetric
