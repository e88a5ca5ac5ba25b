---------------------------- MODULE MCSchedules ----------------------------
(* An instance of Schedules for TLC. *)
EXTENDS Schedules

OneServer == {"web"}
\* "full_1_0_2_01" (at 01:00 on the 1st) is a part of "full_1_0_2_0115",
\* "full_1_0_2_15" is not.
Monthly   == {"full_1_0_2_01", "full_1_0_2_0115", "full_1_0_2_15"}
MonthlyOccurs == {<<p, p>> : p \in Monthly} \cup {<<"full_1_0_2_01", "full_1_0_2_0115">>}
AllKinds  == Kind
AllFaults == {"refused", "lost"}
=============================================================================
