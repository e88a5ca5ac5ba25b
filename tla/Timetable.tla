------------------------------ MODULE Timetable ------------------------------
(***************************************************************************)
(* What the schedule pages promise: the schedules that are listed are the  *)
(* ones that are on duty.  The crontab is one change ahead at most, and    *)
(* the list follows before anything else changes.                          *)
(***************************************************************************)
CONSTANT Schedule

VARIABLES
    listed,    \* the schedules the pages show
    onduty     \* the schedules cron starts

Init == listed \in SUBSET Schedule /\ onduty = listed

\* One request: new schedules without the ones it replaces or removes.
Change == /\ onduty = listed
          /\ \E old \in SUBSET listed, new \in SUBSET Schedule :
                /\ new \cap (listed \ old) = {}
                /\ onduty' = (onduty \ old) \cup new
          /\ UNCHANGED listed

Publish == listed' = onduty /\ UNCHANGED onduty

Next == Change \/ Publish

Spec == Init /\ [][Next]_<<listed, onduty>>
=============================================================================
