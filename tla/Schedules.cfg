\* Two requests of every kind on three schedules of one server, one SSH call that fails;
\* fair web threads and shells.
CONSTANTS
    Server <- OneServer
    Plan <- Monthly
    Occurs <- MonthlyOccurs
    Request = {r1, r2}
    Kinds <- AllKinds
    Faults <- AllFaults
    MaxFault = 1
    MaxOpen = 2
SPECIFICATION Spec
CHECK_DEADLOCK FALSE
INVARIANTS OneEditPerSchedule ListedIsOnDuty FailedLeavesCrontab
PROPERTIES PromiseKept RequestIsAnswered
