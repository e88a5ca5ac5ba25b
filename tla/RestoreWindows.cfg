\* Two windows on two restore points, no SSH fault: overlapping restores and job names.
SPECIFICATION Spec
CONSTANTS
    Request = {r1, r2}
    Exec = {1, 2}
    MaxTime = 2
    MaxRepeat = 0
    MaxFault = 0
    MaxExpire = 2
CHECK_DEADLOCK FALSE
SYMMETRY Interchangeable
INVARIANTS
    RecordedRestoreIsOver
    AnsweredRestoreRuns
PROPERTIES
    SuccessIsRestored
