\* One window on three restore points, SSH commands that do not run, a repetition; fair.
SPECIFICATION FairSpec
CONSTANTS
    Request = {r1}
    Exec = {1, 2}
    MaxTime = 3
    MaxRepeat = 1
    MaxFault = 1
    MaxExpire = 0
CHECK_DEADLOCK FALSE
PROPERTIES
    SuccessIsRestored
    ReplacedOnce
    RestoreIsAnswered
