\* One window, no fault: the restore point that was chosen is not what is restored.
SPECIFICATION Spec
CONSTANTS
    Request = {r1}
    Exec = {1}
    MaxTime = 2
    MaxRepeat = 0
    MaxFault = 0
    MaxExpire = 0
CHECK_DEADLOCK FALSE
PROPERTIES
    RestoredPointIsChosen
