\* One server: three seconds in which runs start, one immediate run, one fault.
SPECIFICATION Spec
CONSTANTS
    Target = {t1}
    Web = {w1}
    MaxClock = 3
    MaxFault = 1
CHECK_DEADLOCK FALSE
INVARIANTS
    RecordedOnce
PROPERTIES
    NewRowIsPlaced
    ReportedRunIsLogged
    CascadeSparesOthers
SYMMETRY Interchangeable
