\* One server: two seconds in which runs start, one immediate run, two faults; fair tasks.
SPECIFICATION FairSpec
CONSTANTS
    Target = {t1}
    Web = {w1}
    MaxClock = 2
    MaxFault = 2
CHECK_DEADLOCK FALSE
PROPERTIES
    ReportedRunIsHandled
    RowOfDeletedRunGoes
