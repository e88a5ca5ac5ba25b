\* One window, mariabackup, a server with and one without the path of mariabackup; the job
\* fires up to twice, the application restarts once; Quartz threads are fair.
SPECIFICATION FairSpec
CONSTANTS
    Request = {r1}
    t1 = t1
    t2 = t2
    Target = {t1, t2}
    Exec = {x1, x2}
    None = None
    Nam <- TwoNames
    Avt <- TwoXtra
    Bny <- YesNo
    Cpr <- TwoNo
    Whole <- TwoYes
    MaxClock = 2
    MaxRepeat = 1
    MaxRestart = 1
CHECK_DEADLOCK FALSE
INVARIANTS
    FullJobIsNotLeftBehind
    RecordedFullRunIsOver
PROPERTIES
    FullJobEndsEventually
