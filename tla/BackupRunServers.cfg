\* Two windows in one second on two servers: mysqldump of the whole server, mariabackup of a part.
SPECIFICATION Spec
CONSTANTS
    Request = {r1, r2}
    t1 = t1
    t2 = t2
    Target = {t1, t2}
    Exec = {x1, x2}
    None = None
    Nam <- TwoNames
    Avt <- DumpXtra
    Bny <- TwoYes
    Cpr <- TwoNo
    Whole <- YesNo
    MaxClock = 1
    MaxRepeat = 0
    MaxRestart = 0
SYMMETRY Interchangeable
CHECK_DEADLOCK FALSE
INVARIANTS
    TypeOK
    AnsweredRunIsScheduled
    RunUsesItsOwnParameters
    DumpRestorePointIsComplete
    LoggedSuccessIsRestorePoint
