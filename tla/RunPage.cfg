\* One page of each kind of run, four slow status answers, three faults.  The
\* page may settle for good.
CONSTANTS
    MaxStatus = 4
    MaxFault = 3
SPECIFICATION Spec
CHECK_DEADLOCK FALSE
INVARIANTS StatusMeetsItsHandler ResultIsRecordedOnce NoticeMeansPolling
PROPERTY RunSettles
