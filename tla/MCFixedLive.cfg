CONSTANTS
    Submitters = {s1, s2}
    Workers = {w1}
    Builder = builder
    Shutdowners = {}
    Stoppers = {stopper}
    Joiners = {}
    Waiters = {}
    Bounded = TRUE
    Capacity = 1
    Spins = TRUE
    SpawnMayFail = FALSE
    AcceptMayPanic = TRUE
    Together = {{stopper}}
    Free = Free
SPECIFICATION FairSpec
PROPERTIES StopFinal StopTerminates AcceptedJobsFinish
CHECK_DEADLOCK FALSE
