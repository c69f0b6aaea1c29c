CONSTANTS
    Submitters = {s1, s2}
    Tickets = {}
    Retriers = {s2}
    Builders = {}
    Workers = {w1}
    Cancellers = {}
    Shutdowners = {}
    Stoppers = {caller}
    Joiners = {caller}
    Waiters = {}
    Tuners = {}
    CoreSize = 1
    MaximumSize = 1
    CoreTimeout = FALSE
    Sizes = {}
    Bounded = TRUE
    Capacity = 1
    SpawnMayFail = FALSE
    AcceptMayPanic = FALSE
    Together = {{caller}}
    Free = Free
SPECIFICATION FairSpec
PROPERTIES AcceptedJobsFinish CallsEnd
CHECK_DEADLOCK FALSE
