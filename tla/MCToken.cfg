CONSTANTS
    Submitters = {s1, s2, s3}
    Tickets = {}
    Retriers = {}
    Builders = {}
    Workers = {w1}
    Cancellers = {}
    Shutdowners = {closer}
    Stoppers = {}
    Joiners = {}
    Waiters = {}
    Tuners = {}
    CoreSize = 1
    MaximumSize = 1
    CoreTimeout = FALSE
    Sizes = {}
    Bounded = TRUE
    Capacity = 2
    SpawnMayFail = FALSE
    AcceptMayPanic = FALSE
    Together = {{closer}}
    Free = Free
SPECIFICATION Spec
SYMMETRY Symmetric
INVARIANTS QueuedJobHasWaker
CHECK_DEADLOCK FALSE
