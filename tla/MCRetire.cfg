CONSTANTS
    Submitters = {s1, s2}
    Tickets = {}
    Retriers = {}
    Builders = {builder}
    Workers = {w1, w2}
    Cancellers = {}
    Shutdowners = {}
    Stoppers = {}
    Joiners = {joiner}
    Waiters = {}
    Tuners = {tuner}
    CoreSize = 2
    MaximumSize = 2
    CoreTimeout = FALSE
    Sizes = {0, 1, 2}
    Bounded = TRUE
    Capacity = 1
    SpawnMayFail = TRUE
    AcceptMayPanic = TRUE
    Together = {{joiner}, {tuner}}
    Free = Free
SPECIFICATION Spec
ACTION_CONSTRAINT CallsTogether
SYMMETRY Symmetric
INVARIANTS TypeOK NoLostWakeup NoStrandedWork QueuedJobHasWaker UntimedWithinCore JoinSound FailedBuildIsClean
CHECK_DEADLOCK FALSE
