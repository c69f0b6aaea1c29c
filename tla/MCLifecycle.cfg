CONSTANTS
    Submitters = {s1, s2}
    Tickets = {}
    Retriers = {}
    Builders = {}
    Workers = {w1, w2}
    Cancellers = {}
    Shutdowners = {closer}
    Stoppers = {stopper}
    Joiners = {}
    Waiters = {waiter}
    Tuners = {}
    CoreSize = 1
    MaximumSize = 2
    CoreTimeout = FALSE
    Sizes = {}
    Bounded = TRUE
    Capacity = 1
    SpawnMayFail = FALSE
    AcceptMayPanic = FALSE
    Together = {{stopper, waiter}, {closer, waiter}}
    Free = Free
SPECIFICATION Spec
ACTION_CONSTRAINT CallsTogether
SYMMETRY Symmetric
INVARIANTS NoLostWakeup SoleOwner TerminationTrue
PROPERTIES StopFinal
CHECK_DEADLOCK FALSE
