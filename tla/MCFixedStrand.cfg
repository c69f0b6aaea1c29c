CONSTANTS
    Submitters = {s1}
    Workers = {w1}
    Builder = builder
    Shutdowners = {closer}
    Stoppers = {}
    Joiners = {}
    Waiters = {}
    Bounded = TRUE
    Capacity = 1
    Spins = FALSE
    SpawnMayFail = FALSE
    AcceptMayPanic = FALSE
    Together = {{closer}}
    Free = Free
SPECIFICATION Spec
INVARIANTS NoStrandedWork
CHECK_DEADLOCK FALSE
