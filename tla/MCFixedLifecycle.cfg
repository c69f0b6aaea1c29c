CONSTANTS
    Submitters = {s1, s2}
    Workers = {w1, w2}
    Builder = builder
    Shutdowners = {closer}
    Stoppers = {stopper}
    Joiners = {joiner}
    Waiters = {waiter}
    Bounded = TRUE
    Capacity = 2
    Spins = FALSE
    SpawnMayFail = TRUE
    AcceptMayPanic = FALSE
    Together = {{stopper, waiter}, {closer, waiter}, {joiner}}
    Free = Free
SPECIFICATION Spec
ACTION_CONSTRAINT CallsTogether
SYMMETRY Symmetric
INVARIANTS TypeOK NoLostWakeup QueuedJobHasWaker SoleOwner TerminationTrue JoinSound
PROPERTIES ImplementsService
CHECK_DEADLOCK FALSE
