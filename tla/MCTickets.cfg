CONSTANTS
    Submitters = {s1, s2}
    Tickets = {s1}
    Retriers = {s2}
    Builders = {}
    Workers = {w1}
    Cancellers = {c1, c2}
    Shutdowners = {closer}
    Stoppers = {stopper}
    Joiners = {}
    Waiters = {}
    Tuners = {}
    CoreSize = 1
    MaximumSize = 1
    CoreTimeout = FALSE
    Sizes = {}
    Bounded = TRUE
    Capacity = 1
    SpawnMayFail = FALSE
    AcceptMayPanic = TRUE
    Together = {{stopper}, {closer}}
    Free = Free
SPECIFICATION Spec
ACTION_CONSTRAINT CallsTogether
SYMMETRY Symmetric
INVARIANTS TicketTruth AwaitedDecisionComes CancellationsReportedOnce RetryIsTold
PROPERTIES ImplementsService
CHECK_DEADLOCK FALSE
