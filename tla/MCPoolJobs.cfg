CONSTANTS
    Jobs = {j1, j2}
    Workers = {w1}
    Tickets = {ticket}
    Stopper = stopper
    First = j1
    Second = j2
    Mixes <- Pairs
SPECIFICATION Spec
INVARIANTS NothingOutlivesThePool CallbackProtocol HandleResolved
PROPERTIES PanicsAreContained
CHECK_DEADLOCK FALSE
