CONSTANTS
    Jobs = {j1, j2, j3}
    Observers = {o1}
    Bounded = TRUE
    Capacity = 1
SPECIFICATION Spec
SYMMETRY JobSymmetry
INVARIANTS Ledger IdleObservationSound SealedObservationExact CapacityRespected
