CONSTANTS
    Submitters = {s1, s2, s3, s4}
    CLOSED = 4
SPECIFICATION Spec
INVARIANTS TypeOK CountIsEntrants
PROPERTIES ImplementsGate ClosedReleasesContenders
