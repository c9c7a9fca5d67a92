SPECIFICATION Spec
CONSTANTS
    Requests <- MCRequests
    Signed <- MCSigned
    Fudge = 1
    Handlers = {"h1", "h2"}
    Capacity = 2
    MaxDeliveries = 4
    MaxTime = 5
INVARIANTS
    TypeOK
    ReservationsHold
PROPERTIES
    DuplicatesAnswered
CHECK_DEADLOCK FALSE
