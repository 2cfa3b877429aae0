CONSTANTS
    r1 = r1
    r2 = r2
    w1 = w1
    w2 = w2
    nobody = nobody
    Nobody = nobody
    Rooms = {1}
    Res = {r1, r2}
    MoveKeys = {"k1"}
    Workers = {w1, w2}
    MaxAmendments = 2
    MaxDay = 2
    StayDates <- AllStays2
    GroupHolds <- NoHolds
    CalendarBlocks <- NoBlocks
    Kinds = {"book", "amend", "check_in", "check_out", "cancel", "maintenance"}
    RepeatableRead = FALSE
SPECIFICATION Spec
SYMMETRY Symmetric
INVARIANTS OnlyAmendedStaysClash
PROPERTIES LifecycleForward StayIsHistory OnlyCancellationsFreeGuestRooms
CHECK_DEADLOCK FALSE
