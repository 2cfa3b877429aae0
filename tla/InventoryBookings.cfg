CONSTANTS
    r1 = r1
    r2 = r2
    w1 = w1
    w2 = w2
    nobody = nobody
    Nobody = nobody
    Rooms = {1, 2}
    Res = {r1, r2}
    MoveKeys = {"k1"}
    Workers = {w1, w2}
    MaxAmendments = 2
    MaxDay = 2
    StayDates <- AllStays2
    GroupHolds <- OneHold
    CalendarBlocks <- NoBlocks
    Kinds = {"book", "move", "check_in"}
    RepeatableRead = FALSE
SPECIFICATION Spec
SYMMETRY Symmetric
INVARIANTS NoDoubleBooking HoldsKept
PROPERTIES ImplementsCalendar
CHECK_DEADLOCK FALSE
