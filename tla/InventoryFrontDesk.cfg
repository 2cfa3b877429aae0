CONSTANTS
    r1 = r1
    r2 = r2
    w1 = w1
    w2 = w2
    nobody = nobody
    Nobody = nobody
    Rooms = {1, 2}
    Res = {r1, r2}
    MoveKeys = {"k1"}
    Workers = {w1}
    MaxAmendments = 2
    MaxDay = 2
    StayDates <- AllStays2
    GroupHolds <- OneHold
    CalendarBlocks <- OneBlock
    Kinds = {"book", "move", "check_in", "check_out", "cancel", "no_show", "housekeeping", "import"}
    RepeatableRead = FALSE
SPECIFICATION Spec
SYMMETRY Symmetric
INVARIANTS TypeOK OneGuestPerRoom
PROPERTIES CalendarBlocksRespected
CHECK_DEADLOCK FALSE
