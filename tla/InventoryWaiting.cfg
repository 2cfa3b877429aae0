CONSTANTS
    r1 = r1
    r2 = r2
    w1 = w1
    w2 = w2
    nobody = nobody
    Nobody = nobody
    Rooms = {1, 2}
    Res = {r1, r2}
    MoveKeys = {"k1"}
    Workers = {w1, w2}
    MaxAmendments = 2
    MaxDay = 1
    StayDates <- OneNight
    GroupHolds <- NoHolds
    CalendarBlocks <- NoBlocks
    Kinds = {"book", "cancel", "maintenance"}
    RepeatableRead = FALSE
SPECIFICATION FairSpec
PROPERTIES RequestsEnd
CHECK_DEADLOCK FALSE
