CONSTANTS
    t1 = t1
    t2 = t2
    d1 = d1
    i1 = i1
    i2 = i2
    Rooms = {1, 2}
    Tasks = {t1, t2}
    Items = {i1}
    Critical = {i1}
    DeskTickets = {d1}
    RoomOf <- OneRoom
    MaxGuests = 1
    InspectionRequired = {TRUE, FALSE}
    RepeatableRead = FALSE
    Worked <- FirstReport
    Kinds = {"tasks", "report", "front desk"}
SPECIFICATION Spec
INVARIANTS TypeOK FinishedIsChecked ReadyRoomsFinished NoPhantomGuest
PROPERTIES ResolvedByItsTask OverIsOver
CHECK_DEADLOCK FALSE
