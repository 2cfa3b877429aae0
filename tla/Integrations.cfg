SPECIFICATION MCSpec
CHECK_DEADLOCK FALSE
CONSTANTS
  r1 = r1
  r2 = r2
  cal1 = cal1
  cal2 = cal2
  Refs = {r1, r2}
  NRooms = 1
  Mapped = 1
  LastDay = 3
  Feeds = {cal1, cal2}
  Buffer = 1
  Requests = {w1, w2}
  MaxBatch = 2
  Deliveries = {d1, d2}
  Runs = {u1, u2}
  MaxAttempts = 2
  Prints = {j1}
  Printers = {p1, p2}
  PrintLimit = 3
  Outgoing = {m1}
  Incoming = {i1}
  MessageLimit = 2
  MaxCrashes = 1
  MaxReplays = 1
  MaxJobs = 2
INVARIANTS TypeOK NothingIsLost
PROPERTIES BlocksEnd SentOnce QueuesDrain
