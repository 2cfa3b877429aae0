SPECIFICATION MCSpec
CHECK_DEADLOCK FALSE
CONSTANTS
  o1 = o1
  r1 = r1
  u1 = u1
  s1 = s1
  t1 = t1
  NoOrder = NoOrder
  Orders = {o1, o2}
  Tables = {t1, t2}
  Bookings = {b1}
  Rows = {r1, r2}
  Units = {u1, u2}
  Splits = {s1, s2}
  MaxQty = 2
  MaxRevision = 3
  RequireOpening = TRUE
  RecipePosting = TRUE
INVARIANT RoomPostedOnce
