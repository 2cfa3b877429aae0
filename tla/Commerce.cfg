SPECIFICATION MCSpec
CHECK_DEADLOCK FALSE
CONSTANTS
  g1 = g1
  w1 = w1
  s1 = s1
  e1 = e1
  e2 = e2
  c1 = c1
  f1 = f1
  b1 = b1
  p1 = p1
  l1 = l1
  v1 = v1
  NoRoom = NoRoom
  Individual = Individual
  Groups = {g1, g2}
  Rooms = {rm1, rm2}
  Guests = {1, 2}
  Payers = {1}
  Once = {}
  PerDay = {a}
  PerNight = {}
  LastDate = 1
  LastHour = 2
  Setup = 0
  Breakdown = 1
  Workers = {w1, w2}
  MaxName = 2
  MaxStamp = 2
  MaxBeo = 2
  NoShift = NoShift
  Entries = {e1, e2, e3}
  Shifts = {s1}
  PosShifts = {s1}
  Stays = {r1}
  Corrections = {c1, c2}
  Approvals = {a1, a2}
  FeeDue = 1
  FeeItem = TRUE
  Threshold = 1
  CreditLimit = 3
  MaxAmount = 2
  MaxRowStamp = 4
  People = {p1, p2}
  NoOne = NoOne
  Bookings = {b1, b2}
  Online = 1
  Links = {l1, l2}
  Forms = {f1, f2}
  Writers = {x1, x2}
  Answers = {yes, no}
  NoAnswer = NoAnswer
  Bans = {1, 2}
  PrivacyRequests = {q1}
  Orders = {o1}
  Outings = {t1, t2}
  Seats = 2
  AutoPost = TRUE
  Required = 2
  Verified = TRUE
  MaxItems = 1
  MaxFormStamp = 3
  Sales = {v1, v2}
  LastDay = 2
  Rates = {3, 4}
  Floors = {0, 4}
  NetDiscount = 90
  CommissionRate = 30
  VoucherPercent = 40
  VoucherMax = 2
  UsageLimit = 1
  RateApprovals = {ra1}
  NoApproval = NoApproval
  Settlements = {ts1, ts2}
INVARIANTS CommerceTypeOK NothingUnbilled
PROPERTIES PriceSettles ClosedOnAllPayments AnswersStand
