------------------------ MODULE RoomInventoryProofs ------------------------
(***************************************************************************)
(* Proofs about RoomInventory, for any rooms, reservations, workers, days  *)
(* and requests: types, the capacity of the house, what other channels     *)
(* have blocked, who is in which room, and the room calendar it            *)
(* implements.                                                             *)
(***************************************************************************)
EXTENDS RoomInventory, SumLemmas

(* A request of each kind has the fields its handler uses. *)
LEMMA RequestFields ==
    ASSUME NEW q \in Request
    PROVE  /\ q.r \in Res
           /\ q.kind \in AllKinds \ {"maintenance"}
           /\ q.kind = "book" => q.rooms \in SUBSET Rooms /\ q.arr \in Days /\ q.dep \in Days
           /\ q.kind = "amend" => q.arr \in Days /\ q.dep \in Days
           /\ q.kind = "move" => q.from \in Rooms /\ q.to \in Rooms /\ q.key \in MoveKeys
BY DEF Request, AllKinds

(* What the feeds of other channels do: only the live blocks change, and who is overtaken. *)
CalendarFeed == \E b \in CalendarBlocks : BlockImported(b) \/ BlockLifted(b)

LEMMA FeedStep ==
    ASSUME CalendarFeed
    PROVE  /\ today' = today /\ res' = res /\ room' = room /\ stayLog' = stayLog
           /\ moveLog' = moveLog /\ raced' = raced
           /\ UNCHANGED txn
BY DEF CalendarFeed, BlockImported, BlockLifted

LEMMA ReservationUpdates ==
    ASSUME NEW s \in Reservation
    PROVE  /\ \A new \in Statuses : [s EXCEPT !.status = new] \in Reservation
           /\ \A a, d \in Days : [s EXCEPT !.arr = a, !.dep = d] \in Reservation
           /\ \A R \in SUBSET Rooms : [s EXCEPT !.rooms = R] \in Reservation
<1>1. ASSUME NEW new \in Statuses PROVE [s EXCEPT !.status = new] \in Reservation
  BY DEF Reservation
<1>2. ASSUME NEW a \in Days, NEW d \in Days
      PROVE  [s EXCEPT !.arr = a, !.dep = d] \in Reservation
  <2>1. [s EXCEPT !.arr = a] \in Reservation
    BY DEF Reservation
  <2>2. [s EXCEPT !.arr = a, !.dep = d] = [[s EXCEPT !.arr = a] EXCEPT !.dep = d]
    BY DEF Reservation
  <2> QED
    BY <2>1, <2>2 DEF Reservation
<1>3. ASSUME NEW R \in SUBSET Rooms PROVE [s EXCEPT !.rooms = R] \in Reservation
  BY DEF Reservation
<1> QED
  BY <1>1, <1>2, <1>3

(* A worker that is not idle serves a request. *)
Busy == \A w \in Workers : pc[w] = "idle" \/ req[w] \in Request

TypeInv == TypeOK /\ Busy

LEMMA InitTypeInv == Init => TypeInv
BY InventoryAssumption DEF Init, TypeInv, TypeOK, Busy, Days, Reservation, Statuses, NoReservation,
   RoomStatus, View, NoView

LEMMA NextTypeInv == TypeInv /\ [Next]_vars => TypeInv'
<1> SUFFICES ASSUME TypeInv, [Next]_vars PROVE TypeInv'
  OBVIOUS
<1> USE DEF TypeInv
<1>v. View = [res : [Res -> Reservation], room : [Rooms -> RoomStatus],
             blocks : SUBSET CalendarBlocks]
  BY DEF View
<1>c. Committed \in View
  BY DEF TypeOK, Committed, View
<1>n. NoView \in View
  BY InventoryAssumption DEF NoView, View, NoReservation, Reservation, Statuses, RoomStatus, Days
<1>1. ASSUME NEW w \in Workers, BeginSome(w) PROVE TypeInv'
  <2>1. ASSUME NEW r \in Res, NEW rooms \in SUBSET Rooms, NEW s \in StayDates,
               BeginBook(w, r, rooms, s[1], s[2])
        PROVE  TypeInv'
    <3>1. s[1] \in Days /\ s[2] \in Days
      BY InventoryAssumption
    <3>2. [kind |-> "book", r |-> r, rooms |-> rooms, arr |-> s[1], dep |-> s[2]] \in Request
      BY <3>1 DEF Request
    <3>3. snap' \in [Workers -> View]
      BY <2>1, <1>c DEF BeginBook, TakeSnapshot, TypeOK
    <3> QED
      BY <2>1, <3>2, <3>3 DEF BeginBook, Begin, TypeOK, Busy, db
  <2>2. ASSUME NEW q \in Request, BeginOnReservation(w, q) PROVE TypeInv'
    BY <2>2 DEF BeginOnReservation, Begin, TypeOK, Busy, db
  <2>3. ASSUME NEW r \in Res, NEW s \in StayDates, BeginAmend(w, r, s[1], s[2]) PROVE TypeInv'
    <3>1. [kind |-> "amend", r |-> r, arr |-> s[1], dep |-> s[2]] \in Request
      BY InventoryAssumption DEF Request
    <3> QED
      BY <2>3, <2>2, <3>1 DEF BeginAmend
  <2>4. ASSUME NEW r \in Res, NEW from \in Rooms, NEW to \in Rooms, NEW key \in MoveKeys,
               BeginMove(w, r, from, to, key)
        PROVE  TypeInv'
    <3>1. [kind |-> "move", r |-> r, from |-> from, to |-> to, key |-> key] \in Request
      BY DEF Request
    <3> QED
      BY <2>4, <2>2, <3>1 DEF BeginMove
  <2>5. ASSUME NEW r \in Res, NEW kind \in {"check_in", "check_out", "cancel", "no_show"},
               BeginSimple(w, r, kind)
        PROVE  TypeInv'
    <3>1. [kind |-> kind, r |-> r] \in Request
      BY DEF Request
    <3> QED
      BY <2>5, <2>2, <3>1 DEF BeginSimple
  <2> QED
    BY <1>1, <2>1, <2>3, <2>4, <2>5 DEF BeginSome
<1>2. ASSUME NEW w \in Workers, LockReservation(w) PROVE TypeInv'
  <2>1. req[w] \in Request /\ req[w].r \in Res
    BY <1>2, RequestFields DEF LockReservation, Busy
  <2>2. snap' \in [Workers -> View]
    BY <1>2, <1>c DEF LockReservation, TakeSnapshot, TypeOK
  <2>3. want' \in [Workers -> SUBSET Rooms]
    <3>1. res[req[w].r].rooms \in SUBSET Rooms
      BY <2>1 DEF TypeOK, Reservation
    <3>2. req[w].kind = "move" => {req[w].to} \in SUBSET Rooms
      BY <2>1, RequestFields
    <3> QED
      BY <1>2, <3>1, <3>2 DEF LockReservation, TypeOK
  <2> QED
    BY <1>2, <2>1, <2>2, <2>3 DEF LockReservation, TypeOK, Busy, db
<1>3. ASSUME NEW w \in Workers, NEW m \in Rooms, LockRoom(w, m) PROVE TypeInv'
  BY <1>3 DEF LockRoom, TypeOK, Busy, db
<1>4. ASSUME NEW w \in Workers, Check(w) PROVE TypeInv'
  <2>1. req[w] \in Request /\ req[w].r \in Res
    BY <1>4, RequestFields DEF Check, Busy
  <2>2. Seen(w) \in View
    BY <1>c DEF Seen, TypeOK
  <2>3. StillToLock(w) \in SUBSET Rooms
    <3>1. Seen(w).res[req[w].r].rooms \in SUBSET Rooms
      BY <2>1, <2>2 DEF View, Reservation
    <3>2. req[w].kind = "move" => {req[w].from} \in SUBSET Rooms
      BY <2>1, RequestFields
    <3> QED
      BY <3>1, <3>2 DEF StillToLock
  <2> QED
    BY <1>4, <2>3 DEF Check, TypeOK, Busy, db
<1>5. ASSUME NEW w \in Workers, End(w)
      PROVE  /\ pc' \in [Workers -> {"idle", "reservation", "rooms", "check", "release", "commit"}]
             /\ req' \in [Workers -> Request \cup {NoRequest}]
             /\ want' \in [Workers -> SUBSET Rooms]
             /\ snap' \in [Workers -> View]
             /\ resLock' \in [Res -> Workers \cup {Nobody}]
             /\ roomLock' \in [Rooms -> Workers \cup {Nobody}]
             /\ Busy'
  BY <1>5, <1>n DEF End, TypeOK, Busy
<1>6. ASSUME NEW w \in Workers, Rollback(w) PROVE TypeInv'
  BY <1>6, <1>5 DEF Rollback, TypeOK, db
<1>7. ASSUME NEW w \in Workers, Refuse(w) PROVE TypeInv'
  BY <1>7, <1>6 DEF Refuse
<1>8. ASSUME NEW w \in Workers, Commit(w) PROVE TypeInv'
  <2>1. req[w] \in Request /\ req[w].r \in Res
    BY <1>8, RequestFields DEF Commit, Busy
  <2>2. SUFFICES /\ res' \in [Res -> Reservation]
                 /\ room' \in [Rooms -> RoomStatus]
                 /\ stayLog' \subseteq Res \X Days \X Days
                 /\ moveLog' \subseteq Res \X MoveKeys
                 /\ raced' \subseteq Res
    <3>1. overtaken' \subseteq Workers
      BY <1>8 DEF Commit, PastCheck, TypeOK
    <3> QED
      BY <1>8, <1>5, <3>1 DEF Commit, TypeOK
  <2>3. CASE CommitBook(w)
    BY <2>3, <2>1, RequestFields DEF CommitBook, TypeOK, Reservation, Statuses
  <2>4. CASE CommitAmend(w)
    <3>1. req[w].arr \in Days /\ req[w].dep \in Days
      BY <2>4, <2>1, RequestFields DEF CommitAmend
    <3>2. [res[req[w].r] EXCEPT !.arr = req[w].arr, !.dep = req[w].dep] \in Reservation
      BY <2>1, <3>1, ReservationUpdates DEF TypeOK
    <3>3. res' \in [Res -> Reservation]
      BY <2>4, <2>1, <3>2 DEF CommitAmend, TypeOK
    <3>4. stayLog' \subseteq Res \X Days \X Days
      BY <2>4, <2>1, <3>1 DEF CommitAmend, TypeOK
    <3> QED
      BY <2>4, <3>3, <3>4 DEF CommitAmend, TypeOK
  <2>5. CASE CommitMove(w)
    <3>1. req[w].from \in Rooms /\ req[w].to \in Rooms /\ req[w].key \in MoveKeys
      BY <2>5, <2>1, RequestFields DEF CommitMove
    <3>2. [res[req[w].r] EXCEPT
            !.rooms = (res[req[w].r].rooms \ {req[w].from}) \cup {req[w].to}] \in Reservation
      <4>1. (res[req[w].r].rooms \ {req[w].from}) \cup {req[w].to} \in SUBSET Rooms
        BY <2>1, <3>1 DEF TypeOK, Reservation
      <4> QED
        BY <2>1, <4>1, ReservationUpdates DEF TypeOK
    <3>3. res' \in [Res -> Reservation]
      BY <2>5, <2>1, <3>2 DEF CommitMove, TypeOK
    <3>4. room' \in [Rooms -> RoomStatus]
      BY <2>5, <3>1 DEF CommitMove, TypeOK, RoomStatus
    <3>5. moveLog' \subseteq Res \X MoveKeys
      BY <2>5, <2>1, <3>1 DEF CommitMove, TypeOK
    <3> QED
      BY <2>5, <3>3, <3>4, <3>5 DEF CommitMove, TypeOK
  <2>t. ASSUME NEW s \in Statuses PROVE [res EXCEPT ![req[w].r].status = s] \in [Res -> Reservation]
    BY <2>1 DEF TypeOK, Reservation
  <2>6. CASE CommitCheckIn(w)
    BY <2>6, <2>t DEF CommitCheckIn, Update, TypeOK, Statuses, RoomStatus
  <2>7. CASE CommitCheckOut(w)
    <3>1. res' \in [Res -> Reservation]
      BY <2>7, <2>t DEF CommitCheckOut, Statuses
    <3>2. room' \in [Rooms -> RoomStatus]
      BY <2>7 DEF CommitCheckOut, Update, TypeOK, RoomStatus
    <3> QED
      BY <2>7, <3>1, <3>2 DEF CommitCheckOut, TypeOK
  <2>8. CASE CommitCancel(w)
    <3>1. res' \in [Res -> Reservation]
      BY <2>8, <2>t DEF CommitCancel, Statuses
    <3>2. room' \in [Rooms -> RoomStatus]
      BY <2>8 DEF CommitCancel, Update, TypeOK, RoomStatus
    <3> QED
      BY <2>8, <3>1, <3>2 DEF CommitCancel, TypeOK
  <2> QED
    BY <1>8, <2>3, <2>4, <2>5, <2>6, <2>7, <2>8 DEF Commit
<1>9. ASSUME NEW m \in Rooms, StaffWork(m)
      PROVE  TypeInv'
  <2>1. room' \in [Rooms -> RoomStatus]
    <3>1. ASSUME NEW op \in {"Available", "Occupied", "Out of Service"}, NEW ready \in BOOLEAN
          PROVE  [room EXCEPT ![m] = [op |-> op, ready |-> ready]] \in [Rooms -> RoomStatus]
      BY DEF TypeOK, RoomStatus
    <3>2. CASE RoomMadeReady(m)
      BY <3>2 DEF RoomMadeReady, TypeOK, RoomStatus
    <3>5. CASE RoomTakenForCleaning(m)
      BY <3>5 DEF RoomTakenForCleaning, TypeOK, RoomStatus
    <3>3. CASE RoomTakenOutOfService(m)
      BY <3>3 DEF RoomTakenOutOfService, TypeOK, RoomStatus
    <3>4. CASE RoomReturned(m)
      BY <3>4, <3>1 DEF RoomReturned
    <3> QED
      BY <1>9, <3>2, <3>3, <3>4, <3>5 DEF StaffWork
  <2> QED
    BY <1>9, <2>1 DEF StaffWork, RoomTakenForCleaning, RoomMadeReady, RoomTakenOutOfService, RoomReturned, TypeOK, Busy, txn
<1>10. CASE NextDay
  BY <1>10, InventoryAssumption DEF NextDay, TypeOK, Busy, Days, db, txn
<1>12. ASSUME NEW b \in CalendarBlocks, BlockImported(b) \/ BlockLifted(b) PROVE TypeInv'
  BY <1>12 DEF BlockImported, BlockLifted, PastCheck, TypeOK, Busy, txn
<1>11. CASE UNCHANGED vars
  BY <1>11 DEF vars, TypeOK, Busy
<1> QED
  BY <1>1, <1>2, <1>3, <1>4, <1>6, <1>7, <1>8, <1>9, <1>10, <1>11, <1>12 DEF Next, Proceed

(* Every value the inventory ever holds is one the database can hold. *)
THEOREM TypeCorrect == Spec => []TypeOK
<1>1. TypeInv /\ [Next]_vars => TypeInv'
  BY NextTypeInv
<1>2. TypeInv => TypeOK
  BY DEF TypeInv
<1> QED
  BY InitTypeInv, <1>1, <1>2, PTL DEF Spec
-----------------------------------------------------------------------------
(***************************************************************************)
(* Locks.  From LockReservation to its end a handler on a reservation      *)
(* holds that row.  From its check on, a booking holds the rooms it books  *)
(* and a move the room it moves to.                                        *)
(***************************************************************************)
Started == {"rooms", "check", "release", "commit"}

Needed(w) ==
    {m \in Rooms : \/ req[w].kind = "book" /\ m \in req[w].rooms
                   \/ req[w].kind = "move" /\ m = req[w].to}

LocksOf(w) ==
    /\ req[w].kind = "book" => pc[w] # "reservation"
    /\ pc[w] \in Started /\ req[w].kind # "book" => resLock[req[w].r] = w
    /\ \A m \in Needed(w) :
          /\ pc[w] = "rooms" => m \in want[w] \/ roomLock[m] = w
          /\ pc[w] \in {"check", "release", "commit"} => roomLock[m] = w

Locks == \A w \in Workers : LocksOf(w)

LEMMA InitLocks == Init => Locks
BY DEF Init, Locks, LocksOf, Started, NoRequest, Needed

(* What a step of w leaves of the locks of another worker. *)
LEMMA LocksOfOthers ==
    ASSUME TypeInv, NEW w \in Workers, NEW v \in Workers \ {w}, LocksOf(v),
           pc'[v] = pc[v], req'[v] = req[v], want'[v] = want[v],
           \A r \in Res : resLock[r] = v => resLock'[r] = v,
           \A m \in Rooms : roomLock[m] = v => roomLock'[m] = v
    PROVE  LocksOf(v)'
<1>1. Needed(v)' = Needed(v)
  BY DEF Needed
<1>2. pc[v] \in Started => req[v].r \in Res
  BY RequestFields DEF TypeInv, Busy, Started
<1>3. Needed(v) \subseteq Rooms
  BY DEF Needed
<1> QED
  BY <1>1, <1>2, <1>3 DEF LocksOf

LEMMA NextLocks == TypeInv /\ Locks /\ [Next]_vars => Locks'
<1> SUFFICES ASSUME TypeInv, Locks, [Next]_vars PROVE Locks'
  OBVIOUS
<1>t. Nobody \notin Workers
  BY InventoryAssumption
<1>1. ASSUME NEW w \in Workers, NEW q, NEW at, Begin(w, q, at),
             want' = [want EXCEPT ![w] = want'[w]],
             q.kind # "book" => at = "reservation",
             q.kind = "book" => at = "rooms" /\ want'[w] = q.rooms
      PROVE  Locks'
  <2>1. LocksOf(w)'
    BY <1>1 DEF Begin, TypeInv, TypeOK, LocksOf, Needed, Started
  <2>2. ASSUME NEW v \in Workers \ {w} PROVE LocksOf(v)'
    BY <1>1, LocksOfOthers DEF Begin, Locks, TypeInv, TypeOK
  <2> QED
    BY <2>1, <2>2 DEF Locks
<1>2. ASSUME NEW w \in Workers, BeginSome(w) PROVE Locks'
  <2>1. ASSUME NEW r \in Res, NEW rooms \in SUBSET Rooms, NEW s \in StayDates,
               BeginBook(w, r, rooms, s[1], s[2])
        PROVE  Locks'
    <3>1. want' = [want EXCEPT ![w] = want'[w]] /\ want'[w] = rooms
      BY <2>1 DEF BeginBook, TypeInv, TypeOK
    <3> QED
      BY <2>1, <3>1, <1>1 DEF BeginBook
  <2>2. ASSUME NEW q, q.kind # "book", BeginOnReservation(w, q) PROVE Locks'
    <3>1. want' = [want EXCEPT ![w] = want'[w]]
      BY <2>2 DEF BeginOnReservation, TypeInv, TypeOK
    <3> QED
      BY <2>2, <3>1, <1>1 DEF BeginOnReservation
  <2> QED
    BY <1>2, <2>1, <2>2 DEF BeginSome, BeginAmend, BeginMove, BeginSimple
<1>3. ASSUME NEW w \in Workers, LockReservation(w) PROVE Locks'
  <2>1. req[w].r \in Res /\ req[w].kind # "book"
    BY <1>3, RequestFields DEF LockReservation, TypeInv, Busy, Locks, LocksOf
  <2>2. LocksOf(w)'
    <3>1. pc'[w] \in {"check", "rooms"} /\ req' = req /\ resLock'[req[w].r] = w
      BY <1>3, <2>1 DEF LockReservation, TypeInv, TypeOK
    <3>2. req[w].kind = "move" => want'[w] = {req[w].to} /\ pc'[w] = "rooms"
      BY <1>3 DEF LockReservation, TypeInv, TypeOK
    <3> QED
      BY <2>1, <3>1, <3>2 DEF LocksOf, Needed, Started
  <2>3. ASSUME NEW v \in Workers \ {w} PROVE LocksOf(v)'
    <3>1. \A r \in Res : resLock[r] = v => resLock'[r] = v
      BY <1>3, <1>t, <2>1 DEF LockReservation, TypeInv, TypeOK
    <3> QED
      BY <1>3, <3>1, LocksOfOthers DEF LockReservation, Locks, TypeInv, TypeOK
  <2> QED
    BY <2>2, <2>3 DEF Locks
<1>4. ASSUME NEW w \in Workers, NEW m \in Rooms, LockRoom(w, m) PROVE Locks'
  <2>1. LocksOf(w)'
    <3>1. req' = req /\ resLock' = resLock /\ Needed(w)' = Needed(w)
      BY <1>4 DEF LockRoom, Needed
    <3>2. roomLock'[m] = w /\ \A k \in Rooms \ {m} : roomLock'[k] = roomLock[k]
      BY <1>4 DEF LockRoom, TypeInv, TypeOK
    <3>3. pc'[w] \in Started /\ want'[w] = want[w] \ {m}
      BY <1>4 DEF LockRoom, TypeInv, TypeOK, Started
    <3>4. pc'[w] = "rooms" => pc[w] = "rooms"
      BY <1>4 DEF LockRoom, TypeInv, TypeOK
    <3>5. pc[w] = "rooms" /\ pc'[w] # "rooms" => want[w] = {m}
      BY <1>4 DEF LockRoom, TypeInv, TypeOK
    <3>6. pc[w] \in {"rooms", "release"}
      BY <1>4 DEF LockRoom
    <3> QED
      BY <3>1, <3>2, <3>3, <3>4, <3>5, <3>6 DEF Locks, LocksOf, Needed, Started
  <2>2. ASSUME NEW v \in Workers \ {w} PROVE LocksOf(v)'
    <3>1. \A k \in Rooms : roomLock[k] = v => roomLock'[k] = v
      BY <1>4, <1>t DEF LockRoom, TypeInv, TypeOK
    <3> QED
      BY <1>4, <3>1, LocksOfOthers DEF LockRoom, Locks, TypeInv, TypeOK
  <2> QED
    BY <2>1, <2>2 DEF Locks
<1>5. ASSUME NEW w \in Workers, Check(w) PROVE Locks'
  <2>1. LocksOf(w)'
    <3>1. pc[w] = "check" /\ pc'[w] \in {"commit", "release"}
      BY <1>5 DEF Check, TypeInv, TypeOK
    <3> QED
      BY <1>5, <3>1 DEF Check, Locks, LocksOf, Needed, Started
  <2>2. ASSUME NEW v \in Workers \ {w} PROVE LocksOf(v)'
    BY <1>5, LocksOfOthers DEF Check, Locks, TypeInv, TypeOK
  <2> QED
    BY <2>1, <2>2 DEF Locks
<1>6. ASSUME NEW w \in Workers, End(w) PROVE Locks'
  <2>1. LocksOf(w)'
    BY <1>6 DEF End, TypeInv, TypeOK, LocksOf, Needed, Started, NoRequest
  <2>2. ASSUME NEW v \in Workers \ {w} PROVE LocksOf(v)'
    BY <1>6, LocksOfOthers DEF End, Locks, TypeInv, TypeOK
  <2> QED
    BY <2>1, <2>2 DEF Locks
<1>7. ASSUME UNCHANGED txn PROVE Locks'
  BY <1>7 DEF txn, Locks, LocksOf, Needed
<1>8. ASSUME NEW m \in Rooms, StaffWork(m)
      PROVE  Locks'
  BY <1>8, <1>7 DEF StaffWork, RoomTakenForCleaning, RoomMadeReady, RoomTakenOutOfService, RoomReturned
<1>9. CASE NextDay \/ CalendarFeed
  BY <1>9, <1>7, FeedStep DEF NextDay
<1>10. CASE UNCHANGED vars
  BY <1>10, <1>7 DEF vars, txn
<1> QED
  BY <1>2, <1>3, <1>4, <1>5, <1>6, <1>8, <1>9, <1>10
     DEF Next, CalendarFeed, Proceed, Rollback, Refuse, Commit
-----------------------------------------------------------------------------
(***************************************************************************)
(* What a handler knows of its reservation.  The row is locked before it   *)
(* is read, so what the transaction sees of it is what is committed, under *)
(* either isolation level, and stays so until the end of the transaction.  *)
(***************************************************************************)
OnReservation(w) == pc[w] \in Started /\ req[w].kind # "book"

DocOf(w) ==
    /\ pc[w] # "idle" /\ req[w].kind # "book" => res[req[w].r].status # "None"
    /\ OnReservation(w) => Seen(w).res[req[w].r] = res[req[w].r]

(* What Check has found out about the status still holds at Commit. *)
DecidedOf(w) ==
    pc[w] \in {"release", "commit"} =>
        /\ req[w].kind = "amend" =>
              /\ Blocking(res[req[w].r])
              /\ res[req[w].r].status = "Checked In" => req[w].arr = res[req[w].r].arr
        /\ req[w].kind \in {"move", "check_out"} => res[req[w].r].status = "Checked In"
        /\ req[w].kind \in {"check_in", "cancel", "no_show"} => res[req[w].r].status = "Confirmed"

Decided == \A w \in Workers : DocOf(w) /\ DecidedOf(w)

LEMMA InitDecided == Init => Decided
BY DEF Init, Decided, DocOf, DecidedOf, OnReservation, Started

LEMMA DecidedOfOthers ==
    ASSUME TypeInv, NEW v \in Workers, DocOf(v), DecidedOf(v),
           pc'[v] = pc[v], req'[v] = req[v], snap'[v] = snap[v],
           pc[v] # "idle" /\ req[v].kind # "book" /\ res[req[v].r].status # "None"
              => res'[req[v].r].status # "None",
           OnReservation(v) => res'[req[v].r] = res[req[v].r]
    PROVE  DocOf(v)' /\ DecidedOf(v)'
<1>1. pc[v] # "idle" => req[v].r \in Res /\ req[v].kind \in AllKinds
  BY RequestFields DEF TypeInv, Busy
<1> QED
  BY <1>1 DEF DocOf, DecidedOf, OnReservation, Started, Seen, Committed, Blocking

(***************************************************************************)
(* What a commit does to reservations: it changes the one it is about, and *)
(* of that one only what its handler writes.                               *)
(***************************************************************************)
SameStay(r) ==
    res'[r].rooms = res[r].rooms /\ res'[r].arr = res[r].arr /\ res'[r].dep = res[r].dep

LEMMA CommitOthers ==
    ASSUME TypeInv, NEW w \in Workers, Commit(w), NEW other \in Res, other # req[w].r
    PROVE  res'[other] = res[other]
<1>1. req[w].r \in Res /\ res \in [Res -> Reservation]
  BY RequestFields DEF Commit, TypeInv, TypeOK, Busy
<1> QED
  BY <1>1 DEF Commit, CommitBook, CommitAmend, CommitMove, CommitCheckIn,
              CommitCheckOut, CommitCancel

(* The one it is about, by kind of request. *)
Written(w, r) ==
    /\ req[w].kind = "book" /\ res[r].status # "None" => res'[r] = res[r]
    /\ req[w].kind = "book" /\ res[r].status = "None" =>
          /\ res'[r].status = "Confirmed"
          /\ res'[r].rooms = req[w].rooms
          /\ res'[r].arr = req[w].arr /\ res'[r].dep = req[w].dep
    /\ req[w].kind = "amend" =>
          /\ res'[r].status = res[r].status
          /\ res'[r].rooms = res[r].rooms
          /\ res'[r].arr = req[w].arr /\ res'[r].dep = req[w].dep
    /\ req[w].kind = "move" =>
          /\ res'[r].status = res[r].status
          /\ res'[r].rooms = (res[r].rooms \ {req[w].from}) \cup {req[w].to}
          /\ res'[r].arr = res[r].arr /\ res'[r].dep = res[r].dep
    /\ req[w].kind = "check_in" => res'[r].status = "Checked In" /\ SameStay(r)
    /\ req[w].kind = "check_out" => res'[r].status = "Checked Out" /\ SameStay(r)
    /\ req[w].kind = "cancel" => res'[r].status = "Cancelled" /\ SameStay(r)
    /\ req[w].kind = "no_show" => res'[r].status = "No Show" /\ SameStay(r)
    /\ req[w].kind \in {"book", "amend", "move", "check_in", "check_out", "cancel", "no_show"}

LEMMA CommitStay ==
    ASSUME TypeInv, NEW w \in Workers, Commit(w)
    PROVE  req[w].r \in Res /\ Written(w, req[w].r)
<1>1. req[w].r \in Res
  BY RequestFields DEF Commit, TypeInv, Busy
<1>2. res \in [Res -> Reservation]
  BY DEF TypeInv, TypeOK
<1>3. CASE CommitBook(w)
  BY <1>1, <1>2, <1>3 DEF CommitBook, Written
<1>4. CASE CommitAmend(w)
  BY <1>1, <1>2, <1>4 DEF CommitAmend, Reservation, Written
<1>5. CASE CommitMove(w)
  BY <1>1, <1>2, <1>5 DEF CommitMove, Reservation, Written
<1>6. CASE CommitCheckIn(w)
  BY <1>1, <1>2, <1>6 DEF CommitCheckIn, Reservation, Written, SameStay
<1>7. CASE CommitCheckOut(w)
  BY <1>1, <1>2, <1>7 DEF CommitCheckOut, Reservation, Written, SameStay
<1>8. CASE CommitCancel(w)
  BY <1>1, <1>2, <1>8 DEF CommitCancel, Reservation, Written, SameStay
<1> QED
  BY <1>3, <1>4, <1>5, <1>6, <1>7, <1>8 DEF Commit

LEMMA NextDecided == TypeInv /\ Locks /\ Decided /\ [Next]_vars => Decided'
<1> SUFFICES ASSUME TypeInv, Locks, Decided, [Next]_vars PROVE Decided'
  OBVIOUS
<1>1. ASSUME NEW w \in Workers, NEW q, NEW at, Begin(w, q, at),
             snap' = [snap EXCEPT ![w] = snap'[w]],
             q.kind # "book" => at = "reservation" /\ res[q.r].status # "None"
      PROVE  Decided'
  <2>1. DocOf(w)' /\ DecidedOf(w)'
    BY <1>1 DEF Begin, db, TypeInv, TypeOK, DocOf, DecidedOf, OnReservation, Started
  <2>2. ASSUME NEW v \in Workers \ {w} PROVE DocOf(v)' /\ DecidedOf(v)'
    BY <1>1, DecidedOfOthers DEF Begin, db, Decided, TypeInv, TypeOK
  <2> QED
    BY <2>1, <2>2 DEF Decided
<1>2. ASSUME NEW w \in Workers, BeginSome(w) PROVE Decided'
  <2>1. ASSUME NEW r \in Res, NEW rooms \in SUBSET Rooms, NEW s \in StayDates,
               BeginBook(w, r, rooms, s[1], s[2])
        PROVE  Decided'
    <3>1. snap' = [snap EXCEPT ![w] = snap'[w]]
      BY <2>1 DEF BeginBook, TakeSnapshot, TypeInv, TypeOK
    <3> QED
      BY <2>1, <3>1, <1>1 DEF BeginBook
  <2>2. ASSUME NEW q, q.kind # "book", BeginOnReservation(w, q) PROVE Decided'
    <3>1. snap' = [snap EXCEPT ![w] = snap'[w]]
      BY <2>2 DEF BeginOnReservation, TypeInv, TypeOK
    <3> QED
      BY <2>2, <3>1, <1>1 DEF BeginOnReservation
  <2> QED
    BY <1>2, <2>1, <2>2 DEF BeginSome, BeginAmend, BeginMove, BeginSimple
<1>3. ASSUME NEW w \in Workers, LockReservation(w) PROVE Decided'
  <2>1. DocOf(w)' /\ DecidedOf(w)'
    <3>1. pc'[w] \in {"check", "rooms"} /\ pc[w] # "idle" /\ req' = req /\ res' = res
      BY <1>3 DEF LockReservation, TypeInv, TypeOK, db
    <3>2. Seen(w)'.res = res'
      BY <1>3 DEF LockReservation, TakeSnapshot, Seen, Committed, TypeInv, TypeOK, db
    <3> QED
      BY <3>1, <3>2 DEF Decided, DocOf, DecidedOf, OnReservation
  <2>2. ASSUME NEW v \in Workers \ {w} PROVE DocOf(v)' /\ DecidedOf(v)'
    <3>1. snap'[v] = snap[v]
      BY <1>3 DEF LockReservation, TakeSnapshot, TypeInv, TypeOK
    <3> QED
      BY <1>3, <3>1, DecidedOfOthers DEF LockReservation, db, Decided, TypeInv, TypeOK
  <2> QED
    BY <2>1, <2>2 DEF Decided
<1>4. ASSUME NEW w \in Workers, NEW m \in Rooms, LockRoom(w, m) PROVE Decided'
  <2>1. DocOf(w)' /\ DecidedOf(w)'
    <3>1. pc'[w] \in {"rooms", "check", "release", "commit"} /\ pc[w] \in {"rooms", "release"}
          /\ (pc'[w] \in {"release", "commit"} => pc[w] = "release")
      BY <1>4 DEF LockRoom, TypeInv, TypeOK
    <3>2. UNCHANGED <<req, res, room, snap>>
      BY <1>4 DEF LockRoom, db
    <3> QED
      BY <3>1, <3>2 DEF Decided, DocOf, DecidedOf, OnReservation, Started, Seen, Committed, Blocking
  <2>2. ASSUME NEW v \in Workers \ {w} PROVE DocOf(v)' /\ DecidedOf(v)'
    BY <1>4, DecidedOfOthers DEF LockRoom, db, Decided, TypeInv, TypeOK
  <2> QED
    BY <2>1, <2>2 DEF Decided
<1>5. ASSUME NEW w \in Workers, Check(w) PROVE Decided'
  <2>1. DocOf(w)' /\ DecidedOf(w)'
    <3>1. pc[w] = "check" /\ pc'[w] \in {"commit", "release"}
      BY <1>5 DEF Check, TypeInv, TypeOK
    <3>2. UNCHANGED <<req, res, room, snap>>
      BY <1>5 DEF Check, db
    <3>3. DocOf(w)'
      BY <3>1, <3>2 DEF Decided, DocOf, OnReservation, Started, Seen, Committed
    <3>4. req[w].kind # "book" => Seen(w).res[req[w].r] = res[req[w].r]
      BY <3>1 DEF Decided, DocOf, OnReservation, Started
    <3>5. DecidedOf(w)'
      BY <1>5, <3>2, <3>4
         DEF Check, Ok, AmendOk, MoveOk, CheckInOk, CheckOutOk, CancelOk, DecidedOf, Blocking
    <3> QED
      BY <3>3, <3>5
  <2>2. ASSUME NEW v \in Workers \ {w} PROVE DocOf(v)' /\ DecidedOf(v)'
    BY <1>5, DecidedOfOthers DEF Check, db, Decided, TypeInv, TypeOK
  <2> QED
    BY <2>1, <2>2 DEF Decided
<1>6. ASSUME NEW w \in Workers, End(w),
             \A r \in Res : res[r].status # "None" => res'[r].status # "None",
             \A v \in Workers \ {w} : OnReservation(v) => res'[req[v].r] = res[req[v].r]
      PROVE  Decided'
  <2>1. DocOf(w)' /\ DecidedOf(w)'
    BY <1>6 DEF End, TypeInv, TypeOK, DocOf, DecidedOf, OnReservation, Started
  <2>2. ASSUME NEW v \in Workers \ {w} PROVE DocOf(v)' /\ DecidedOf(v)'
    <3>1. pc[v] # "idle" => req[v].r \in Res
      BY RequestFields DEF TypeInv, Busy
    <3> QED
      BY <1>6, <3>1, DecidedOfOthers DEF End, Decided, TypeInv, TypeOK
  <2> QED
    BY <2>1, <2>2 DEF Decided
<1>7. ASSUME NEW w \in Workers, Commit(w) PROVE Decided'
  <2>1. req[w].r \in Res /\ pc[w] = "commit"
    BY <1>7, RequestFields DEF Commit, TypeInv, Busy
  <2>2. \A r \in Res : r # req[w].r => res'[r] = res[r]
    BY <1>7, CommitOthers
  <2>3. res[req[w].r].status # "None" => res'[req[w].r].status # "None"
    BY <1>7, CommitStay DEF Written
  <2>4. req[w].kind = "book" /\ res[req[w].r].status # "None"
        => res'[req[w].r] = res[req[w].r]
    BY <1>7, CommitStay DEF Written
  <2>5. ASSUME NEW v \in Workers \ {w}, OnReservation(v)
        PROVE  res'[req[v].r] = res[req[v].r]
    <3>1. req[v].r \in Res /\ resLock[req[v].r] = v /\ res[req[v].r].status # "None"
      BY <2>5, RequestFields
         DEF OnReservation, Locks, LocksOf, Decided, DocOf, TypeInv, Busy, Started
    <3>2. req[w].kind # "book" => resLock[req[w].r] = w
      BY <2>1 DEF Locks, LocksOf, Started
    <3> QED
      BY <2>2, <2>4, <3>1, <3>2
  <2> QED
    BY <1>7, <1>6, <2>2, <2>3, <2>5 DEF Commit
<1>8. ASSUME NEW w \in Workers, Rollback(w) PROVE Decided'
  BY <1>8, <1>6 DEF Rollback, db
<1>9. ASSUME UNCHANGED <<txn, res>> PROVE Decided'
  BY <1>9, DecidedOfOthers DEF txn, Decided
<1>10. ASSUME NEW m \in Rooms, StaffWork(m)
      PROVE  Decided'
  BY <1>10, <1>9 DEF StaffWork, RoomTakenForCleaning, RoomMadeReady, RoomTakenOutOfService, RoomReturned
<1>11. CASE NextDay \/ CalendarFeed
  BY <1>11, <1>9, FeedStep DEF NextDay, db
<1>12. CASE UNCHANGED vars
  BY <1>12, <1>9 DEF vars, txn
<1> QED
  BY <1>2, <1>3, <1>4, <1>5, <1>7, <1>8, <1>10, <1>11, <1>12 DEF Next, CalendarFeed, Proceed, Refuse
-----------------------------------------------------------------------------
(* A step that is not a commit changes no reservation and no change log. *)
LEMMA OnlyCommitsWrite ==
    ASSUME [Next]_vars, \A w \in Workers : ~Commit(w)
    PROVE  UNCHANGED <<res, stayLog, raced>>
<1>1. ASSUME NEW w \in Workers, BeginSome(w) \/ Proceed(w) \/ Rollback(w)
      PROVE  UNCHANGED <<res, stayLog, raced>>
  <2>1. CASE BeginSome(w)
    BY <2>1 DEF BeginSome, BeginBook, BeginAmend, BeginMove, BeginSimple, BeginOnReservation,
                Begin, db
  <2>2. CASE Proceed(w)
    BY <2>2 DEF Proceed, LockReservation, LockRoom, Check, Refuse, Rollback, db
  <2>3. CASE Rollback(w)
    BY <2>3 DEF Rollback, db
  <2> QED
    BY <1>1, <2>1, <2>2, <2>3
<1>2. ASSUME NEW m \in Rooms, StaffWork(m)
      PROVE  UNCHANGED <<res, stayLog, raced>>
  BY <1>2 DEF StaffWork, RoomTakenForCleaning, RoomMadeReady, RoomTakenOutOfService, RoomReturned
<1>3. CASE NextDay \/ CalendarFeed
  BY <1>3, FeedStep DEF NextDay, db
<1>4. CASE UNCHANGED vars
  BY <1>4 DEF vars
<1> QED
  BY <1>1, <1>2, <1>3, <1>4 DEF Next, CalendarFeed

LifecycleInv == TypeInv /\ Locks /\ Decided

LEMMA InitLifecycleInv == Init => LifecycleInv
BY InitTypeInv, InitLocks, InitDecided DEF LifecycleInv

LEMMA NextLifecycleInv == LifecycleInv /\ [Next]_vars => LifecycleInv'
BY NextTypeInv, NextLocks, NextDecided DEF LifecycleInv

(* The status a committing handler starts from. *)
LEMMA CommitFrom ==
    ASSUME LifecycleInv, NEW w \in Workers, Commit(w)
    PROVE  /\ req[w].kind = "amend" =>
                 /\ Blocking(res[req[w].r])
                 /\ res[req[w].r].status = "Checked In" => req[w].arr = res[req[w].r].arr
           /\ req[w].kind \in {"move", "check_out"} => res[req[w].r].status = "Checked In"
           /\ req[w].kind \in {"check_in", "cancel", "no_show"} => res[req[w].r].status = "Confirmed"
BY DEF Commit, LifecycleInv, Decided, DecidedOf

(* Reservations only go forward, at either isolation level: the row lock is *)
(* taken before the row is read, and a duplicate booking writes nothing.    *)
THEOREM Lifecycle == Spec => LifecycleForward
<1>1. LifecycleInv /\ [Next]_vars => [\A r \in Res : res'[r].status \in After(res[r].status)]_vars
  <2> SUFFICES ASSUME LifecycleInv, [Next]_vars, NEW r \in Res
               PROVE  res'[r].status \in After(res[r].status)
    OBVIOUS
  <2>1. res[r].status \in After(res[r].status)
    BY DEF After
  <2>2. ASSUME NEW w \in Workers, Commit(w) PROVE res'[r].status \in After(res[r].status)
    <3>1. CASE r # req[w].r
      BY <2>1, <2>2, <3>1, CommitOthers DEF LifecycleInv
    <3>2. CASE r = req[w].r
      <4>1. Written(w, r)
        BY <2>2, <3>2, CommitStay DEF LifecycleInv
      <4>2. /\ req[w].kind = "check_out" => res[r].status = "Checked In"
            /\ req[w].kind \in {"check_in", "cancel", "no_show"} => res[r].status = "Confirmed"
        BY <2>2, <3>2, CommitFrom
      <4>3. \/ res'[r].status = res[r].status
            \/ res[r].status = "None" /\ res'[r].status = "Confirmed"
            \/ res[r].status = "Confirmed" /\ res'[r].status \in {"Checked In", "Cancelled", "No Show"}
            \/ res[r].status = "Checked In" /\ res'[r].status = "Checked Out"
        BY <4>1, <4>2 DEF Written
      <4> QED
        BY <2>1, <4>3 DEF After
    <3> QED
      BY <3>1, <3>2
  <2> QED
    BY <2>1, <2>2, OnlyCommitsWrite
<1> QED
  BY <1>1, InitLifecycleInv, NextLifecycleInv, PTL DEF Spec, LifecycleForward

(* What is over does not change, and a guest in the house keeps the arrival date. *)
THEOREM History == Spec => StayIsHistory
<1> DEFINE Kept(r) ==
       /\ res[r].status \in {"Checked Out", "Cancelled", "No Show"} => res'[r] = res[r]
       /\ res[r].status = "Checked In" => res'[r].arr = res[r].arr
<1>1. LifecycleInv /\ [Next]_vars => [\A r \in Res : Kept(r)]_vars
  <2> SUFFICES ASSUME LifecycleInv, [Next]_vars, NEW r \in Res PROVE Kept(r)
    OBVIOUS
  <2>1. ASSUME NEW w \in Workers, Commit(w) PROVE Kept(r)
    <3>1. CASE r # req[w].r
      BY <2>1, <3>1, CommitOthers DEF LifecycleInv
    <3>2. CASE r = req[w].r
      <4>1. Written(w, r)
        BY <2>1, <3>2, CommitStay DEF LifecycleInv
      <4>2. /\ req[w].kind = "amend" =>
                  /\ Blocking(res[r])
                  /\ res[r].status = "Checked In" => req[w].arr = res[r].arr
            /\ req[w].kind \in {"move", "check_out"} => res[r].status = "Checked In"
            /\ req[w].kind \in {"check_in", "cancel", "no_show"} => res[r].status = "Confirmed"
        BY <2>1, <3>2, CommitFrom
      <4> QED
        BY <4>1, <4>2 DEF Written, SameStay, Blocking
    <3> QED
      BY <3>1, <3>2
  <2> QED
    BY <2>1, OnlyCommitsWrite
<1> QED
  BY <1>1, InitLifecycleInv, NextLifecycleInv, PTL DEF Spec, StayIsHistory
-----------------------------------------------------------------------------
(***************************************************************************)
(* No room is sold twice, where plain selects read committed rows.  What a *)
(* booking or a move has found free stays free until it commits, because   *)
(* every other handler that gives rooms away needs the lock it holds; only *)
(* amend_stay does without.                                                *)
(***************************************************************************)
Promised(w, m, n) ==
    \/ /\ req[w].kind = "book" /\ m \in req[w].rooms
       /\ req[w].arr <= n /\ n < req[w].dep
    \/ req[w].kind = "move" /\ m = req[w].to /\ n < res[req[w].r].dep

FreeOf(w) ==
    pc[w] \in {"release", "commit"} =>
        \A other \in Res, m \in Rooms, n \in Days :
            /\ other # req[w].r /\ n >= today
            /\ Promised(w, m, n) /\ Holds(other, m, n)
            => other \in Amended

ClashInv ==
    /\ LifecycleInv
    /\ \A w \in Workers : FreeOf(w)
    /\ OnlyAmendedStaysClash

LEMMA CheckedFree ==
    ASSUME RepeatableRead = FALSE, TypeInv, NEW w \in Workers, Check(w),
           NEW other \in Res, NEW m \in Rooms, NEW n \in Days,
           other # req[w].r, n >= today, Promised(w, m, n), Holds(other, m, n)
    PROVE  FALSE
<1>1. Seen(w) = Committed /\ Committed.res = res
  BY DEF Seen, Committed
<1>2. res[other] \in Reservation /\ req[w].r \in Res
  BY RequestFields DEF TypeInv, TypeOK, Busy, Check
<1>3. res[other].arr \in Int /\ res[other].dep \in Int /\ today \in Int /\ n \in Int
  BY <1>2, InventoryAssumption DEF Reservation, Days, TypeInv, TypeOK
<1>4. ASSUME NEW arr \in Int, NEW dep \in Int, arr <= n, n < dep
      PROVE  Conflict(Committed, m, arr, dep, req[w].r)
  <2>1. Overlap(res[other], arr, dep)
    BY <1>3, <1>4 DEF Overlap, Holds, Covers
  <2> QED
    BY <1>1, <2>1 DEF Conflict, Holds
<1>5. CASE req[w].kind = "book"
  <2>1. BookOk(Committed, req[w])
    BY <1>1, <1>5 DEF Check, Ok
  <2>2. m \in AvailableRooms(Committed, req[w].arr, req[w].dep, req[w].r)
    BY <1>5, <2>1 DEF BookOk, Promised
  <2>3. req[w].arr \in Int /\ req[w].dep \in Int
    BY <1>5, RequestFields, InventoryAssumption DEF TypeInv, Busy, Check, Days
  <2> QED
    BY <1>4, <1>5, <2>2, <2>3 DEF AvailableRooms, Promised
<1>6. CASE req[w].kind = "move"
  <2>1. MoveOk(Committed, req[w])
    BY <1>1, <1>6 DEF Check, Ok
  <2>2. m \in AvailableRooms(Committed, today, res[req[w].r].dep, req[w].r)
    BY <1>1, <1>6, <2>1 DEF MoveOk, Promised
  <2>3. res[req[w].r].dep \in Int
    BY <1>2, InventoryAssumption DEF TypeInv, TypeOK, Reservation, Days
  <2> QED
    BY <1>3, <1>4, <1>6, <2>2, <2>3 DEF AvailableRooms, Promised
<1> QED
  BY <1>5, <1>6 DEF Promised

LEMMA AmendedGrows ==
    ASSUME [Next]_vars, TypeInv PROVE Amended \subseteq Amended'
<1>1. stayLog \subseteq stayLog'
  <2>1. ASSUME NEW w \in Workers, Commit(w) PROVE stayLog \subseteq stayLog'
    BY <2>1 DEF Commit, CommitBook, CommitAmend, CommitMove, CommitCheckIn, CommitCheckOut,
                CommitCancel
  <2> QED
    BY <2>1, OnlyCommitsWrite
<1> QED
  BY <1>1 DEF Amended

(* A reservation that holds a room-night after a commit held it before, or has *)
(* been amended, or was promised it.                                           *)
LEMMA NewNights ==
    ASSUME LifecycleInv, NEW w \in Workers, Commit(w), NEW r \in Res, NEW m \in Rooms,
           NEW n \in Days, Holds(r, m, n)'
    PROVE  \/ Holds(r, m, n)
           \/ r = req[w].r /\ r \in Amended'
           \/ r = req[w].r /\ Promised(w, m, n)
<1>1. CASE r # req[w].r
  BY <1>1, CommitOthers DEF LifecycleInv, Holds, Covers, Blocking
<1>2. CASE r = req[w].r
  <2>1. Written(w, r) /\ TypeInv
    BY <1>2, CommitStay DEF LifecycleInv
  <2>2. CASE req[w].kind = "book"
    BY <1>2, <2>1, <2>2 DEF Written, Holds, Promised, Covers, Blocking
  <2>3. CASE req[w].kind = "amend"
    <3>1. <<r, req[w].arr, req[w].dep>> \in stayLog'
      BY <1>2, <2>3 DEF Commit, CommitBook, CommitAmend, CommitMove, CommitCheckIn,
                        CommitCheckOut, CommitCancel
    <3>2. req[w].arr \in Days /\ req[w].dep \in Days
      BY <2>1, <2>3, RequestFields DEF Commit, TypeInv, Busy
    <3> QED
      BY <1>2, <3>1, <3>2 DEF Amended
  <2>4. CASE req[w].kind = "move"
    BY <1>2, <2>1, <2>4 DEF Written, Holds, Promised, Covers, Blocking
  <2>5. CASE req[w].kind = "check_in"
    <3>1. res[r].status = "Confirmed"
      BY <1>2, <2>5, CommitFrom
    <3> QED
      BY <2>1, <2>5, <3>1 DEF Written, SameStay, Holds, Covers, Blocking
  <2>6. CASE req[w].kind \in {"check_out", "cancel", "no_show"}
    BY <2>1, <2>6 DEF Written, Holds, Blocking
  <2> QED
    BY <2>1, <2>2, <2>3, <2>4, <2>5, <2>6 DEF Written
<1> QED
  BY <1>1, <1>2

(* Two handlers never promise the same room at the same time. *)
LEMMA PromiseNeedsLock ==
    ASSUME LifecycleInv, NEW w \in Workers, pc[w] \in {"release", "commit"},
           NEW m \in Rooms, NEW n \in Days, Promised(w, m, n)
    PROVE  roomLock[m] = w
BY DEF LifecycleInv, Locks, LocksOf, Needed, Promised

LEMMA DaysAreNumbers == Days \subseteq Int
BY InventoryAssumption DEF Days

(* Time does not go back. *)
LEMMA TodayGrows ==
    ASSUME TypeInv, [Next]_vars
    PROVE  today \in Int /\ today' \in Int /\ today <= today'
<1>1. today \in Int /\ today' \in Int
  BY NextTypeInv, DaysAreNumbers DEF TypeInv, TypeOK
<1>2. today' = today \/ NextDay
  <2>1. ASSUME NEW w \in Workers, BeginSome(w) PROVE today' = today
    BY <2>1 DEF BeginSome, BeginBook, BeginAmend, BeginMove, BeginSimple, BeginOnReservation, Begin
  <2>2. ASSUME NEW w \in Workers, Proceed(w) \/ Rollback(w) PROVE today' = today
    BY <2>2 DEF Proceed, LockReservation, LockRoom, Check, Refuse, Rollback, Commit
  <2>3. ASSUME NEW m \in Rooms, StaffWork(m)
        PROVE  today' = today
    BY <2>3 DEF StaffWork, RoomTakenForCleaning, RoomMadeReady, RoomTakenOutOfService, RoomReturned
  <2>4. CASE UNCHANGED vars
    BY <2>4 DEF vars
  <2> QED
    BY <2>1, <2>2, <2>3, <2>4, FeedStep DEF Next, CalendarFeed
<1> QED
  BY <1>1, <1>2 DEF NextDay

LEMMA NextFree ==
    ASSUME RepeatableRead = FALSE, ClashInv, [Next]_vars
    PROVE  \A v \in Workers : FreeOf(v)'
<1> SUFFICES ASSUME NEW v \in Workers, pc'[v] \in {"release", "commit"},
                    NEW other \in Res, NEW m \in Rooms, NEW n \in Days,
                    other # req'[v].r, n >= today', Promised(v, m, n)', Holds(other, m, n)'
             PROVE  other \in Amended'
  BY DEF FreeOf
<1>i. LifecycleInv /\ TypeInv /\ FreeOf(v)
  BY DEF ClashInv, LifecycleInv
<1>d. today \in Int /\ today' \in Int /\ n \in Int /\ today <= today' /\ n >= today
  BY <1>i, TodayGrows, DaysAreNumbers
<1>a. Amended \subseteq Amended'
  BY <1>i, AmendedGrows
\* v keeps the promise it made before this step
<1>1. ASSUME pc[v] \in {"release", "commit"}, req'[v] = req[v],
             Holds(other, m, n), Promised(v, m, n)
      PROVE  other \in Amended'
  BY <1>1, <1>i, <1>d, <1>a DEF FreeOf
<1>2. ASSUME NEW w \in Workers, Commit(w) PROVE other \in Amended'
  <2>1. w # v
    BY <1>2, <1>i DEF Commit, End, TypeInv, TypeOK
  <2>2. pc'[v] = pc[v] /\ req'[v] = req[v]
    BY <1>2, <1>i, <2>1 DEF Commit, End, TypeInv, TypeOK
  <2>3. Promised(v, m, n)
    <3>1. CASE req[v].kind = "book"
      BY <2>2, <3>1 DEF Promised
    <3>2. CASE req[v].kind = "move"
      <4>1. resLock[req[v].r] = v /\ res[req[v].r].status # "None" /\ req[v].r \in Res
        BY <1>i, <2>2, <3>2, RequestFields
           DEF LifecycleInv, Locks, LocksOf, Decided, DocOf, Started, TypeInv, Busy
      <4>2. res'[req[v].r] = res[req[v].r]
        <5>1. CASE req[w].r # req[v].r
          BY <1>2, <1>i, <4>1, <5>1, CommitOthers
        <5>2. CASE req[w].r = req[v].r
          <6>1. req[w].kind = "book"
            BY <1>2, <1>i, <2>1, <4>1, <5>2 DEF LifecycleInv, Locks, LocksOf, Started, Commit
          <6> QED
            BY <1>2, <1>i, <4>1, <5>2, <6>1, CommitStay DEF Written
        <5> QED
          BY <5>1, <5>2
      <4> QED
        BY <2>2, <3>2, <4>2 DEF Promised
    <3> QED
      BY <2>2, <3>1, <3>2 DEF Promised
  <2>4. CASE Holds(other, m, n)
    BY <1>1, <2>2, <2>3, <2>4
  <2>5. CASE other \in Amended'
    BY <2>5
  <2>6. CASE Promised(w, m, n)
    BY <1>2, <1>i, <2>1, <2>2, <2>3, <2>6, PromiseNeedsLock DEF Commit
  <2> QED
    BY <1>2, <1>i, <2>4, <2>5, <2>6, NewNights
<1>3. ASSUME \A w \in Workers : ~Commit(w) PROVE other \in Amended'
  <2>1. Holds(other, m, n) /\ (req'[v] = req[v] => Promised(v, m, n))
    BY <1>3, OnlyCommitsWrite DEF Holds, Promised
  <2>2. CASE pc[v] \in {"release", "commit"} /\ req'[v] = req[v]
    BY <1>1, <2>1, <2>2
  <2>3. CASE Check(v)
    <3>1. req'[v] = req[v] /\ today' = today
      BY <2>3 DEF Check
    <3> QED
      BY <1>i, <2>1, <2>3, <3>1, CheckedFree
  <2>4. (pc[v] \in {"release", "commit"} /\ req'[v] = req[v]) \/ Check(v)
    <3>1. ASSUME NEW w \in Workers, BeginSome(w) \/ Proceed(w) \/ Rollback(w)
          PROVE  (pc[v] \in {"release", "commit"} /\ req'[v] = req[v]) \/ Check(v)
      <4>1. CASE BeginSome(w)
        BY <1>i, <4>1 DEF BeginSome, BeginBook, BeginAmend, BeginMove, BeginSimple,
                          BeginOnReservation, Begin, TypeInv, TypeOK
      <4>2. CASE LockReservation(w)
        BY <1>i, <4>2 DEF LockReservation, TypeInv, TypeOK
      <4>3. ASSUME NEW k \in Rooms, LockRoom(w, k)
            PROVE  pc[v] \in {"release", "commit"} /\ req'[v] = req[v]
        BY <1>i, <4>3 DEF LockRoom, TypeInv, TypeOK
      <4>4. CASE Check(w)
        BY <1>i, <4>4 DEF Check, TypeInv, TypeOK
      <4>5. CASE Rollback(w)
        BY <1>i, <4>5 DEF Rollback, End, TypeInv, TypeOK
      <4> QED
        BY <1>3, <3>1, <4>1, <4>2, <4>3, <4>4, <4>5 DEF Proceed, Refuse
    <3>2. ASSUME UNCHANGED txn
          PROVE  pc[v] \in {"release", "commit"} /\ req'[v] = req[v]
      BY <3>2 DEF txn
    <3> QED
      BY <3>1, <3>2, FeedStep DEF Next, CalendarFeed, StaffWork, RoomTakenForCleaning, RoomMadeReady,
                                  RoomTakenOutOfService, RoomReturned, NextDay, vars, txn
  <2> QED
    BY <2>2, <2>3, <2>4
<1> QED
  BY <1>2, <1>3

LEMMA NextClash ==
    ASSUME RepeatableRead = FALSE, ClashInv, [Next]_vars
    PROVE  OnlyAmendedStaysClash'
<1> SUFFICES ASSUME NEW r \in Res, NEW other \in Res, NEW m \in Rooms, NEW n \in Days,
                    r # other, n >= today', Holds(r, m, n)', Holds(other, m, n)'
             PROVE  r \in Amended' \/ other \in Amended'
  BY DEF OnlyAmendedStaysClash, DoubleBooked, Holds
<1>i. LifecycleInv /\ TypeInv
  BY DEF ClashInv, LifecycleInv
<1>a. Amended \subseteq Amended'
  BY <1>i, AmendedGrows
<1>d. n >= today
  BY <1>i, TodayGrows, DaysAreNumbers
<1>1. ASSUME Holds(r, m, n), Holds(other, m, n) PROVE r \in Amended' \/ other \in Amended'
  BY <1>1, <1>a, <1>d DEF ClashInv, OnlyAmendedStaysClash, DoubleBooked, Holds
<1>2. ASSUME NEW w \in Workers, Commit(w) PROVE r \in Amended' \/ other \in Amended'
  \* the one that w is about is promised the night, the other one has it
  <2>1. ASSUME NEW x \in Res, NEW y \in Res, x = req[w].r, y # x, Promised(w, m, n), Holds(y, m, n)
        PROVE  y \in Amended'
    BY <1>2, <1>a, <1>d, <2>1 DEF ClashInv, FreeOf, Commit
  <2>2. \/ Holds(r, m, n)
        \/ r \in Amended'
        \/ r = req[w].r /\ Promised(w, m, n)
    BY <1>2, <1>i, NewNights
  <2>3. \/ Holds(other, m, n)
        \/ other \in Amended'
        \/ other = req[w].r /\ Promised(w, m, n)
    BY <1>2, <1>i, NewNights
  <2> QED
    BY <1>1, <2>1, <2>2, <2>3
<1>3. ASSUME \A w \in Workers : ~Commit(w) PROVE r \in Amended' \/ other \in Amended'
  BY <1>1, <1>3, OnlyCommitsWrite DEF Holds
<1> QED
  BY <1>2, <1>3

LEMMA InitClashInv == Init => ClashInv
<1>1. Init => \A w \in Workers : FreeOf(w)
  BY DEF Init, FreeOf
<1>2. ASSUME Init, NEW r \in Res PROVE ~Blocking(res[r])
  <2>1. res[r].status = "None"
    BY <1>2 DEF Init, NoReservation
  <2> QED
    BY <2>1 DEF Blocking
<1>3. Init => OnlyAmendedStaysClash
  BY <1>2 DEF OnlyAmendedStaysClash, DoubleBooked
<1> QED
  BY <1>1, <1>3, InitLifecycleInv DEF ClashInv

(* Where plain selects read committed rows, a room is sold twice for a coming  *)
(* night only if amend_stay has changed the dates of one of the two stays.     *)
THEOREM OnlyAmendedStaysEverClash ==
    RepeatableRead = FALSE => (Spec => []OnlyAmendedStaysClash)
<1> SUFFICES ASSUME RepeatableRead = FALSE PROVE Spec => []OnlyAmendedStaysClash
  OBVIOUS
<1>1. ClashInv /\ [Next]_vars => ClashInv'
  BY NextFree, NextClash, NextLifecycleInv DEF ClashInv
<1>2. ClashInv => OnlyAmendedStaysClash
  BY DEF ClashInv
<1> QED
  BY InitClashInv, <1>1, <1>2, PTL DEF Spec
-----------------------------------------------------------------------------
(* Without amend_stay the exception is empty: nothing is written in the log of *)
(* changed stays.                                                              *)

NeverAmended ==
    /\ TypeInv
    /\ stayLog = {}
    /\ \A w \in Workers : pc[w] = "idle" \/ req[w].kind \in Kinds

LEMMA NextNeverAmended ==
    ASSUME "amend" \notin Kinds, NeverAmended, [Next]_vars
    PROVE  NeverAmended'
<1>i. TypeInv /\ TypeInv'
  BY NextTypeInv DEF NeverAmended
<1> SUFFICES /\ stayLog' = {}
             /\ \A v \in Workers : pc'[v] = "idle" \/ req'[v].kind \in Kinds
  BY <1>i DEF NeverAmended
<1>1. ASSUME NEW w \in Workers, NEW q, NEW at, Begin(w, q, at)
      PROVE  stayLog' = {} /\ \A v \in Workers : pc'[v] = "idle" \/ req'[v].kind \in Kinds
  BY <1>1, <1>i DEF NeverAmended, Begin, db, TypeInv, TypeOK
<1>2. ASSUME NEW w \in Workers, BeginSome(w)
      PROVE  stayLog' = {} /\ \A v \in Workers : pc'[v] = "idle" \/ req'[v].kind \in Kinds
  BY <1>1, <1>2 DEF BeginSome, BeginBook, BeginAmend, BeginMove, BeginSimple, BeginOnReservation
<1>3. ASSUME NEW w \in Workers, End(w)
      PROVE  \A v \in Workers : pc'[v] = "idle" \/ req'[v].kind \in Kinds
  BY <1>3, <1>i DEF NeverAmended, End, TypeInv, TypeOK
<1>4. ASSUME NEW w \in Workers, Commit(w)
      PROVE  stayLog' = {} /\ \A v \in Workers : pc'[v] = "idle" \/ req'[v].kind \in Kinds
  <2>1. req[w].kind # "amend"
    BY <1>4 DEF NeverAmended, Commit
  <2>2. stayLog' = stayLog
    BY <1>4, <2>1 DEF Commit, CommitBook, CommitAmend, CommitMove, CommitCheckIn,
                      CommitCheckOut, CommitCancel
  <2> QED
    BY <1>3, <1>4, <2>2 DEF NeverAmended, Commit
<1>5. ASSUME NEW w \in Workers, Rollback(w)
      PROVE  stayLog' = {} /\ \A v \in Workers : pc'[v] = "idle" \/ req'[v].kind \in Kinds
  BY <1>3, <1>5 DEF NeverAmended, Rollback, db
<1>6. ASSUME NEW w \in Workers, LockReservation(w) \/ Check(w) \/ \E m \in Rooms : LockRoom(w, m)
      PROVE  stayLog' = {} /\ \A v \in Workers : pc'[v] = "idle" \/ req'[v].kind \in Kinds
  BY <1>6, <1>i DEF NeverAmended, LockReservation, Check, LockRoom, db, TypeInv, TypeOK
<1>7. ASSUME UNCHANGED <<stayLog, txn>>
      PROVE  stayLog' = {} /\ \A v \in Workers : pc'[v] = "idle" \/ req'[v].kind \in Kinds
  BY <1>7 DEF NeverAmended, txn
<1>8. CASE \E w \in Workers : BeginSome(w) \/ Proceed(w) \/ Rollback(w)
  BY <1>2, <1>4, <1>5, <1>6, <1>8 DEF Proceed, Refuse
<1>9. CASE \/ \E m \in Rooms : StaffWork(m)
           \/ NextDay \/ CalendarFeed
           \/ UNCHANGED vars
  BY <1>7, <1>9, FeedStep DEF StaffWork, RoomTakenForCleaning, RoomMadeReady, RoomTakenOutOfService, RoomReturned, NextDay, vars, db, txn
<1> QED
  BY <1>8, <1>9 DEF Next, CalendarFeed

(* Where plain selects read committed rows and stays are not amended, no room  *)
(* is sold twice for a coming night, whatever the number of rooms, of          *)
(* reservations and of requests served at once.                                *)
THEOREM NoRoomSoldTwice ==
    RepeatableRead = FALSE /\ "amend" \notin Kinds => (Spec => []NoDoubleBooking)
<1> SUFFICES ASSUME RepeatableRead = FALSE, "amend" \notin Kinds PROVE Spec => []NoDoubleBooking
  OBVIOUS
<1>1. Init => NeverAmended
  BY InitTypeInv DEF Init, NeverAmended
<1>2. NeverAmended /\ [Next]_vars => NeverAmended'
  BY NextNeverAmended
<1>3. NeverAmended /\ OnlyAmendedStaysClash => NoDoubleBooking
  BY DEF NeverAmended, OnlyAmendedStaysClash, NoDoubleBooking, Amended
<1>4. Spec => []OnlyAmendedStaysClash
  BY OnlyAmendedStaysEverClash
<1> QED
  BY <1>1, <1>2, <1>3, <1>4, PTL DEF Spec
-----------------------------------------------------------------------------
(***************************************************************************)
(* Who is where: what other channels have blocked, who is in which room,   *)
(* and the refinement of the room calendar.                                *)
(***************************************************************************)

Deciding == {"release", "commit"}

(***************************************************************************)
(* What the steps leave of a handler that has decided.                     *)
(***************************************************************************)

(* Only a check, or a lock after it, brings a handler to its commit. *)
LEMMA HowToDecide ==
    ASSUME TypeInv, [Next]_vars, NEW v \in Workers, pc'[v] \in Deciding
    PROVE  Check(v) \/ (pc[v] \in Deciding /\ req'[v] = req[v] /\ ~Commit(v))
<1> USE DEF Deciding
<1>c. ~Commit(v)
  BY DEF Commit, End, TypeInv, TypeOK
<1>1. ASSUME NEW w \in Workers, BeginSome(w) PROVE pc[v] \in Deciding /\ req'[v] = req[v]
  BY <1>1 DEF BeginSome, BeginBook, BeginAmend, BeginMove, BeginSimple, BeginOnReservation,
              Begin, TypeInv, TypeOK
<1>2. ASSUME NEW w \in Workers, LockReservation(w) PROVE pc[v] \in Deciding /\ req'[v] = req[v]
  BY <1>2 DEF LockReservation, TypeInv, TypeOK
<1>3. ASSUME NEW w \in Workers, NEW m \in Rooms, LockRoom(w, m)
      PROVE  pc[v] \in Deciding /\ req'[v] = req[v]
  BY <1>3 DEF LockRoom, TypeInv, TypeOK
<1>4. ASSUME NEW w \in Workers, Check(w)
      PROVE  Check(v) \/ (pc[v] \in Deciding /\ req'[v] = req[v])
  BY <1>4 DEF Check, TypeInv, TypeOK
<1>5. ASSUME NEW w \in Workers, End(w) PROVE pc[v] \in Deciding /\ req'[v] = req[v]
  BY <1>5 DEF End, TypeInv, TypeOK
<1>6. ASSUME UNCHANGED txn PROVE pc[v] \in Deciding /\ req'[v] = req[v]
  BY <1>6 DEF txn
<1>7. CASE \E w \in Workers : BeginSome(w) \/ Proceed(w) \/ Rollback(w)
  BY <1>c, <1>1, <1>2, <1>3, <1>4, <1>5, <1>7 DEF Proceed, Refuse, Rollback, Commit
<1>8. CASE \/ \E m \in Rooms : StaffWork(m)
           \/ NextDay \/ CalendarFeed
           \/ UNCHANGED vars
  BY <1>c, <1>6, <1>8, FeedStep DEF StaffWork, RoomTakenForCleaning, RoomMadeReady, RoomTakenOutOfService,
                          RoomReturned, NextDay, vars, txn
<1> QED
  BY <1>7, <1>8 DEF Next, CalendarFeed

(* The reservation a handler works on changes only by its own commit. *)
LEMMA OwnStayKept ==
    ASSUME LifecycleInv, [Next]_vars, NEW v \in Workers, OnReservation(v), ~Commit(v)
    PROVE  res'[req[v].r] = res[req[v].r]
<1>1. /\ req[v].r \in Res
      /\ resLock[req[v].r] = v
      /\ res[req[v].r].status # "None"
  BY RequestFields DEF OnReservation, LifecycleInv, Locks, LocksOf, Decided, DocOf, TypeInv,
                       Busy, Started
<1>2. ASSUME NEW w \in Workers, Commit(w) PROVE res'[req[v].r] = res[req[v].r]
  <2>1. w # v /\ TypeInv
    BY <1>2 DEF LifecycleInv
  <2>2. CASE req[w].r # req[v].r
    BY <1>1, <1>2, <2>1, <2>2, CommitOthers
  <2>3. CASE req[w].r = req[v].r
    <3>1. req[w].kind = "book"
      BY <1>1, <1>2, <2>1, <2>3 DEF LifecycleInv, Locks, LocksOf, Started, Commit
    <3> QED
      BY <1>1, <1>2, <2>1, <2>3, <3>1, CommitStay DEF Written
  <2> QED
    BY <2>2, <2>3
<1> QED
  BY <1>2, OnlyCommitsWrite
-----------------------------------------------------------------------------
(***************************************************************************)
(* What other channels have blocked.  Every handler that gives nights to a *)
(* reservation asks for the blocks that are live, amend_stay included; one *)
(* that arrives between its decision and its commit makes it overtaken.    *)
(***************************************************************************)

LEMMA InitNotBlocking ==
    ASSUME Init, NEW r \in Res
    PROVE  res[r].status = "None" /\ ~Blocking(res[r])
<1>1. res[r].status = "None"
  BY DEF Init, NoReservation
<1> QED
  BY <1>1 DEF Blocking

(* The nights a handler that has decided is about to give to its reservation. *)
Granted(w, m, n) ==
    \/ Promised(w, m, n)
    \/ /\ req[w].kind = "amend" /\ m \in res[req[w].r].rooms
       /\ req[w].arr <= n /\ n < req[w].dep

UnblockedOf(w) ==
    pc[w] \in Deciding /\ w \notin overtaken =>
        \A b \in imported, n \in Days :
            n >= today /\ Granted(w, b.room, n) => ~Covers(b, n)

BlocksInv ==
    /\ LifecycleInv
    /\ \A w \in Workers : UnblockedOf(w)

(* While a handler is not overtaken, no block arrives and no other booking commits. *)
LEMMA NotOvertaken ==
    ASSUME TypeInv, [Next]_vars, NEW v \in Workers, pc[v] \in Deciding, pc'[v] \in Deciding,
           v \notin overtaken'
    PROVE  /\ v \notin overtaken
           /\ imported' \subseteq imported
           /\ \A w \in Workers : Commit(w) => req[w].kind # "book"
<1>1. ASSUME NEW w \in Workers, Commit(w)
      PROVE  v \notin overtaken /\ imported' = imported /\ req[w].kind # "book"
  <2>1. w # v
    BY <1>1 DEF Commit, End, TypeInv, TypeOK, Deciding
  <2> QED
    BY <1>1, <2>1 DEF Commit, PastCheck, Deciding, TypeInv, TypeOK
<1>2. ASSUME NEW w \in Workers, Rollback(w) PROVE v \notin overtaken /\ imported' = imported
  <2>1. w # v
    BY <1>2 DEF Rollback, End, TypeInv, TypeOK, Deciding
  <2> QED
    BY <1>2, <2>1 DEF Rollback, db
<1>3. ASSUME NEW w \in Workers, BeginSome(w) PROVE v \notin overtaken /\ imported' = imported
  BY <1>3 DEF BeginSome, BeginBook, BeginAmend, BeginMove, BeginSimple, BeginOnReservation,
              Begin, db
<1>4. ASSUME NEW w \in Workers, Proceed(w) PROVE v \notin overtaken /\ imported' = imported
  BY <1>1, <1>2, <1>4 DEF Proceed, LockReservation, LockRoom, Check, Refuse, db
<1>5. ASSUME NEW b \in CalendarBlocks, BlockImported(b) PROVE FALSE
  BY <1>5 DEF BlockImported, PastCheck, Deciding
<1>6. ASSUME \/ \E m \in Rooms : StaffWork(m)
             \/ \E b \in CalendarBlocks : BlockLifted(b)
             \/ NextDay
             \/ UNCHANGED vars
      PROVE  v \notin overtaken /\ imported' \subseteq imported
  BY <1>6 DEF StaffWork, RoomTakenForCleaning, RoomMadeReady, RoomTakenOutOfService,
              RoomReturned, BlockLifted, NextDay, vars, db
<1>7. v \notin overtaken /\ imported' \subseteq imported
  BY <1>2, <1>3, <1>4, <1>5, <1>6 DEF Next
<1> QED
  BY <1>1, <1>7

LEMMA CheckKeepsBlocks ==
    ASSUME NEW v \in Workers, Check(v)
    PROVE  imported' = imported
BY DEF Check, db

LEMMA CheckedUnblocked ==
    ASSUME RepeatableRead = FALSE, LifecycleInv, NEW w \in Workers, Check(w),
           NEW b \in imported, NEW n \in Days,
           n >= today, Granted(w, b.room, n)
    PROVE  ~Covers(b, n)
<1>t. TypeInv /\ req[w] \in Request /\ req[w].r \in Res /\ b \in CalendarBlocks
  BY RequestFields DEF LifecycleInv, TypeInv, TypeOK, Busy, Check
<1>s. Seen(w).blocks = imported
  BY DEF Seen, Committed
<1>b. b.room \in Rooms /\ b.arr \in Int /\ b.dep \in Int /\ n \in Int /\ today \in Int
  BY <1>t, HoldsAssumption, DaysAreNumbers DEF TypeInv, TypeOK
<1>r. res[req[w].r].dep \in Int
  BY <1>t, DaysAreNumbers DEF TypeInv, TypeOK, Reservation
<1>d. req[w].kind # "book" => Seen(w).res[req[w].r] = res[req[w].r]
  BY DEF LifecycleInv, Decided, DocOf, OnReservation, Started, Check
<1>1. ASSUME NEW arr \in Int, NEW dep \in Int, arr <= n, n < dep,
             b.room \in AvailableRooms(Seen(w), arr, dep, req[w].r)
      PROVE  ~Covers(b, n)
  <2>1. ~Overlap(b, arr, dep)
    BY <1>1, <1>s DEF AvailableRooms, Conflict
  <2> QED
    BY <1>1, <1>b, <2>1 DEF Overlap, Covers
<1>2. CASE req[w].kind = "book"
  <2>1. b.room \in req[w].rooms /\ req[w].arr <= n /\ n < req[w].dep
    BY <1>2 DEF Granted, Promised
  <2>2. req[w].arr \in Int /\ req[w].dep \in Int
    BY <1>2, <1>t, RequestFields, DaysAreNumbers
  <2>3. BookOk(Seen(w), req[w])
    BY <1>2 DEF Check, Ok
  <2> QED
    BY <1>1, <2>1, <2>2, <2>3 DEF BookOk
<1>3. CASE req[w].kind = "move"
  <2>1. b.room = req[w].to /\ n < res[req[w].r].dep
    BY <1>3 DEF Granted, Promised
  <2>2. MoveOk(Seen(w), req[w])
    BY <1>3 DEF Check, Ok
  <2>3. b.room \in AvailableRooms(Seen(w), today, res[req[w].r].dep, req[w].r)
    BY <1>3, <1>d, <2>1, <2>2 DEF MoveOk
  <2> QED
    BY <1>1, <1>b, <1>r, <2>1, <2>3
<1>4. CASE req[w].kind = "amend"
  <2>1. b.room \in res[req[w].r].rooms /\ req[w].arr <= n /\ n < req[w].dep
    BY <1>4 DEF Granted, Promised
  <2>2. req[w].arr \in Int /\ req[w].dep \in Int
    BY <1>4, <1>t, RequestFields, DaysAreNumbers
  <2>3. AmendOk(Seen(w), req[w])
    BY <1>4 DEF Check, Ok
  <2>4. b.room \in AvailableRooms(Seen(w), req[w].arr, req[w].dep, req[w].r)
    BY <1>4, <1>d, <2>1, <2>3 DEF AmendOk
  <2> QED
    BY <1>1, <2>1, <2>2, <2>4
<1> QED
  BY <1>2, <1>3, <1>4 DEF Granted, Promised

(* A reservation that holds a room-night after a commit held it before or was *)
(* granted it by this commit.                                                 *)
LEMMA NightsAreGranted ==
    ASSUME LifecycleInv, NEW w \in Workers, Commit(w), NEW r \in Res, NEW m \in Rooms,
           NEW n \in Days, Holds(r, m, n)'
    PROVE  Holds(r, m, n) \/ (r = req[w].r /\ Granted(w, m, n))
<1>1. CASE r # req[w].r
  BY <1>1, CommitOthers DEF LifecycleInv, Holds, Covers, Blocking
<1>2. CASE r = req[w].r
  <2>1. Written(w, r)
    BY <1>2, CommitStay DEF LifecycleInv
  <2>2. CASE req[w].kind = "amend"
    BY <1>2, <2>1, <2>2 DEF Written, Holds, Granted, Covers
  <2>3. CASE req[w].kind \in {"book", "move"}
    BY <1>2, <2>1, <2>3 DEF Written, Holds, Granted, Promised, Covers, Blocking
  <2>4. CASE req[w].kind = "check_in"
    <3>1. res[r].status = "Confirmed"
      BY <1>2, <2>4, CommitFrom
    <3> QED
      BY <2>1, <2>4, <3>1 DEF Written, SameStay, Holds, Covers, Blocking
  <2>5. CASE req[w].kind \in {"check_out", "cancel", "no_show"}
    BY <2>1, <2>5 DEF Written, Holds, Blocking
  <2> QED
    BY <2>1, <2>2, <2>3, <2>4, <2>5 DEF Written
<1> QED
  BY <1>1, <1>2

LEMMA NextUnblocked ==
    ASSUME RepeatableRead = FALSE, BlocksInv, [Next]_vars, NEW v \in Workers
    PROVE  UnblockedOf(v)'
<1> SUFFICES ASSUME pc'[v] \in Deciding, v \notin overtaken', NEW b \in imported', NEW n \in Days,
                    n >= today', Granted(v, b.room, n)'
             PROVE  ~Covers(b, n)
  BY DEF UnblockedOf, Covers
<1>i. LifecycleInv /\ TypeInv
  BY DEF BlocksInv, LifecycleInv
<1>d. n >= today
  BY <1>i, TodayGrows, DaysAreNumbers
<1>1. Check(v) \/ (pc[v] \in Deciding /\ req'[v] = req[v] /\ ~Commit(v))
  BY <1>i, HowToDecide
<1>2. req'[v] = req[v] /\ ~Commit(v)
  BY <1>1 DEF Check, Commit
<1>3. OnReservation(v) => res'[req[v].r] = res[req[v].r]
  BY <1>i, <1>2, OwnStayKept
<1>4. req[v].kind # "book" => OnReservation(v)
  BY <1>1 DEF OnReservation, Started, Deciding, Check
<1>5. Granted(v, b.room, n)
  BY <1>2, <1>3, <1>4 DEF Granted, Promised
<1>6. CASE Check(v)
  <2>1. b \in imported
    BY <1>6, CheckKeepsBlocks
  <2> QED
    BY <1>i, <1>d, <1>5, <1>6, <2>1, CheckedUnblocked
<1>7. CASE pc[v] \in Deciding
  <2>1. v \notin overtaken /\ b \in imported
    BY <1>i, <1>7, NotOvertaken
  <2> QED
    BY <1>d, <1>5, <1>7, <2>1 DEF BlocksInv, UnblockedOf
<1> QED
  BY <1>1, <1>6, <1>7

(* Where plain selects read committed rows, no handler gives a reservation a   *)
(* coming night that another channel has blocked, unless the block arrives     *)
(* between its decision and its commit: whichever handlers run, and however    *)
(* blocks come and go beside them.                                             *)
THEOREM BlocksAreRespected ==
    RepeatableRead = FALSE => (Spec => CalendarBlocksRespected)
<1> DEFINE Asked ==
       \A w \in Workers \ overtaken, r \in Res :
         Commit(w) /\ req[w].r = r =>
            \A b \in imported, n \in Days :
                /\ n >= today /\ Covers(b, n)
                /\ Holds(r, b.room, n)'
                => Holds(r, b.room, n)
<1> SUFFICES ASSUME RepeatableRead = FALSE PROVE Spec => CalendarBlocksRespected
  OBVIOUS
<1>1. Init => BlocksInv
  <2>1. Init => \A w \in Workers : UnblockedOf(w)
    BY DEF Init, UnblockedOf, Deciding
  <2> QED
    BY <2>1, InitLifecycleInv DEF BlocksInv
<1>2. BlocksInv /\ [Next]_vars => BlocksInv'
  BY NextLifecycleInv, NextUnblocked DEF BlocksInv
<1>3. BlocksInv => Asked
  <2> SUFFICES ASSUME BlocksInv, NEW w \in Workers \ overtaken, Commit(w), req[w].r \in Res,
                      NEW b \in imported, NEW n \in Days, n >= today, Covers(b, n),
                      NEW r \in Res, r = req[w].r, Holds(r, b.room, n)'
               PROVE  Holds(r, b.room, n)
    OBVIOUS
  <2>1. LifecycleInv /\ b.room \in Rooms
    BY HoldsAssumption DEF BlocksInv, LifecycleInv, TypeInv, TypeOK
  <2>2. Holds(r, b.room, n) \/ Granted(w, b.room, n)
    BY <2>1, NightsAreGranted
  <2>3. UnblockedOf(w) /\ pc[w] \in Deciding
    BY DEF BlocksInv, Commit, Deciding
  <2> QED
    BY <2>2, <2>3 DEF UnblockedOf
<1>4. BlocksInv /\ [Next]_vars => [Asked]_vars
  BY <1>3
<1> QED
  BY <1>1, <1>2, <1>4, PTL DEF Spec, CalendarBlocksRespected
-----------------------------------------------------------------------------
(***************************************************************************)
(* Who is in which room.  A check-in and a move find their rooms Available *)
(* while they hold them, and every room row is locked before it is         *)
(* written.  The exception is a cancellation: it looks for occupied rooms  *)
(* before it locks them.                                                   *)
(***************************************************************************)
InHouse(r, m) == res[r].status = "Checked In" /\ m \in res[r].rooms

GuestRoomsOccupied ==
    \A r \in Res, m \in Rooms :
        res[r].status = "Checked In" /\ m \in res[r].rooms => room[m].op # "Available"

(* The rooms a handler brings a guest into, and those it brings one out of. *)
Entered(w) ==
    CASE req[w].kind = "check_in" -> res[req[w].r].rooms
      [] req[w].kind = "move" -> {req[w].to}
      [] OTHER -> {}

Left(w) ==
    CASE req[w].kind = "check_out" -> res[req[w].r].rooms
      [] req[w].kind = "move" -> {req[w].from}
      [] OTHER -> {}

Releases(w) == req[w].kind \in {"cancel", "no_show"}

\* the locks: rooms to enter before the check, rooms to leave before the commit
WritesOf(w) ==
    /\ \A m \in Entered(w) :
          /\ pc[w] = "rooms" => m \in want[w] \/ roomLock[m] = w
          /\ pc[w] \in {"check", "release", "commit"} => roomLock[m] = w
    /\ \A m \in Left(w) :
          /\ pc[w] = "release" => m \in want[w] \/ roomLock[m] = w
          /\ pc[w] = "commit" => roomLock[m] = w

\* the decision: rooms to enter are empty, rooms to leave are the guest's
ReadyOf(w) ==
    pc[w] \in Deciding =>
        /\ \A m \in Entered(w) : room[m].op = "Available"
        /\ \A m \in Left(w) : m \in res[req[w].r].rooms

\* a cancellation: no room it has locked, or is about to lock, has a guest in it
VacantOf(w) ==
    Releases(w) =>
        /\ pc[w] # "rooms"
        /\ pc[w] \in {"reservation", "check"} => \A m \in Rooms : roomLock[m] # w
        /\ pc[w] \in Deciding =>
              \A m \in Rooms : m \in want[w] \/ roomLock[m] = w => ~Occupied(m)

UnlockedOf(w) == pc[w] \in {"idle", "reservation"} => \A m \in Rooms : roomLock[m] # w

(* Cancellations run alone or not at all. *)
Careful ==
    \/ {"cancel", "no_show"} \cap Kinds = {}
    \/ (\A v, w \in Workers : v = w) /\ "maintenance" \notin Kinds

Served == \A w \in Workers : pc[w] = "idle" \/ req[w].kind \in Kinds

InService == "maintenance" \notin Kinds => \A m \in Rooms : room[m].op # "Out of Service"

RoomsInv ==
    /\ LifecycleInv
    /\ \A w \in Workers : WritesOf(w) /\ ReadyOf(w)

GuestInv ==
    /\ RoomsInv
    /\ Served /\ InService
    /\ \A w \in Workers : VacantOf(w) /\ UnlockedOf(w)
    /\ OneGuestPerRoom /\ GuestRoomsOccupied

LEMMA InitGuestInv == Init => GuestInv
<1>1. Init => OneGuestPerRoom /\ GuestRoomsOccupied
  BY InitNotBlocking DEF OneGuestPerRoom, GuestRoomsOccupied
<1>2. ASSUME Init PROVE Served /\ InService
  <2>1. \A m \in Rooms : room[m].op = "Available"
    BY <1>2 DEF Init
  <2> QED
    BY <1>2, <2>1 DEF Init, Served, InService
<1>3. ASSUME Init, NEW w \in Workers PROVE WritesOf(w) /\ ReadyOf(w) /\ VacantOf(w) /\ UnlockedOf(w)
  <2>1. pc[w] = "idle" /\ req[w] = NoRequest /\ \A m \in Rooms : roomLock[m] = Nobody
    BY <1>3 DEF Init
  <2>2. Nobody # w
    BY InventoryAssumption
  <2> QED
    BY <2>1, <2>2 DEF WritesOf, ReadyOf, VacantOf, UnlockedOf, Deciding, Entered, Left, Releases,
                      NoRequest
<1> QED
  BY <1>1, <1>2, <1>3, InitLifecycleInv DEF GuestInv, RoomsInv

(* What a step means for one worker: nothing, or a step of its own. *)
Still(v) ==
    /\ pc'[v] = pc[v] /\ req'[v] = req[v] /\ want'[v] = want[v]
    /\ \A m \in Rooms : roomLock'[m] = v <=> roomLock[m] = v

LEMMA WhoMoves ==
    ASSUME TypeInv, [Next]_vars, NEW v \in Workers
    PROVE  \/ Still(v)
           \/ BeginSome(v)
           \/ LockReservation(v)
           \/ \E m \in Rooms : LockRoom(v, m)
           \/ Check(v)
           \/ End(v)
<1>n. Nobody # v
  BY InventoryAssumption
<1>1. ASSUME NEW w \in Workers \ {v}, BeginSome(w) PROVE Still(v)
  BY <1>1 DEF BeginSome, BeginBook, BeginAmend, BeginMove, BeginSimple, BeginOnReservation,
              Begin, TypeInv, TypeOK, Still
<1>2. ASSUME NEW w \in Workers \ {v}, LockReservation(w) PROVE Still(v)
  BY <1>2 DEF LockReservation, TypeInv, TypeOK, Still
<1>3. ASSUME NEW w \in Workers \ {v}, NEW m \in Rooms, LockRoom(w, m) PROVE Still(v)
  BY <1>n, <1>3 DEF LockRoom, TypeInv, TypeOK, Still
<1>4. ASSUME NEW w \in Workers \ {v}, Check(w) PROVE Still(v)
  BY <1>4 DEF Check, TypeInv, TypeOK, Still
<1>5. ASSUME NEW w \in Workers \ {v}, End(w) PROVE Still(v)
  BY <1>n, <1>5 DEF End, TypeInv, TypeOK, Still
<1>6. ASSUME UNCHANGED txn PROVE Still(v)
  BY <1>6 DEF txn, Still
<1>7. ASSUME NEW w \in Workers, BeginSome(w) \/ Proceed(w) \/ Rollback(w)
      PROVE  \/ BeginSome(w)
             \/ LockReservation(w)
             \/ \E m \in Rooms : LockRoom(w, m)
             \/ Check(w)
             \/ End(w)
  BY <1>7 DEF Proceed, Refuse, Rollback, Commit
<1>8. CASE \/ \E m \in Rooms : StaffWork(m)
           \/ NextDay \/ CalendarFeed
           \/ UNCHANGED vars
  BY <1>6, <1>8, FeedStep DEF StaffWork, RoomTakenForCleaning, RoomMadeReady, RoomTakenOutOfService,
                    RoomReturned, NextDay, vars, txn
<1> QED
  BY <1>1, <1>2, <1>3, <1>4, <1>5, <1>7, <1>8 DEF Next, CalendarFeed

LEMMA RoomsOfRequest ==
    ASSUME TypeInv, NEW v \in Workers, pc[v] # "idle"
    PROVE  Entered(v) \subseteq Rooms /\ Left(v) \subseteq Rooms
<1>1. req[v] \in Request /\ req[v].r \in Res
  BY RequestFields DEF TypeInv, Busy
<1>2. res[req[v].r].rooms \subseteq Rooms
  BY <1>1 DEF TypeInv, TypeOK, Reservation
<1> QED
  BY <1>1, <1>2, RequestFields DEF Entered, Left

(* What a commit writes in the rows of the rooms, *)
LEMMA CommitRooms ==
    ASSUME TypeInv, NEW w \in Workers, Commit(w), NEW m \in Rooms
    PROVE  /\ m \in Entered(w) => room'[m].op = "Occupied"
           /\ m \in Left(w) \ Entered(w) => room'[m].op = "Available"
           /\ Releases(w) => room'[m].op = IF roomLock[m] = w THEN "Available" ELSE room[m].op
           /\ m \notin Entered(w) /\ m \notin Left(w) /\ ~Releases(w) => room'[m].op = room[m].op
<1>1. /\ req[w] \in Request
      /\ room[m] \in RoomStatus
      /\ room \in [Rooms -> RoomStatus]
  BY DEF Commit, TypeInv, TypeOK, Busy
<1>2. CASE CommitBook(w) \/ CommitAmend(w)
  BY <1>2 DEF CommitBook, CommitAmend, Entered, Left, Releases
<1>3. CASE CommitMove(w)
  BY <1>1, <1>3, RequestFields DEF CommitMove, Entered, Left, Releases
<1>4. CASE CommitCheckIn(w)
  BY <1>1, <1>4 DEF CommitCheckIn, Update, Entered, Left, Releases, RoomStatus
<1>5. CASE CommitCheckOut(w)
  BY <1>1, <1>5 DEF CommitCheckOut, Update, Entered, Left, Releases
<1>6. CASE CommitCancel(w)
  BY <1>1, <1>6 DEF CommitCancel, Update, Entered, Left, Releases, RoomStatus
<1> QED
  BY <1>2, <1>3, <1>4, <1>5, <1>6 DEF Commit

(* and who is in them afterwards. *)
LEMMA CommitGuests ==
    ASSUME LifecycleInv, NEW w \in Workers, Commit(w), NEW r \in Res, NEW m \in Rooms,
           InHouse(r, m)'
    PROVE  /\ InHouse(r, m) \/ (r = req[w].r /\ m \in Entered(w))
           /\ r = req[w].r => m \notin Left(w) \ Entered(w)
<1>1. CASE r # req[w].r
  BY <1>1, CommitOthers DEF LifecycleInv, InHouse
<1>2. CASE r = req[w].r
  <2>1. Written(w, r)
    BY <1>2, CommitStay DEF LifecycleInv
  <2>2. CASE req[w].kind \in {"book", "amend"}
    BY <2>1, <2>2 DEF Written, InHouse, Left
  <2>3. CASE req[w].kind = "move"
    BY <1>2, <2>1, <2>3 DEF Written, InHouse, Entered, Left
  <2>4. CASE req[w].kind = "check_in"
    BY <1>2, <2>1, <2>4 DEF Written, SameStay, InHouse, Entered, Left
  <2>5. CASE req[w].kind \in {"check_out", "cancel", "no_show"}
    BY <2>1, <2>5 DEF Written, InHouse
  <2> QED
    BY <2>1, <2>2, <2>3, <2>4, <2>5 DEF Written
<1> QED
  BY <1>1, <1>2

(* The rest of the property changes the status only of rooms nobody has locked, *)
(* and never shows a guest's room as Available.                                 *)
LEMMA RoomsBetweenCommits ==
    ASSUME TypeInv, [Next]_vars, \A w \in Workers : ~Commit(w), NEW m \in Rooms
    PROVE  /\ room'[m].op # room[m].op => roomLock[m] = Nobody /\ "maintenance" \in Kinds
           /\ room'[m].op = "Available" => room[m].op = "Available" \/ ~Occupied(m)
<1> DEFINE Goal ==
       /\ room'[m].op # room[m].op => roomLock[m] = Nobody /\ "maintenance" \in Kinds
       /\ room'[m].op = "Available" => room[m].op = "Available" \/ ~Occupied(m)
<1>t. room \in [Rooms -> RoomStatus]
  BY DEF TypeInv, TypeOK
<1>0. ASSUME room' = room PROVE Goal
  BY <1>0
<1>1. ASSUME NEW w \in Workers, BeginSome(w) \/ Proceed(w) \/ Rollback(w) PROVE room' = room
  <2>1. CASE BeginSome(w)
    BY <2>1 DEF BeginSome, BeginBook, BeginAmend, BeginMove, BeginSimple, BeginOnReservation,
                Begin, db
  <2>2. CASE Proceed(w)
    BY <2>2 DEF Proceed, LockReservation, LockRoom, Check, Refuse, Rollback, db
  <2>3. CASE Rollback(w)
    BY <2>3 DEF Rollback, db
  <2> QED
    BY <1>1, <2>1, <2>2, <2>3
<1>2. ASSUME NEW k \in Rooms, RoomMadeReady(k) \/ RoomTakenForCleaning(k) PROVE Goal
  <2>1. ASSUME NEW b \in BOOLEAN, room' = [room EXCEPT ![k].ready = b] PROVE room'[m].op = room[m].op
    BY <1>t, <2>1 DEF RoomStatus
  <2>2. room'[m].op = room[m].op
    BY <1>2, <2>1 DEF RoomMadeReady, RoomTakenForCleaning
  <2> QED
    BY <2>2
<1>3. ASSUME NEW k \in Rooms, RoomTakenOutOfService(k) PROVE Goal
  BY <1>t, <1>3 DEF RoomTakenOutOfService, RoomStatus
<1>4. ASSUME NEW k \in Rooms, RoomReturned(k) PROVE Goal
  <2>1. CASE m # k
    BY <1>t, <1>4, <2>1 DEF RoomReturned
  <2>2. CASE m = k
    BY <1>t, <1>4, <2>2 DEF RoomReturned, Occupied, InHouse
  <2> QED
    BY <2>1, <2>2
<1>5. CASE NextDay \/ CalendarFeed \/ UNCHANGED vars
  BY <1>0, <1>5, FeedStep DEF NextDay, vars, db
<1> QED
  BY <1>0, <1>1, <1>2, <1>3, <1>4, <1>5 DEF Next, CalendarFeed, StaffWork
-----------------------------------------------------------------------------
(* The locks on the rooms to be written. *)
LEMMA NextWrites ==
    ASSUME RoomsInv, [Next]_vars, NEW v \in Workers
    PROVE  WritesOf(v)'
<1>i. LifecycleInv /\ TypeInv /\ WritesOf(v)
  BY DEF RoomsInv, LifecycleInv
<1>1. CASE Still(v)
  <2>1. SUFFICES ASSUME pc[v] \in Started PROVE WritesOf(v)'
    BY <1>1 DEF WritesOf, Started, Still
  <2>2. ~Commit(v)
    BY <1>i, <1>1, <2>1 DEF Still, Commit, End, TypeInv, TypeOK, Started
  <2>3. req[v].kind # "book" => res'[req[v].r] = res[req[v].r]
    BY <1>i, <2>1, <2>2, OwnStayKept DEF OnReservation
  <2>4. Entered(v)' = Entered(v) /\ Left(v)' = Left(v)
    BY <1>1, <2>3 DEF Still, Entered, Left
  <2>5. Entered(v) \subseteq Rooms /\ Left(v) \subseteq Rooms
    BY <1>i, <2>1, RoomsOfRequest DEF Started
  <2> QED
    BY <1>1, <1>i, <2>4, <2>5 DEF Still, WritesOf
<1>2. CASE BeginSome(v)
  <2>1. ASSUME NEW q, Begin(v, q, "reservation") PROVE WritesOf(v)'
    BY <1>i, <2>1 DEF Begin, TypeInv, TypeOK, WritesOf
  <2>2. ASSUME NEW r \in Res, NEW rooms \in SUBSET Rooms, NEW s \in StayDates,
               BeginBook(v, r, rooms, s[1], s[2])
        PROVE  WritesOf(v)'
    BY <1>i, <2>2 DEF BeginBook, Begin, TypeInv, TypeOK, WritesOf, Entered, Left
  <2> QED
    BY <1>2, <2>1, <2>2 DEF BeginSome, BeginAmend, BeginMove, BeginSimple, BeginOnReservation
<1>3. CASE LockReservation(v)
  <2>1. req' = req /\ res' = res /\ roomLock' = roomLock
    BY <1>3 DEF LockReservation, db
  <2>2. Entered(v)' = Entered(v) /\ want'[v] \subseteq Rooms /\ Entered(v) \subseteq want'[v]
    <3>1. want'[v] = CASE req[v].kind = "check_in" -> res[req[v].r].rooms
                       [] req[v].kind = "move" -> {req[v].to}
                       [] OTHER -> {}
      BY <1>3, <1>i DEF LockReservation, TypeInv, TypeOK
    <3>2. TypeInv'
      BY <1>i, NextTypeInv
    <3>3. want'[v] \subseteq Rooms
      BY <3>2 DEF TypeInv, TypeOK
    <3> QED
      BY <2>1, <3>1, <3>3 DEF Entered
  <2>3. pc'[v] = IF want'[v] = {} THEN "check" ELSE "rooms"
    BY <1>3, <1>i DEF LockReservation, TypeInv, TypeOK
  <2> QED
    BY <2>2, <2>3 DEF WritesOf
<1>4. ASSUME NEW m \in Rooms, LockRoom(v, m) PROVE WritesOf(v)'
  <2>1. Entered(v)' = Entered(v) /\ Left(v)' = Left(v)
    BY <1>4 DEF LockRoom, db, Entered, Left
  <2>2. Entered(v) \subseteq Rooms /\ Left(v) \subseteq Rooms
    BY <1>4, <1>i, RoomsOfRequest DEF LockRoom
  <2>3. roomLock'[m] = v /\ \A k \in Rooms \ {m} : roomLock'[k] = roomLock[k]
    BY <1>4, <1>i DEF LockRoom, TypeInv, TypeOK
  <2>4. want'[v] = want[v] \ {m} /\ pc[v] \in {"rooms", "release"}
    BY <1>4, <1>i DEF LockRoom, TypeInv, TypeOK
  <2>5. pc'[v] = IF want[v] # {m} THEN pc[v] ELSE IF pc[v] = "rooms" THEN "check" ELSE "commit"
    BY <1>4, <1>i DEF LockRoom, TypeInv, TypeOK
  <2>6. ASSUME NEW k \in Entered(v)
        PROVE  /\ pc'[v] = "rooms" => k \in want'[v] \/ roomLock'[k] = v
               /\ pc'[v] \in {"check", "release", "commit"} => roomLock'[k] = v
    BY <1>i, <2>2, <2>3, <2>4, <2>5, <2>6 DEF WritesOf
  <2>7. ASSUME NEW k \in Left(v)
        PROVE  /\ pc'[v] = "release" => k \in want'[v] \/ roomLock'[k] = v
               /\ pc'[v] = "commit" => roomLock'[k] = v
    BY <1>i, <2>2, <2>3, <2>4, <2>5, <2>7 DEF WritesOf
  <2> QED
    BY <2>1, <2>6, <2>7 DEF WritesOf
<1>5. CASE Check(v)
  <2>1. req' = req /\ res' = res /\ roomLock' = roomLock /\ pc[v] = "check"
    BY <1>5 DEF Check, db
  <2>2. Entered(v)' = Entered(v) /\ Left(v)' = Left(v)
    BY <2>1 DEF Entered, Left
  <2>3. want'[v] = StillToLock(v) /\ pc'[v] = IF want'[v] = {} THEN "commit" ELSE "release"
    BY <1>5, <1>i DEF Check, TypeInv, TypeOK
  <2>4. Left(v) \subseteq StillToLock(v)
    <3>1. req[v].kind # "book" => Seen(v).res[req[v].r] = res[req[v].r]
      BY <1>i, <2>1 DEF LifecycleInv, Decided, DocOf, OnReservation, Started
    <3> QED
      BY <3>1 DEF Left, StillToLock
  <2> QED
    BY <1>i, <2>1, <2>2, <2>3, <2>4 DEF WritesOf
<1>6. CASE End(v)
  BY <1>6, <1>i DEF End, TypeInv, TypeOK, WritesOf
<1> QED
  BY <1>i, <1>1, <1>2, <1>3, <1>4, <1>5, <1>6, WhoMoves

(* A room that a handler is about to write keeps its status until the commit. *)
LEMMA LockedRoomKept ==
    ASSUME TypeInv, [Next]_vars, \A w \in Workers : Commit(w) => WritesOf(w),
           NEW v \in Workers, ~Commit(v), NEW m \in Rooms, roomLock[m] = v
    PROVE  room'[m].op = room[m].op
<1>1. ASSUME NEW w \in Workers, Commit(w) PROVE room'[m].op = room[m].op
  <2>1. roomLock[m] # w
    BY <1>1
  <2>2. m \notin Entered(w) /\ m \notin Left(w)
    BY <1>1, <2>1 DEF WritesOf, Commit
  <2> QED
    BY <1>1, <2>1, <2>2, CommitRooms
<1> QED
  BY <1>1, RoomsBetweenCommits, InventoryAssumption

LEMMA NextReady ==
    ASSUME RepeatableRead = FALSE, RoomsInv, [Next]_vars, NEW v \in Workers
    PROVE  ReadyOf(v)'
<1> SUFFICES ASSUME pc'[v] \in Deciding
             PROVE  /\ \A m \in Entered(v)' : room'[m].op = "Available"
                    /\ \A m \in Left(v)' : m \in res'[req'[v].r].rooms
  BY DEF ReadyOf
<1>i. LifecycleInv /\ TypeInv /\ WritesOf(v) /\ ReadyOf(v)
  BY DEF RoomsInv, LifecycleInv
<1>1. Check(v) \/ (pc[v] \in Deciding /\ req'[v] = req[v] /\ ~Commit(v))
  BY <1>i, HowToDecide
<1>2. req'[v] = req[v] /\ ~Commit(v) /\ pc[v] \in Started
  BY <1>1 DEF Check, Commit, Deciding, Started
<1>3. req[v].kind # "book" => res'[req[v].r] = res[req[v].r]
  BY <1>i, <1>2, OwnStayKept DEF OnReservation
<1>4. Entered(v)' = Entered(v) /\ Left(v)' = Left(v)
  BY <1>2, <1>3 DEF Entered, Left
<1>5. Entered(v) \subseteq Rooms /\ \A m \in Left(v) : req[v].kind # "book"
  BY <1>i, <1>2, RoomsOfRequest DEF Left, Started
<1>6. \A m \in Entered(v) : roomLock[m] = v /\ room'[m].op = room[m].op
  <2>1. \A m \in Entered(v) : roomLock[m] = v
    BY <1>1, <1>i DEF WritesOf, Check, Deciding
  <2> QED
    BY <1>i, <1>2, <1>5, <2>1, LockedRoomKept DEF RoomsInv
<1>7. (\A m \in Entered(v) : room[m].op = "Available") /\ \A m \in Left(v) : m \in res[req[v].r].rooms
  <2>1. CASE pc[v] \in Deciding
    BY <1>i, <2>1 DEF ReadyOf
  <2>2. CASE Check(v)
    <3>1. req[v].kind # "book" => Committed.res[req[v].r] = res[req[v].r]
      BY DEF Committed
    <3>2. Committed.room = room /\ Seen(v) = Committed
      BY DEF Seen, Committed
    <3>3. CASE req[v].kind = "check_in"
      BY <2>2, <3>1, <3>2, <3>3 DEF Check, Ok, CheckInOk, Entered, Left
    <3>4. CASE req[v].kind = "move"
      BY <2>2, <3>1, <3>2, <3>4 DEF Check, Ok, MoveOk, Entered, Left
    <3>5. CASE req[v].kind \notin {"check_in", "move"}
      BY <3>5 DEF Entered, Left
    <3> QED
      BY <3>3, <3>4, <3>5
  <2> QED
    BY <1>1, <2>1, <2>2
<1> QED
  BY <1>2, <1>3, <1>4, <1>5, <1>6, <1>7

(* Who serves what, and which locks are held before a handler needs them. *)
LEMMA NextServed ==
    ASSUME TypeInv, Served, [Next]_vars
    PROVE  Served'
<1> SUFFICES ASSUME NEW v \in Workers PROVE pc'[v] = "idle" \/ req'[v].kind \in Kinds
  BY DEF Served
<1>1. CASE Still(v)
  BY <1>1 DEF Still, Served
<1>2. CASE BeginSome(v)
  <2>1. ASSUME NEW q, NEW at, Begin(v, q, at) PROVE req'[v].kind \in Kinds
    BY <2>1 DEF Begin, TypeInv, TypeOK
  <2> QED
    BY <1>2, <2>1 DEF BeginSome, BeginBook, BeginAmend, BeginMove, BeginSimple, BeginOnReservation
<1>3. CASE LockReservation(v) \/ Check(v) \/ \E m \in Rooms : LockRoom(v, m)
  BY <1>3 DEF Served, LockReservation, Check, LockRoom
<1>4. CASE End(v)
  BY <1>4 DEF End, TypeInv, TypeOK
<1> QED
  BY <1>1, <1>2, <1>3, <1>4, WhoMoves

LEMMA NextUnlocked ==
    ASSUME TypeInv, [Next]_vars, NEW v \in Workers, UnlockedOf(v)
    PROVE  UnlockedOf(v)'
<1>1. CASE Still(v)
  BY <1>1 DEF Still, UnlockedOf
<1>2. CASE BeginSome(v)
  <2>1. ASSUME NEW q, NEW at, Begin(v, q, at) PROVE pc[v] = "idle" /\ roomLock' = roomLock
    BY <2>1 DEF Begin
  <2>2. pc[v] = "idle" /\ roomLock' = roomLock
    BY <1>2, <2>1 DEF BeginSome, BeginBook, BeginAmend, BeginMove, BeginSimple, BeginOnReservation
  <2> QED
    BY <2>2 DEF UnlockedOf
<1>3. CASE LockReservation(v) \/ Check(v) \/ \E m \in Rooms : LockRoom(v, m)
  <2>1. pc'[v] \notin {"idle", "reservation"}
    BY <1>3 DEF LockReservation, Check, LockRoom, TypeInv, TypeOK
  <2> QED
    BY <2>1 DEF UnlockedOf
<1>4. CASE End(v)
  BY <1>4, InventoryAssumption DEF End, TypeInv, TypeOK, UnlockedOf
<1> QED
  BY <1>1, <1>2, <1>3, <1>4, WhoMoves

(* Without maintenance no room goes out of service. *)
LEMMA NextInService ==
    ASSUME GuestInv, [Next]_vars
    PROVE  InService'
<1> SUFFICES ASSUME "maintenance" \notin Kinds, NEW m \in Rooms, room'[m].op = "Out of Service"
             PROVE  FALSE
  BY DEF InService
<1>i. TypeInv /\ room[m].op # "Out of Service"
  BY DEF GuestInv, RoomsInv, LifecycleInv, InService
<1>1. ASSUME NEW w \in Workers, Commit(w) PROVE FALSE
  BY <1>i, <1>1, CommitRooms
<1> QED
  BY <1>i, <1>1, RoomsBetweenCommits

(* A cancellation that runs alone leaves every room with a guest in it. *)
LEMMA NextVacant ==
    ASSUME RepeatableRead = FALSE, Careful, GuestInv, [Next]_vars, NEW v \in Workers
    PROVE  VacantOf(v)'
<1>i. /\ LifecycleInv /\ TypeInv /\ Served /\ InService
      /\ VacantOf(v) /\ UnlockedOf(v) /\ GuestRoomsOccupied
  BY DEF GuestInv, RoomsInv, LifecycleInv
<1>a. ASSUME pc[v] # "idle", Releases(v)
      PROVE  (\A w \in Workers : w = v) /\ \A m \in Rooms : room[m].op # "Out of Service"
  <2>1. req[v].kind \in {"cancel", "no_show"} \cap Kinds
    BY <1>a, <1>i DEF Served, Releases
  <2> QED
    BY <1>i, <2>1 DEF Careful, InService
<1>1. CASE Still(v)
  <2>1. SUFFICES ASSUME Releases(v), pc[v] \in Deciding, NEW m \in Rooms,
                        m \in want[v] \/ roomLock[m] = v
                 PROVE  ~Occupied(m)'
    BY <1>1, <1>i DEF VacantOf, Still, Releases
  <2>2. ~Commit(v)
    BY <1>i, <1>1, <2>1 DEF Still, Commit, End, TypeInv, TypeOK, Deciding
  <2>3. \A w \in Workers : ~Commit(w)
    BY <1>a, <2>1, <2>2 DEF Deciding
  <2>4. res' = res
    BY <2>3, OnlyCommitsWrite
  <2> QED
    BY <1>i, <2>1, <2>4 DEF VacantOf, Occupied, InHouse
<1>2. CASE BeginSome(v)
  <2>1. ASSUME NEW q, q.kind # "book", BeginOnReservation(v, q) PROVE VacantOf(v)'
    BY <1>i, <2>1 DEF BeginOnReservation, Begin, TypeInv, TypeOK, VacantOf, UnlockedOf, Deciding
  <2>2. ASSUME NEW r \in Res, NEW rooms \in SUBSET Rooms, NEW s \in StayDates,
               BeginBook(v, r, rooms, s[1], s[2])
        PROVE  VacantOf(v)'
    BY <1>i, <2>2 DEF BeginBook, Begin, TypeInv, TypeOK, VacantOf, Releases
  <2> QED
    BY <1>2, <2>1, <2>2 DEF BeginSome, BeginAmend, BeginMove, BeginSimple
<1>3. CASE LockReservation(v)
  <2>1. req' = req /\ roomLock' = roomLock /\ pc[v] = "reservation"
    BY <1>3 DEF LockReservation
  <2>2. Releases(v) => pc'[v] = "check"
    BY <1>3, <1>i DEF LockReservation, TypeInv, TypeOK, Releases
  <2> QED
    BY <1>i, <2>1, <2>2 DEF VacantOf, Releases, Deciding
<1>4. ASSUME NEW k \in Rooms, LockRoom(v, k) PROVE VacantOf(v)'
  <2>1. req' = req /\ res' = res /\ pc[v] \in {"rooms", "release"}
    BY <1>4 DEF LockRoom, db
  <2>2. roomLock'[k] = v /\ (\A m \in Rooms \ {k} : roomLock'[m] = roomLock[m])
    BY <1>4, <1>i DEF LockRoom, TypeInv, TypeOK
  <2>3. k \in want[v] /\ want'[v] \subseteq want[v]
    BY <1>4, <1>i DEF LockRoom, TypeInv, TypeOK
  <2>4. pc[v] = "release" => pc'[v] \in Deciding
    BY <1>4, <1>i DEF LockRoom, TypeInv, TypeOK, Deciding
  <2>5. SUFFICES ASSUME Releases(v) PROVE VacantOf(v)'
    BY <2>1 DEF VacantOf, Releases
  <2>6. pc[v] = "release"
    BY <1>i, <2>1, <2>5 DEF VacantOf
  <2>7. ASSUME NEW m \in Rooms, m \in want'[v] \/ roomLock'[m] = v PROVE ~Occupied(m)'
    <3>1. m \in want[v] \/ roomLock[m] = v
      BY <2>2, <2>3, <2>7
    <3>2. ~Occupied(m)
      BY <1>i, <2>5, <2>6, <3>1 DEF VacantOf, Deciding
    <3> QED
      BY <2>1, <3>2 DEF Occupied, InHouse
  <2> QED
    BY <2>4, <2>6, <2>7 DEF VacantOf, Deciding
<1>5. CASE Check(v)
  <2>1. req' = req /\ res' = res /\ roomLock' = roomLock /\ pc[v] = "check"
    BY <1>5 DEF Check, db
  <2>2. want'[v] = StillToLock(v) /\ pc'[v] \in Deciding
    BY <1>5, <1>i DEF Check, TypeInv, TypeOK, Deciding
  <2>3. SUFFICES ASSUME Releases(v), NEW m \in Rooms, m \in want'[v] \/ roomLock'[m] = v
                 PROVE  ~Occupied(m)
    BY <2>1, <2>2 DEF VacantOf, Releases, Occupied, InHouse, Deciding
  <2>4. m \in StillToLock(v)
    BY <1>i, <2>1, <2>2, <2>3 DEF VacantOf
  <2>5. room[m].op # "Occupied"
    BY <2>3, <2>4 DEF StillToLock, Releases, Seen, Committed
  <2>6. room[m].op = "Available"
    BY <1>i, <1>a, <2>1, <2>3, <2>5 DEF TypeInv, TypeOK, RoomStatus
  <2> QED
    BY <1>i, <2>6 DEF GuestRoomsOccupied, Occupied, InHouse
<1>6. CASE End(v)
  BY <1>6, <1>i DEF End, TypeInv, TypeOK, VacantOf, Releases, NoRequest
<1> QED
  BY <1>i, <1>1, <1>2, <1>3, <1>4, <1>5, <1>6, WhoMoves

(* The two properties themselves. *)
LEMMA NextOneGuest ==
    ASSUME RoomsInv, OneGuestPerRoom, GuestRoomsOccupied, [Next]_vars
    PROVE  OneGuestPerRoom'
<1> SUFFICES ASSUME NEW r \in Res, NEW other \in Res, r # other, NEW m,
                    InHouse(r, m)', InHouse(other, m)'
             PROVE  FALSE
  BY DEF OneGuestPerRoom, InHouse
<1>i. LifecycleInv /\ TypeInv /\ m \in Rooms
  BY NextTypeInv DEF RoomsInv, LifecycleInv, TypeInv, TypeOK, Reservation, InHouse
<1>1. ASSUME NEW x \in Res, NEW y \in Res, x # y, InHouse(x, m), InHouse(y, m) PROVE FALSE
  BY <1>1 DEF OneGuestPerRoom, InHouse
<1>2. ASSUME NEW w \in Workers, Commit(w) PROVE FALSE
  <2>1. ASSUME m \in Entered(w), NEW x \in Res, InHouse(x, m) PROVE FALSE
    <3>1. room[m].op = "Available"
      BY <1>2, <2>1 DEF RoomsInv, ReadyOf, Commit, Deciding
    <3> QED
      BY <1>i, <2>1, <3>1 DEF GuestRoomsOccupied, InHouse
  <2>2. InHouse(r, m) \/ (r = req[w].r /\ m \in Entered(w))
    BY <1>2, <1>i, CommitGuests
  <2>3. InHouse(other, m) \/ (other = req[w].r /\ m \in Entered(w))
    BY <1>2, <1>i, CommitGuests
  <2> QED
    BY <1>1, <2>1, <2>2, <2>3
<1> QED
  BY <1>1, <1>2, OnlyCommitsWrite DEF InHouse

LEMMA NextOccupied ==
    ASSUME RoomsInv, OneGuestPerRoom, GuestRoomsOccupied, [Next]_vars,
           \A w \in Workers : ~FreesGuestRoom(w)
    PROVE  GuestRoomsOccupied'
<1> SUFFICES ASSUME NEW r \in Res, NEW m \in Rooms, InHouse(r, m)', room'[m].op = "Available"
             PROVE  FALSE
  BY DEF GuestRoomsOccupied, InHouse
<1>i. LifecycleInv /\ TypeInv
  BY DEF RoomsInv, LifecycleInv
<1>1. InHouse(r, m) => room[m].op # "Available"
  BY DEF GuestRoomsOccupied, InHouse
<1>2. ASSUME NEW w \in Workers, Commit(w) PROVE FALSE
  <2>1. m \notin Entered(w)
    BY <1>i, <1>2, CommitRooms
  <2>2. InHouse(r, m)
    BY <1>i, <1>2, <2>1, CommitGuests
  <2>3. m \notin Left(w)
    <3>1. SUFFICES ASSUME m \in Left(w) PROVE FALSE
      OBVIOUS
    <3>2. r # req[w].r
      BY <1>i, <1>2, <2>1, <3>1, CommitGuests
    <3>3. m \in res[req[w].r].rooms
      BY <1>2, <3>1 DEF RoomsInv, ReadyOf, Commit, Deciding
    <3>4. res[req[w].r].status = "Checked In" /\ req[w].r \in Res
      BY <1>i, <1>2, <3>1, CommitFrom, CommitStay DEF Left
    <3> QED
      BY <2>2, <3>2, <3>3, <3>4 DEF OneGuestPerRoom, InHouse
  <2>4. Releases(w)
    BY <1>i, <1>1, <1>2, <2>1, <2>2, <2>3, CommitRooms
  <2>5. roomLock[m] = w
    BY <1>i, <1>1, <1>2, <2>2, <2>4, CommitRooms
  <2> QED
    BY <1>2, <2>2, <2>4, <2>5 DEF FreesGuestRoom, Releases, Occupied, InHouse
<1>3. ASSUME \A w \in Workers : ~Commit(w) PROVE FALSE
  <2>1. InHouse(r, m)
    BY <1>3, OnlyCommitsWrite DEF InHouse
  <2> QED
    BY <1>i, <1>1, <1>3, <2>1, RoomsBetweenCommits DEF Occupied, InHouse
<1> QED
  BY <1>2, <1>3

LEMMA NextRoomsInv ==
    ASSUME RepeatableRead = FALSE, RoomsInv, [Next]_vars
    PROVE  RoomsInv'
<1>1. LifecycleInv'
  BY NextLifecycleInv DEF RoomsInv
<1>2. \A w \in Workers : WritesOf(w)' /\ ReadyOf(w)'
  BY NextWrites, NextReady
<1> QED
  BY <1>1, <1>2 DEF RoomsInv

LEMMA NextGuestInv ==
    ASSUME RepeatableRead = FALSE, Careful, GuestInv, [Next]_vars
    PROVE  GuestInv'
<1>1. TypeInv /\ Served /\ \A w \in Workers : UnlockedOf(w)
  BY DEF GuestInv, RoomsInv, LifecycleInv
<1>2. Served' /\ InService' /\ RoomsInv'
  BY <1>1, NextServed, NextInService, NextRoomsInv DEF GuestInv
<1>3. \A w \in Workers : VacantOf(w)' /\ UnlockedOf(w)'
  BY <1>1, NextVacant, NextUnlocked
<1>4. \A w \in Workers : ~FreesGuestRoom(w)
  BY DEF GuestInv, VacantOf, FreesGuestRoom, Releases, Commit, Deciding
<1> QED
  BY <1>2, <1>3, <1>4, NextOneGuest, NextOccupied DEF GuestInv

(* Where plain selects read committed rows and cancellations run alone, a room *)
(* never has two checked-in reservations.                                      *)
THEOREM OneGuestAtATime ==
    RepeatableRead = FALSE /\ Careful => (Spec => []OneGuestPerRoom)
<1> SUFFICES ASSUME RepeatableRead = FALSE, Careful PROVE Spec => []OneGuestPerRoom
  OBVIOUS
<1>1. GuestInv /\ [Next]_vars => GuestInv'
  BY NextGuestInv
<1>2. GuestInv => OneGuestPerRoom
  BY DEF GuestInv
<1> QED
  BY InitGuestInv, <1>1, <1>2, PTL DEF Spec

(* With any handlers beside each other, only a cancellation or no-show that releases a *)
(* room with a guest in it, on what it read before it locked the room, takes a house   *)
(* where guests and rooms agree to one where they do not.                              *)
THEOREM OnlyCancellationsDisagree ==
    RepeatableRead = FALSE => (Spec => OnlyCancellationsFreeGuestRooms)
<1> SUFFICES ASSUME RepeatableRead = FALSE PROVE Spec => OnlyCancellationsFreeGuestRooms
  OBVIOUS
<1>1. Init => RoomsInv
  BY InitGuestInv DEF GuestInv
<1>2. RoomsInv /\ [Next]_vars => RoomsInv'
  BY NextRoomsInv
<1>3. ASSUME RoomsInv, [Next]_vars, GuestsAndRoomsAgree,
             \A w \in Workers : ~FreesGuestRoom(w)
      PROVE  GuestsAndRoomsAgree'
  <2>1. OneGuestPerRoom /\ GuestRoomsOccupied
    BY <1>3 DEF GuestsAndRoomsAgree, GuestRoomsOccupied, Occupied
  <2>2. OneGuestPerRoom' /\ GuestRoomsOccupied'
    BY <1>3, <2>1, NextOneGuest, NextOccupied
  <2> QED
    BY <2>2 DEF GuestsAndRoomsAgree, GuestRoomsOccupied, Occupied
<1>4. RoomsInv /\ [Next]_vars =>
          (GuestsAndRoomsAgree => GuestsAndRoomsAgree' \/ \E w \in Workers : FreesGuestRoom(w))
  BY <1>3
<1> QED
  BY <1>1, <1>2, <1>4, PTL DEF Spec, OnlyCancellationsFreeGuestRooms
-----------------------------------------------------------------------------
(***************************************************************************)
(* The inventory implements the room calendar: where plain selects read    *)
(* committed rows and stays are not amended, a commit of a booking is      *)
(* Make, of a move Rearrange, of a check-out, a cancellation or a no-show  *)
(* GiveUp, and every other step leaves the calendar as it is.              *)
(***************************************************************************)
NightsOf(r) ==
    IF Blocking(res[r]) THEN res[r].rooms \X {n \in Days : Covers(res[r], n)} ELSE {}

PhaseOf(r) ==
    CASE res[r].status = "None" -> "new"
      [] Blocking(res[r]) -> "held"
      [] OTHER -> "over"

Nights == [r \in Res |-> NightsOf(r)]
Phases == [r \in Res |-> PhaseOf(r)]

RoomNights == Rooms \X Days

(* A stay, asked for or held, is not empty. *)
NotEmpty ==
    /\ \A r \in Res : Blocking(res[r]) => res[r].arr < res[r].dep
    /\ \A w \in Workers :
          pc[w] # "idle" /\ req[w].kind = "book" => req[w].rooms # {} /\ req[w].arr < req[w].dep

CalendarInv == ClashInv /\ NeverAmended /\ NotEmpty

LEMMA HeldNights ==
    ASSUME NEW r \in Res, res[r] \in Reservation
    PROVE  /\ NightsOf(r) \subseteq RoomNights
           /\ \A m \in Rooms, n \in Days : <<m, n>> \in NightsOf(r) <=> Holds(r, m, n)
BY DEF NightsOf, RoomNights, Holds, Reservation

LEMMA TodayMoves ==
    ASSUME [Next]_vars
    PROVE  today' = today \/ NextDay
<1>1. ASSUME NEW w \in Workers, BeginSome(w) PROVE today' = today
  BY <1>1 DEF BeginSome, BeginBook, BeginAmend, BeginMove, BeginSimple, BeginOnReservation, Begin
<1>2. ASSUME NEW w \in Workers, Proceed(w) \/ Rollback(w) PROVE today' = today
  BY <1>2 DEF Proceed, LockReservation, LockRoom, Check, Refuse, Rollback, Commit
<1>3. ASSUME NEW m \in Rooms, StaffWork(m) PROVE today' = today
  BY <1>3 DEF StaffWork, RoomTakenForCleaning, RoomMadeReady, RoomTakenOutOfService, RoomReturned
<1> QED
  BY <1>1, <1>2, <1>3, FeedStep DEF Next, CalendarFeed, vars

LEMMA NextNotEmpty ==
    ASSUME TypeInv, LifecycleInv, Served, "amend" \notin Kinds, NotEmpty, [Next]_vars
    PROVE  NotEmpty'
<1>1. ASSUME NEW r \in Res, Blocking(res[r])' PROVE res'[r].arr < res'[r].dep
  <2>1. ASSUME NEW w \in Workers, Commit(w) PROVE res'[r].arr < res'[r].dep
    <3>1. CASE r # req[w].r
      BY <1>1, <2>1, <3>1, CommitOthers DEF NotEmpty, Blocking
    <3>2. CASE r = req[w].r
      <4>1. Written(w, r) /\ req[w].kind # "amend"
        BY <2>1, <3>2, CommitStay DEF Served, Commit
      <4>2. CASE req[w].kind = "book"
        BY <1>1, <2>1, <4>1, <4>2 DEF Written, NotEmpty, Commit, Blocking
      <4>3. CASE req[w].kind = "move"
        BY <1>1, <4>1, <4>3 DEF Written, NotEmpty, Blocking
      <4>4. CASE req[w].kind = "check_in"
        <5>1. res[r].status = "Confirmed"
          BY <2>1, <3>2, <4>4, CommitFrom
        <5> QED
          BY <4>1, <4>4, <5>1 DEF Written, SameStay, NotEmpty, Blocking
      <4>5. CASE req[w].kind \in {"check_out", "cancel", "no_show"}
        BY <1>1, <4>1, <4>5 DEF Written, Blocking
      <4> QED
        BY <4>1, <4>2, <4>3, <4>4, <4>5 DEF Written
    <3> QED
      BY <3>1, <3>2
  <2> QED
    BY <1>1, <2>1, OnlyCommitsWrite DEF NotEmpty, Blocking
<1>2. ASSUME NEW v \in Workers, pc'[v] # "idle", req'[v].kind = "book"
      PROVE  req'[v].rooms # {} /\ req'[v].arr < req'[v].dep
  <2>1. CASE BeginSome(v)
    <3>1. ASSUME NEW q, q.kind # "book", BeginOnReservation(v, q) PROVE FALSE
      BY <1>2, <3>1 DEF BeginOnReservation, Begin, TypeInv, TypeOK
    <3>2. ASSUME NEW r \in Res, NEW rooms \in SUBSET Rooms, NEW s \in StayDates,
                 BeginBook(v, r, rooms, s[1], s[2])
          PROVE  req'[v].rooms # {} /\ req'[v].arr < req'[v].dep
      <4>1. s[1] < s[2]
        BY InventoryAssumption
      <4>2. req'[v] = [kind |-> "book", r |-> r, rooms |-> rooms, arr |-> s[1], dep |-> s[2]]
        BY <3>2 DEF BeginBook, Begin, TypeInv, TypeOK
      <4> QED
        BY <3>2, <4>1, <4>2 DEF BeginBook
    <3> QED
      BY <2>1, <3>1, <3>2 DEF BeginSome, BeginAmend, BeginMove, BeginSimple
  <2>2. CASE Still(v)
    BY <1>2, <2>2 DEF Still, NotEmpty
  <2>3. CASE LockReservation(v) \/ Check(v) \/ \E m \in Rooms : LockRoom(v, m)
    BY <1>2, <2>3 DEF NotEmpty, LockReservation, Check, LockRoom
  <2>4. CASE End(v)
    BY <1>2, <2>4 DEF End, TypeInv, TypeOK
  <2> QED
    BY <2>1, <2>2, <2>3, <2>4, WhoMoves
<1> QED
  BY <1>1, <1>2 DEF NotEmpty

LEMMA NextCalendarInv ==
    ASSUME RepeatableRead = FALSE, "amend" \notin Kinds, CalendarInv, [Next]_vars
    PROVE  CalendarInv'
<1>1. TypeInv /\ LifecycleInv /\ ClashInv /\ NeverAmended /\ NotEmpty /\ Served
  BY DEF CalendarInv, ClashInv, LifecycleInv, NeverAmended, Served
<1>2. ClashInv'
  BY <1>1, NextFree, NextClash, NextLifecycleInv DEF ClashInv
<1> QED
  BY <1>1, <1>2, NextNeverAmended, NextNotEmpty DEF CalendarInv

(* What a reservation holds after a commit is nobody else's. *)
LEMMA FreeForCommit ==
    ASSUME RepeatableRead = FALSE, "amend" \notin Kinds, CalendarInv, [Next]_vars,
           NEW w \in Workers, Commit(w), NEW r \in Res, r = req[w].r, NEW other \in Res \ {r},
           NEW m \in Rooms, NEW n \in Days, n >= today, Holds(r, m, n)'
    PROVE  ~Holds(other, m, n)
<1>1. LifecycleInv /\ TypeInv
  BY DEF CalendarInv, ClashInv, LifecycleInv
<1>2. Amended = {} /\ Amended' = {}
  BY NextNeverAmended DEF CalendarInv, NeverAmended, Amended
<1>3. Holds(r, m, n) \/ Promised(w, m, n)
  BY <1>1, <1>2, NewNights
<1>4. Holds(r, m, n) => ~Holds(other, m, n)
  BY <1>1, <1>2 DEF CalendarInv, ClashInv, OnlyAmendedStaysClash, DoubleBooked, Holds
<1>5. Promised(w, m, n) => ~Holds(other, m, n)
  BY <1>2 DEF CalendarInv, ClashInv, FreeOf, Commit
<1> QED
  BY <1>3, <1>4, <1>5

(* The steps of the calendar, in terms of Nights and Phases. *)
LEMMA MakeStep ==
    ASSUME NEW r \in Res, NEW S \in SUBSET RoomNights, S # {},
           PhaseOf(r) = "new",
           \A rn \in S, other \in Res \ {r} : rn[2] >= today => rn \notin Nights[other],
           Nights' = [Nights EXCEPT ![r] = S], Phases' = [Phases EXCEPT ![r] = "held"],
           today' = today
    PROVE  Calendar!Make(r)
<1>1. Calendar!FreeFor(r, S)
  BY DEF Calendar!FreeFor, Nights, NightsOf
<1>2. S \in (SUBSET Calendar!RoomNights) \ {{}}
  BY DEF Calendar!RoomNights, Calendar!Days, RoomNights, Days
<1> QED
  BY <1>1, <1>2 DEF Calendar!Make, Nights, NightsOf, Phases, PhaseOf

LEMMA RearrangeStep ==
    ASSUME NEW r \in Res, NEW S \in SUBSET RoomNights, S # {},
           PhaseOf(r) = "held",
           \A rn \in S, other \in Res \ {r} : rn[2] >= today => rn \notin Nights[other],
           Nights' = [Nights EXCEPT ![r] = S], Phases' = Phases,
           today' = today
    PROVE  Calendar!Rearrange(r)
<1>1. Calendar!FreeFor(r, S)
  BY DEF Calendar!FreeFor, Nights, NightsOf
<1>2. S \in (SUBSET Calendar!RoomNights) \ {{}}
  BY DEF Calendar!RoomNights, Calendar!Days, RoomNights, Days
<1> QED
  BY <1>1, <1>2 DEF Calendar!Rearrange, Nights, NightsOf, Phases, PhaseOf

LEMMA GiveUpStep ==
    ASSUME NEW r \in Res, PhaseOf(r) = "held",
           Nights' = [Nights EXCEPT ![r] = {}], Phases' = [Phases EXCEPT ![r] = "over"],
           today' = today
    PROVE  Calendar!GiveUp(r)
BY DEF Calendar!GiveUp, Nights, NightsOf, Phases, PhaseOf

LEMMA StutterStep ==
    ASSUME Nights' = Nights, Phases' = Phases, today' = today
    PROVE  UNCHANGED Calendar!vars
BY DEF Calendar!vars, Nights, NightsOf, Phases, PhaseOf

LEMMA CommitIsOneStep ==
    ASSUME RepeatableRead = FALSE, "amend" \notin Kinds, CalendarInv, [Next]_vars,
           NEW w \in Workers, Commit(w), NEW r \in Res, r = req[w].r
    PROVE  Calendar!Next \/ UNCHANGED Calendar!vars
<1> DEFINE S == NightsOf(r)'
<1>i. /\ LifecycleInv /\ TypeInv /\ TypeInv' /\ r \in Res /\ Written(w, r)
      /\ req[w].kind # "amend" /\ today' = today
  BY NextTypeInv, CommitStay
     DEF CalendarInv, ClashInv, LifecycleInv, NeverAmended, Commit
<1>t. res[r] \in Reservation /\ res'[r] \in Reservation
  BY <1>i DEF TypeInv, TypeOK
<1>1. Nights' = [Nights EXCEPT ![r] = S] /\ Phases' = [Phases EXCEPT ![r] = PhaseOf(r)']
  <2>1. \A other \in Res \ {r} : NightsOf(other)' = NightsOf(other) /\ PhaseOf(other)' = PhaseOf(other)
    BY <1>i, CommitOthers DEF NightsOf, PhaseOf
  <2> QED
    BY <1>i, <2>1 DEF Nights, Phases
<1>2. S \subseteq RoomNights /\ \A m \in Rooms, n \in Days : <<m, n>> \in S <=> Holds(r, m, n)'
  BY <1>t, <1>i DEF NightsOf, RoomNights, Holds, Reservation
<1>3. \A rn \in S, other \in Res \ {r} : rn[2] >= today => rn \notin Nights[other]
  <2>1. SUFFICES ASSUME NEW rn \in S, NEW other \in Res \ {r}, rn[2] >= today, rn \in Nights[other]
                 PROVE  FALSE
    OBVIOUS
  <2>2. PICK m \in Rooms, n \in Days : rn = <<m, n>>
    BY <1>2 DEF RoomNights
  <2>3. Holds(r, m, n)' /\ n >= today
    BY <1>2, <2>1, <2>2
  <2>4. res[other] \in Reservation
    BY <1>i DEF TypeInv, TypeOK
  <2>5. Holds(other, m, n)
    BY <2>1, <2>2, <2>4, HeldNights DEF Nights
  <2> QED
    BY <2>3, <2>5, FreeForCommit
<1>4. ASSUME Blocking(res[r])', res'[r].rooms # {} PROVE S # {}
  <2>1. PICK m \in Rooms : m \in res'[r].rooms
    BY <1>t, <1>4 DEF Reservation
  <2>2. res'[r].arr < res'[r].dep
    BY <1>i, <1>4, NextCalendarInv DEF CalendarInv, NotEmpty
  <2>3. PICK n \in Days : Covers(res[r], n)'
    <3>1. res'[r].arr \in Days
      BY <1>t DEF Reservation
    <3>2. res'[r].arr <= res'[r].arr
      BY <3>1, DaysAreNumbers
    <3> QED
      BY <2>2, <3>1, <3>2 DEF Covers
  <2>4. <<m, n>> \in S
    BY <1>4, <2>1, <2>3 DEF NightsOf
  <2> QED
    BY <2>4
<1>5. CASE req[w].kind = "book" /\ res[r].status = "None"
  <2>1. PhaseOf(r) = "new" /\ PhaseOf(r)' = "held" /\ Blocking(res[r])'
    BY <1>i, <1>5 DEF PhaseOf, Written, Blocking
  <2>2. S # {}
    <3>1. req[w].rooms # {}
      BY <1>5 DEF CalendarInv, NotEmpty, Commit
    <3> QED
      BY <1>i, <1>4, <1>5, <2>1, <3>1 DEF Written
  <2>3. Calendar!Make(r)
    BY <1>i, <1>1, <1>2, <1>3, <2>1, <2>2, MakeStep
  <2> QED
    BY <1>i, <2>3 DEF Calendar!Next
<1>6. CASE req[w].kind = "book" /\ res[r].status # "None"
  <2>1. NightsOf(r)' = NightsOf(r) /\ PhaseOf(r)' = PhaseOf(r)
    BY <1>i, <1>6 DEF Written, NightsOf, PhaseOf
  <2>2. Nights' = Nights /\ Phases' = Phases
    BY <1>1, <2>1 DEF Nights, Phases
  <2> QED
    BY <1>i, <2>2, StutterStep
<1>7. CASE req[w].kind = "move"
  <2>1. res[r].status = "Checked In"
    BY <1>i, <1>7, CommitFrom
  <2>2. PhaseOf(r) = "held" /\ PhaseOf(r)' = "held" /\ Blocking(res[r])'
    BY <1>i, <1>7, <2>1 DEF PhaseOf, Written, Blocking
  <2>3. S # {}
    <3>1. res'[r].rooms # {}
      BY <1>i, <1>7 DEF Written
    <3> QED
      BY <1>4, <2>2, <3>1
  <2>4. Phases' = Phases
    BY <1>i, <1>1, <2>2 DEF Phases
  <2>5. Calendar!Rearrange(r)
    BY <1>i, <1>1, <1>2, <1>3, <2>2, <2>3, <2>4, RearrangeStep
  <2> QED
    BY <1>i, <2>5 DEF Calendar!Next
<1>8. CASE req[w].kind = "check_in"
  <2>1. res[r].status = "Confirmed" /\ res'[r].status = "Checked In"
    BY <1>i, <1>8, CommitFrom DEF Written
  <2>2. NightsOf(r)' = NightsOf(r) /\ PhaseOf(r)' = PhaseOf(r)
    BY <1>i, <1>8, <2>1 DEF Written, SameStay, NightsOf, PhaseOf, Blocking, Covers
  <2>3. Nights' = Nights /\ Phases' = Phases
    BY <1>1, <2>2 DEF Nights, Phases
  <2> QED
    BY <1>i, <2>3, StutterStep
<1>9. CASE req[w].kind \in {"check_out", "cancel", "no_show"}
  <2>1. res[r].status \in {"Confirmed", "Checked In"}
    BY <1>i, <1>9, CommitFrom
  <2>2. res'[r].status \in {"Checked Out", "Cancelled", "No Show"}
    BY <1>i, <1>9 DEF Written
  <2>3. PhaseOf(r) = "held" /\ PhaseOf(r)' = "over" /\ S = {}
    BY <2>1, <2>2 DEF PhaseOf, NightsOf, Blocking
  <2>4. Calendar!GiveUp(r)
    BY <1>i, <1>1, <2>3, GiveUpStep
  <2> QED
    BY <1>i, <2>4 DEF Calendar!Next
<1> QED
  BY <1>i, <1>5, <1>6, <1>7, <1>8, <1>9 DEF Written

(* The inventory implements the room calendar: every commit is at most one *)
(* step of it, and no step gives away a coming night that is another's.    *)
THEOREM InventoryImplementsCalendar ==
    RepeatableRead = FALSE /\ "amend" \notin Kinds => (Spec => ImplementsCalendar)
<1> SUFFICES ASSUME RepeatableRead = FALSE, "amend" \notin Kinds PROVE Spec => Calendar!Spec
  BY DEF ImplementsCalendar
<1>1. Init => CalendarInv
  <2>1. ASSUME Init PROVE NotEmpty
    BY <2>1, InitNotBlocking DEF NotEmpty, Init
  <2>2. ASSUME Init PROVE NeverAmended
    BY <2>2, InitTypeInv DEF Init, NeverAmended
  <2> QED
    BY <2>1, <2>2, InitClashInv DEF CalendarInv
<1>2. CalendarInv /\ [Next]_vars => CalendarInv'
  BY NextCalendarInv
<1>3. Init => Calendar!Init
  <2>1. ASSUME Init PROVE today \in Days /\ \A r \in Res : NightsOf(r) = {} /\ PhaseOf(r) = "new"
    <3>1. today \in Days
      BY <2>1, InventoryAssumption DEF Init, Days
    <3> QED
      BY <2>1, <3>1, InitNotBlocking DEF NightsOf, PhaseOf
  <2> QED
    BY <2>1 DEF Calendar!Init, Calendar!Days, Days, NightsOf, PhaseOf
<1>4. CalendarInv /\ [Next]_vars => [Calendar!Next]_(Calendar!vars)
  <2> SUFFICES ASSUME CalendarInv, [Next]_vars
               PROVE  Calendar!Next \/ UNCHANGED Calendar!vars
    OBVIOUS
  <2>t. TypeInv
    BY DEF CalendarInv, ClashInv, LifecycleInv
  <2>1. ASSUME NEW w \in Workers, Commit(w) PROVE Calendar!Next \/ UNCHANGED Calendar!vars
    BY <2>t, <2>1, CommitStay, CommitIsOneStep
  <2>2. ASSUME \A w \in Workers : ~Commit(w) PROVE Nights' = Nights /\ Phases' = Phases
    BY <2>2, OnlyCommitsWrite DEF Nights, NightsOf, Phases, PhaseOf
  <2>3. today' = today \/ NextDay
    BY TodayMoves
  <2>4. ASSUME NextDay PROVE Calendar!NextDay
    <3>1. today' \in Days /\ today' > today
      BY <2>t, <2>4, InventoryAssumption DEF NextDay, Days, TypeInv, TypeOK
    <3>2. res' = res
      BY <2>4 DEF NextDay, db
    <3> QED
      BY <3>1, <3>2 DEF Calendar!NextDay, Calendar!Days, Days
  <2> QED
    BY <2>1, <2>2, <2>3, <2>4, StutterStep DEF Calendar!Next
<1> QED
  BY <1>1, <1>2, <1>3, <1>4, PTL DEF Spec, Calendar!Spec
-----------------------------------------------------------------------------
(***************************************************************************)
(* What group blocks hold.  The capacity that a booking asks for is        *)
(* counted over the whole stay, so it is at most what each night has left; *)
(* a move takes as many rooms of a night as it gives back.  Bookings of    *)
(* different rooms share no lock: what counts are those that no other      *)
(* booking overtook.                                                       *)
(***************************************************************************)
Rightful == Res \ (raced \cup Amended)

SoldOn(n) == {p \in Rightful \X Rooms : Holds(p[1], p[2], n)}

HeldOn(n) == Outstanding({h \in GroupHolds : Covers(h, n)})

\* There are reservations to count, and the blocks alone fit into the house.
HouseFits == IsFiniteSet(Res) /\ \A n \in Days : HeldOn(n) <= Cardinality(Rooms)

\* A handler that is about to commit has room for what it books, unless it was overtaken,
\* and moves a room it has.
RoomFor(w) ==
    pc[w] \in Deciding =>
        /\ w \notin overtaken /\ req[w].kind = "book" /\ res[req[w].r].status = "None" =>
              \A n \in Days : n >= today /\ req[w].arr <= n /\ n < req[w].dep =>
                  Cardinality(SoldOn(n)) + Cardinality(req[w].rooms) + HeldOn(n) <= Cardinality(Rooms)
        /\ req[w].kind = "move" => req[w].from \in res[req[w].r].rooms

HoldsInv ==
    /\ LifecycleInv
    /\ \A w \in Workers : RoomFor(w)
    /\ HoldsKept

LEMMA SoldIsFinite ==
    ASSUME HouseFits, NEW n
    PROVE  IsFiniteSet(SoldOn(n)) /\ Cardinality(SoldOn(n)) \in Nat
<1>1. IsFiniteSet(Res \X Rooms)
  BY InventoryAssumption, FS_Product DEF HouseFits
<1>2. SoldOn(n) \in SUBSET (Res \X Rooms)
  BY DEF SoldOn, Rightful
<1> QED
  BY <1>1, <1>2, FS_Subset, FS_CardinalityType

LEMMA KeptOnANight ==
    ASSUME HoldsKept, NEW n \in Days, n >= today
    PROVE  Cardinality(SoldOn(n)) + HeldOn(n) <= Cardinality(Rooms)
BY DEF HoldsKept, SoldOn, Rightful, Holds, HeldOn

LEMMA HoldsAreNumbers ==
    ASSUME NEW S \in SUBSET GroupHolds
    PROVE  IsFiniteSet(S) /\ Outstanding(S) \in Nat
<1> DEFINE f == [h \in GroupHolds |-> h.n]
<1>1. IsFiniteSet(S)
  BY HoldsAssumption, FS_Subset
<1>2. \A h \in S : f[h] \in Nat
  BY HoldsAssumption
<1> HIDE DEF f
<1>3. SumFunctionOnSet(f, S) \in Nat
  BY <1>1, <1>2, SumNatural
<1> QED
  BY <1>1, <1>3 DEF Outstanding, f

LEMMA MoreHoldsHoldMore ==
    ASSUME NEW S \in SUBSET GroupHolds, NEW T \in SUBSET S
    PROVE  Outstanding(T) <= Outstanding(S)
<1> DEFINE f == [h \in GroupHolds |-> h.n]
<1>1. IsFiniteSet(S) /\ \A h \in S : f[h] \in Int
  BY HoldsAreNumbers, HoldsAssumption
<1> HIDE DEF f
<1>2. SumFunctionOnSet(f, S) = SumFunctionOnSet(f, T) + SumFunctionOnSet(f, S \ T)
  BY <1>1, SumSplit
<1>3. Outstanding(S) = Outstanding(T) + Outstanding(S \ T)
  BY <1>2 DEF Outstanding, f
<1>4. S \ T \in SUBSET GroupHolds /\ T \in SUBSET GroupHolds
  OBVIOUS
<1>5. Outstanding(S) \in Nat /\ Outstanding(T) \in Nat /\ Outstanding(S \ T) \in Nat
  BY <1>4, HoldsAreNumbers
<1> QED
  BY <1>3, <1>5

LEMMA BlocksAreFinite ==
    ASSUME NEW S \in SUBSET CalendarBlocks
    PROVE  IsFiniteSet(S) /\ Cardinality(S) \in Nat
<1> DEFINE P == (Rooms \X Days) \X Days
           g == [x \in P |-> [room |-> x[1][1], arr |-> x[1][2], dep |-> x[2]]]
           All == {g[x] : x \in P}
<1>1. IsFiniteSet(P)
  <2>1. IsFiniteSet(Days) /\ IsFiniteSet(Rooms)
    BY InventoryAssumption, FS_Interval DEF Days
  <2>2. IsFiniteSet(Rooms \X Days)
    BY <2>1, FS_Product
  <2> QED
    BY <2>1, <2>2, FS_Product
<1>2. ASSUME NEW b \in CalendarBlocks PROVE b \in All
  <2>1. b \in [room : Rooms, arr : Days, dep : Days]
    BY HoldsAssumption
  <2>2. b.room \in Rooms /\ b.arr \in Days /\ b.dep \in Days
        /\ b = [room |-> b.room, arr |-> b.arr, dep |-> b.dep]
    BY <2>1
  <2> DEFINE x == <<<<b.room, b.arr>>, b.dep>>
  <2>3. x \in P /\ g[x] = b
    BY <2>2
  <2> QED
    BY <2>3
<1> HIDE DEF P, g
<1>3. IsFiniteSet(All)
  BY <1>1, FiniteImage
<1>4. S \in SUBSET All
  BY <1>2
<1> HIDE DEF All
<1> QED
  BY <1>3, <1>4, FS_Subset, FS_CardinalityType

\* What the capacity leaves is free on every night of the stay.
LEMMA CapacityOfANight ==
    ASSUME HouseFits, TypeInv, NEW r \in Res, ~Blocking(res[r]),
           NEW arr \in Days, NEW dep \in Days, NEW n \in Days, arr <= n, n < dep,
           NEW k \in Nat, k > 0, UnheldCapacity(Committed, arr, dep, r) >= k
    PROVE  Cardinality(SoldOn(n)) + k + HeldOn(n) <= Cardinality(Rooms)
<1> DEFINE operational == {m \in Rooms : room[m].op # "Out of Service"}
           taken == {p \in (Res \ {r}) \X Rooms :
                        /\ Blocking(res[p[1]]) /\ p[2] \in res[p[1]].rooms
                        /\ Overlap(res[p[1]], arr, dep)}
           touching == {h \in GroupHolds : Overlap(h, arr, dep)}
           external == {b \in imported : Overlap(b, arr, dep)}
<1>1. Cardinality(operational) - Cardinality(taken) - Outstanding(touching) - Cardinality(external) >= k
  <2> DEFINE rest == Cardinality(operational) - Cardinality(taken) - Outstanding(touching)
                     - Cardinality(external)
  <2>1. UnheldCapacity(Committed, arr, dep, r) = IF rest > 0 THEN rest ELSE 0
    BY DEF UnheldCapacity, Committed
  <2> HIDE DEF rest
  <2>2. rest >= k
    BY <2>1
  <2> QED
    BY <2>2 DEF rest
<1>2. Cardinality(operational) \in Nat /\ Cardinality(Rooms) \in Nat
      /\ Cardinality(operational) <= Cardinality(Rooms)
  <2>1. operational \in SUBSET Rooms
    OBVIOUS
  <2> HIDE DEF operational
  <2> QED
    BY <2>1, InventoryAssumption, FS_Subset, FS_CardinalityType
<1>3. Cardinality(external) \in Nat
  BY BlocksAreFinite DEF TypeInv, TypeOK
<1>d. arr \in Int /\ dep \in Int /\ n \in Int
  BY DaysAreNumbers
<1>4. Cardinality(taken) \in Nat /\ Cardinality(SoldOn(n)) <= Cardinality(taken)
  <2>1. taken \in SUBSET (Res \X Rooms) /\ IsFiniteSet(Res \X Rooms)
    BY InventoryAssumption, FS_Product DEF HouseFits
  <2>2. ASSUME NEW p \in SoldOn(n) PROVE p \in taken
    <3>1. p \in Res \X Rooms /\ p[1] # r
      BY DEF SoldOn, Rightful, Holds
    <3>2. res[p[1]].arr \in Int /\ res[p[1]].dep \in Int
      BY <3>1, DaysAreNumbers DEF TypeInv, TypeOK, Reservation
    <3>3. Overlap(res[p[1]], arr, dep)
      BY <1>d, <3>2 DEF SoldOn, Holds, Covers, Overlap
    <3>4. p \in (Res \ {r}) \X Rooms
      BY <3>1
    <3> QED
      BY <3>3, <3>4 DEF SoldOn, Holds
  <2> HIDE DEF taken
  <2>3. IsFiniteSet(taken) /\ SoldOn(n) \in SUBSET taken
    BY <2>1, <2>2, FS_Subset
  <2> QED
    BY <2>3, FS_Subset, FS_CardinalityType
<1>5. Outstanding(touching) \in Nat /\ HeldOn(n) \in Nat /\ HeldOn(n) <= Outstanding(touching)
  <2> DEFINE covering == {h \in GroupHolds : Covers(h, n)}
  <2>1. ASSUME NEW h \in covering PROVE h \in touching
    <3>1. h.arr \in Int /\ h.dep \in Int
      BY HoldsAssumption, DaysAreNumbers
    <3> QED
      BY <1>d, <3>1 DEF Covers, Overlap
  <2>2. covering \in SUBSET touching /\ touching \in SUBSET GroupHolds /\ covering \in SUBSET GroupHolds
    BY <2>1
  <2>3. HeldOn(n) = Outstanding(covering)
    BY DEF HeldOn
  <2> HIDE DEF covering, touching
  <2> QED
    BY <2>2, <2>3, HoldsAreNumbers, MoreHoldsHoldMore
<1>6. Cardinality(SoldOn(n)) \in Nat
  BY SoldIsFinite
<1> HIDE DEF operational, taken, touching, external
<1> QED
  BY <1>1, <1>2, <1>3, <1>4, <1>5, <1>6

LEMMA CheckedRoomFor ==
    ASSUME RepeatableRead = FALSE, HouseFits, HoldsInv, NEW w \in Workers, Check(w)
    PROVE  /\ req[w].kind = "book" /\ res[req[w].r].status = "None" =>
                \A n \in Days : n >= today /\ req[w].arr <= n /\ n < req[w].dep =>
                  Cardinality(SoldOn(n)) + Cardinality(req[w].rooms) + HeldOn(n) <= Cardinality(Rooms)
           /\ req[w].kind = "move" => req[w].from \in res[req[w].r].rooms
<1>t. TypeInv /\ req[w] \in Request /\ req[w].r \in Res
  BY RequestFields DEF HoldsInv, LifecycleInv, TypeInv, Busy, Check
<1>s. Seen(w) = Committed
  BY DEF Seen
<1>1. ASSUME req[w].kind = "book", res[req[w].r].status = "None",
             NEW n \in Days, n >= today, req[w].arr <= n, n < req[w].dep
      PROVE  Cardinality(SoldOn(n)) + Cardinality(req[w].rooms) + HeldOn(n) <= Cardinality(Rooms)
  <2>1. req[w].rooms \in SUBSET Rooms /\ req[w].arr \in Days /\ req[w].dep \in Days
    BY <1>t, <1>1, RequestFields
  <2>2. Cardinality(req[w].rooms) \in Nat
    BY <2>1, InventoryAssumption, FS_Subset, FS_CardinalityType
  <2>3. UnheldCapacity(Committed, req[w].arr, req[w].dep, req[w].r) >= Cardinality(req[w].rooms)
    BY <1>s, <1>1 DEF Check, Ok, BookOk, RoomsAvailable
  <2>4. ~Blocking(res[req[w].r])
    BY <1>1 DEF Blocking
  <2>5. CASE Cardinality(req[w].rooms) > 0
    BY <1>t, <1>1, <2>1, <2>2, <2>3, <2>4, <2>5, CapacityOfANight
  <2>6. CASE Cardinality(req[w].rooms) = 0
    <3>1. Cardinality(SoldOn(n)) + HeldOn(n) <= Cardinality(Rooms)
      BY <1>1, KeptOnANight DEF HoldsInv
    <3>2. Cardinality(SoldOn(n)) \in Nat /\ HeldOn(n) \in Nat
      BY SoldIsFinite, HoldsAreNumbers DEF HeldOn
    <3> QED
      BY <2>6, <3>1, <3>2
  <2> QED
    BY <2>2, <2>5, <2>6
<1>2. ASSUME req[w].kind = "move" PROVE req[w].from \in res[req[w].r].rooms
  <2>1. MoveOk(Committed, req[w])
    BY <1>s, <1>2 DEF Check, Ok
  <2> QED
    BY <2>1 DEF MoveOk, Committed
<1> QED
  BY <1>1, <1>2

LEMMA RacedGrows ==
    ASSUME [Next]_vars PROVE raced \subseteq raced'
<1>1. ASSUME NEW w \in Workers, Commit(w) PROVE raced \subseteq raced'
  BY <1>1 DEF Commit, CommitBook, CommitAmend, CommitMove, CommitCheckIn, CommitCheckOut,
              CommitCancel
<1> QED
  BY <1>1, OnlyCommitsWrite

\* What is rightfully sold of a night, and does not change, stays or is no longer counted.
LEMMA SoldOfOthers ==
    ASSUME TypeInv, [Next]_vars, NEW w \in Workers, Commit(w), NEW n \in Days,
           NEW p \in SoldOn(n)', p[1] # req[w].r
    PROVE  p \in SoldOn(n)
<1>1. p \in Rightful' \X Rooms /\ p[1] \in Rightful' /\ p[2] \in Rooms /\ Holds(p[1], p[2], n)'
  BY DEF SoldOn
<1>2. Rightful' \subseteq Rightful /\ Rightful \subseteq Res
  BY RacedGrows, AmendedGrows DEF Rightful
<1>3. res'[p[1]] = res[p[1]]
  BY <1>1, <1>2, CommitOthers
<1>4. Holds(p[1], p[2], n)
  BY <1>1, <1>3 DEF Holds, Blocking, Covers
<1> QED
  BY <1>1, <1>2, <1>4 DEF SoldOn

\* The commit of an amendment, or of an overtaken booking, takes the reservation out of
\* what is counted.
LEMMA NotCounted ==
    ASSUME TypeInv, NEW w \in Workers, Commit(w),
           \/ req[w].kind = "amend"
           \/ req[w].kind = "book" /\ res[req[w].r].status = "None" /\ w \in overtaken
    PROVE  req[w].r \notin Rightful'
<1>t. req[w] \in Request
  BY DEF TypeInv, Busy, Commit
<1>1. CASE req[w].kind = "amend"
  <2>1. <<req[w].r, req[w].arr, req[w].dep>> \in stayLog'
    BY <1>1 DEF Commit, CommitBook, CommitAmend, CommitMove, CommitCheckIn,
                CommitCheckOut, CommitCancel
  <2>2. req[w].arr \in Days /\ req[w].dep \in Days /\ req[w].r \in Res
    BY <1>t, <1>1, RequestFields
  <2>3. req[w].r \in Amended'
    BY <2>1, <2>2 DEF Amended
  <2> QED
    BY <2>3 DEF Rightful
<1>2. CASE req[w].kind = "book" /\ res[req[w].r].status = "None" /\ w \in overtaken
  <2>1. req[w].r \in raced'
    BY <1>2 DEF Commit, CommitBook, CommitAmend, CommitMove, CommitCheckIn,
                CommitCheckOut, CommitCancel
  <2> QED
    BY <2>1 DEF Rightful
<1> QED
  BY <1>1, <1>2

\* Only a booking that nobody overtook adds to what is sold of a night.
LEMMA SoldShrinks ==
    ASSUME HouseFits, LifecycleInv, [Next]_vars, NEW w \in Workers, Commit(w), RoomFor(w),
           NEW n \in Days, NEW r \in Res, r = req[w].r,
           req[w].kind = "book" => res[req[w].r].status # "None" \/ w \in overtaken
    PROVE  IsFiniteSet(SoldOn(n)') /\ Cardinality(SoldOn(n)') <= Cardinality(SoldOn(n))
<1>t. TypeInv /\ Written(w, r) /\ pc[w] = "commit" /\ req[w] \in Request
  BY CommitStay DEF LifecycleInv, Commit, TypeInv, Busy
<1>r. r = req[w].r
  OBVIOUS
<1>f. IsFiniteSet(SoldOn(n)) /\ Cardinality(SoldOn(n)) \in Nat
  BY SoldIsFinite
<1>o. \A p \in SoldOn(n)' : p[1] # r => p \in SoldOn(n)
  BY <1>t, <1>r, SoldOfOthers
<1>e. \A p \in SoldOn(n)' : /\ p \in Rightful' \X Rooms /\ p[1] \in Rightful' /\ p[2] \in Rooms
                            /\ p = <<p[1], p[2]>> /\ Holds(p[1], p[2], n)'
  BY DEF SoldOn
<1>g. Rightful' \subseteq Rightful
  BY <1>t, RacedGrows, AmendedGrows DEF Rightful
<1>s. ASSUME SoldOn(n)' \subseteq SoldOn(n)
      PROVE  IsFiniteSet(SoldOn(n)') /\ Cardinality(SoldOn(n)') <= Cardinality(SoldOn(n))
  BY <1>s, <1>f, FS_Subset
<1>1. ASSUME r \in Rightful' => \A m \in Rooms : Holds(r, m, n)' => Holds(r, m, n)
      PROVE  SoldOn(n)' \subseteq SoldOn(n)
  <2>1. ASSUME NEW p \in SoldOn(n)', p[1] = r PROVE p \in SoldOn(n)
    BY <1>1, <1>e, <1>g, <2>1 DEF SoldOn
  <2> QED
    BY <1>o, <2>1
<1>2. CASE req[w].kind \in {"check_out", "cancel", "no_show"}
  <2>1. \A m \in Rooms : Holds(r, m, n)' => Holds(r, m, n)
    BY <1>2, <1>t DEF Written, Holds, Blocking
  <2> QED
    BY <1>1, <1>s, <2>1
<1>3. CASE req[w].kind = "check_in"
  <2>1. res[r].status = "Confirmed"
    BY <1>3, <1>t, <1>r, CommitFrom
  <2>2. \A m \in Rooms : Holds(r, m, n)' => Holds(r, m, n)
    BY <1>3, <1>t, <2>1 DEF Written, SameStay, Holds, Blocking, Covers
  <2> QED
    BY <1>1, <1>s, <2>2
<1>4. CASE req[w].kind = "book" /\ res[r].status # "None"
  <2>1. \A m \in Rooms : Holds(r, m, n)' => Holds(r, m, n)
    BY <1>4, <1>t DEF Written, Holds, Blocking, Covers
  <2> QED
    BY <1>1, <1>s, <2>1
<1>5. CASE req[w].kind = "amend" \/ (req[w].kind = "book" /\ res[r].status = "None")
  <2>1. r \notin Rightful'
    BY <1>5, <1>t, <1>r, NotCounted
  <2> QED
    BY <1>1, <1>s, <2>1
<1>6. CASE req[w].kind = "move"
  <2>t. req[w].to \in Rooms /\ req[w].from \in Rooms
    BY <1>6, <1>t, RequestFields
  <2>1. /\ res[r].status = "Checked In" /\ res'[r].status = res[r].status
        /\ res'[r].rooms = (res[r].rooms \ {req[w].from}) \cup {req[w].to}
        /\ res'[r].arr = res[r].arr /\ res'[r].dep = res[r].dep
        /\ req[w].from \in res[r].rooms
    BY <1>6, <1>t, <1>r, CommitFrom DEF Written, RoomFor, Deciding
  <2>2. CASE Covers(res[r], n) /\ r \in Rightful'
    <3> DEFINE was == <<r, req[w].from>>
               is == <<r, req[w].to>>
    <3>1. was \in SoldOn(n)
      BY <1>g, <2>t, <2>1, <2>2 DEF SoldOn, Holds, Blocking
    <3>2. ASSUME NEW p \in SoldOn(n)' PROVE p \in (SoldOn(n) \ {was}) \cup {is}
      <4>2. CASE p[1] # r
        <5>1. p # was
          BY <4>2
        <5> QED
          BY <1>o, <4>2, <5>1
      <4>3. CASE p[1] = r /\ p[2] = req[w].to
        BY <1>e, <4>3
      <4>4. CASE p[1] = r /\ p[2] # req[w].to
        <5>1. p[2] \in res[r].rooms /\ p[2] # req[w].from
          <6>1. Holds(r, p[2], n)'
            BY <1>e, <4>4
          <6>2. p[2] \in res'[r].rooms
            BY <6>1 DEF Holds
          <6> QED
            BY <2>1, <4>4, <6>2
        <5>2. Holds(r, p[2], n)
          BY <2>1, <2>2, <5>1 DEF Holds, Blocking
        <5>3. p # was
          BY <5>1
        <5> QED
          BY <1>e, <1>g, <4>4, <5>2, <5>3 DEF SoldOn
      <4> QED
        BY <4>2, <4>3, <4>4
    <3> HIDE DEF was, is
    <3>3. IsFiniteSet(SoldOn(n) \ {was}) /\ Cardinality(SoldOn(n) \ {was}) = Cardinality(SoldOn(n)) - 1
      BY <1>f, <3>1, FS_RemoveElement
    <3> DEFINE rest == SoldOn(n) \ {was}
    <3> HIDE DEF rest
    <3>4. IsFiniteSet(rest \cup {is}) /\ Cardinality(rest \cup {is}) <= Cardinality(rest) + 1
          /\ Cardinality(rest) = Cardinality(SoldOn(n)) - 1
      <4>1. IsFiniteSet(rest) /\ Cardinality(rest) = Cardinality(SoldOn(n)) - 1
        BY <3>3 DEF rest
      <4>2. Cardinality(rest) \in Nat
        BY <4>1, FS_CardinalityType
      <4>3. IsFiniteSet(rest \cup {is})
            /\ (Cardinality(rest \cup {is}) = Cardinality(rest) \/ Cardinality(rest \cup {is}) = Cardinality(rest) + 1)
        BY <4>1, FS_AddElement
      <4> QED
        BY <4>1, <4>2, <4>3
    <3>5. SoldOn(n)' \in SUBSET (rest \cup {is})
      BY <3>2 DEF rest
    <3>6. IsFiniteSet(SoldOn(n)') /\ Cardinality(SoldOn(n)') <= Cardinality(rest \cup {is})
      BY <3>4, <3>5, FS_Subset
    <3>7. Cardinality(SoldOn(n)') \in Nat /\ Cardinality(rest \cup {is}) \in Nat
      BY <3>4, <3>6, FS_CardinalityType
    <3> QED
      BY <1>f, <3>4, <3>6, <3>7
  <2>3. CASE ~(Covers(res[r], n) /\ r \in Rightful')
    <3>1. r \in Rightful' => \A m \in Rooms : Holds(r, m, n)' => Holds(r, m, n)
      BY <2>1, <2>3 DEF Holds, Covers
    <3> QED
      BY <1>1, <1>s, <3>1
  <2> QED
    BY <2>2, <2>3
<1> QED
  BY <1>2, <1>3, <1>4, <1>5, <1>6, <1>r, <1>t DEF Written

\* A booking that nobody overtook finds the room it has seen.
LEMMA SoldByBooking ==
    ASSUME HouseFits, HoldsInv, [Next]_vars, NEW w \in Workers, Commit(w),
           NEW n \in Days, n >= today,
           req[w].kind = "book", res[req[w].r].status = "None", w \notin overtaken
    PROVE  Cardinality(SoldOn(n)') + HeldOn(n) <= Cardinality(Rooms)
<1> DEFINE r == req[w].r
<1>t. /\ TypeInv /\ r \in Res /\ Written(w, r) /\ pc[w] = "commit" /\ req[w] \in Request
      /\ RoomFor(w)
  BY CommitStay DEF HoldsInv, LifecycleInv, Commit, TypeInv, Busy
<1> HIDE DEF r
<1>r. r = req[w].r
  BY DEF r
<1>f. IsFiniteSet(SoldOn(n)) /\ Cardinality(SoldOn(n)) \in Nat /\ Cardinality(Rooms) \in Nat
  BY SoldIsFinite, InventoryAssumption, FS_CardinalityType
<1>h. HeldOn(n) \in Nat
  BY HoldsAreNumbers DEF HeldOn
<1>k. Cardinality(SoldOn(n)) + HeldOn(n) <= Cardinality(Rooms)
  BY KeptOnANight DEF HoldsInv
<1>o. \A p \in SoldOn(n)' : p[1] # r => p \in SoldOn(n)
  BY <1>t, <1>r, SoldOfOthers
<1>e. \A p \in SoldOn(n)' : p = <<p[1], p[2]>> /\ p[2] \in Rooms /\ Holds(p[1], p[2], n)'
  BY DEF SoldOn
<1>w. /\ req[w].rooms \in SUBSET Rooms /\ IsFiniteSet(req[w].rooms)
      /\ Cardinality(req[w].rooms) \in Nat
  BY <1>t, RequestFields, InventoryAssumption, FS_Subset, FS_CardinalityType
<1>1. CASE req[w].arr <= n /\ n < req[w].dep
  <2> DEFINE new == {r} \X req[w].rooms
  <2>1. Cardinality(SoldOn(n)) + Cardinality(req[w].rooms) + HeldOn(n) <= Cardinality(Rooms)
    BY <1>1, <1>t DEF RoomFor, Deciding
  <2>2. IsFiniteSet(new) /\ Cardinality(new) = Cardinality(req[w].rooms)
    <3>1. IsFiniteSet({r}) /\ Cardinality({r}) = 1
      BY FS_Singleton
    <3>2. IsFiniteSet(new) /\ Cardinality(new) = 1 * Cardinality(req[w].rooms)
      BY <1>w, <3>1, FS_Product
    <3> QED
      BY <1>w, <3>2
  <2>3. ASSUME NEW p \in SoldOn(n)' PROVE p \in SoldOn(n) \cup new
    <3>1. CASE p[1] # r
      BY <1>o, <3>1
    <3>2. CASE p[1] = r
      BY <1>e, <1>r, <1>t, <3>2 DEF Written, Holds
    <3> QED
      BY <3>1, <3>2
  <2> HIDE DEF new
  <2>4. SoldOn(n)' \in SUBSET (SoldOn(n) \cup new)
    BY <2>3
  <2>5. /\ IsFiniteSet(SoldOn(n) \cup new)
        /\ Cardinality(SoldOn(n) \cup new) =
             Cardinality(SoldOn(n)) + Cardinality(new) - Cardinality(SoldOn(n) \cap new)
    BY <1>f, <2>2, FS_Union
  <2>6. Cardinality(SoldOn(n) \cap new) \in Nat
    BY <1>f, FS_Subset, FS_CardinalityType
  <2>7. IsFiniteSet(SoldOn(n)') /\ Cardinality(SoldOn(n)') <= Cardinality(SoldOn(n) \cup new)
    BY <2>4, <2>5, FS_Subset
  <2>8. Cardinality(SoldOn(n)') \in Nat
    BY <2>7, FS_CardinalityType
  <2> QED
    BY <1>f, <1>h, <1>w, <2>1, <2>2, <2>5, <2>6, <2>7, <2>8
<1>2. CASE ~(req[w].arr <= n /\ n < req[w].dep)
  <2>1. ASSUME NEW p \in SoldOn(n)' PROVE p \in SoldOn(n)
    <3>1. p[1] # r
      BY <1>2, <1>e, <1>r, <1>t DEF Written, Holds, Covers
    <3> QED
      BY <1>o, <3>1
  <2>2. IsFiniteSet(SoldOn(n)') /\ Cardinality(SoldOn(n)') <= Cardinality(SoldOn(n))
    BY <1>f, <2>1, FS_Subset
  <2>3. Cardinality(SoldOn(n)') \in Nat
    BY <2>2, FS_CardinalityType
  <2> QED
    BY <1>f, <1>h, <1>k, <2>2, <2>3
<1> QED
  BY <1>1, <1>2

\* Between its check and its commit a booking keeps the room it has seen: the commits of
\* others add nothing to what is sold while it is not overtaken.
LEMMA NextRoomFor ==
    ASSUME RepeatableRead = FALSE, HouseFits, HoldsInv, [Next]_vars, NEW v \in Workers
    PROVE  RoomFor(v)'
<1> SUFFICES ASSUME pc'[v] \in Deciding
             PROVE  /\ v \notin overtaken' /\ (req[v].kind = "book" /\ res[req[v].r].status = "None")' =>
                         \A n \in Days : n >= today' /\ (req[v].arr <= n /\ n < req[v].dep)' =>
                             Cardinality(SoldOn(n)') + Cardinality(req'[v].rooms) + HeldOn(n)
                               <= Cardinality(Rooms)
                    /\ req'[v].kind = "move" => req'[v].from \in res'[req'[v].r].rooms
  BY DEF RoomFor, HeldOn, Outstanding, Covers
<1>i. LifecycleInv /\ TypeInv
  BY DEF HoldsInv, LifecycleInv
<1>1. Check(v) \/ (pc[v] \in Deciding /\ req'[v] = req[v] /\ ~Commit(v))
  BY <1>i, HowToDecide
<1>2. req'[v] = req[v] /\ ~Commit(v) /\ pc[v] \in Started
  BY <1>1 DEF Check, Commit, Deciding, Started
<1>3. ASSUME req[v].kind = "move" PROVE req[v].from \in res'[req[v].r].rooms
  <2>1. res'[req[v].r] = res[req[v].r]
    BY <1>2, <1>3, <1>i, OwnStayKept DEF OnReservation
  <2>2. req[v].from \in res[req[v].r].rooms
    BY <1>1, <1>3, CheckedRoomFor DEF HoldsInv, RoomFor
  <2> QED
    BY <2>1, <2>2
<1>4. ASSUME v \notin overtaken', req[v].kind = "book", res'[req[v].r].status = "None",
             NEW n \in Days, n >= today', req[v].arr <= n, n < req[v].dep
      PROVE  Cardinality(SoldOn(n)') + Cardinality(req[v].rooms) + HeldOn(n) <= Cardinality(Rooms)
  <2>t. req[v] \in Request /\ req[v].r \in Res
    BY <1>2, <1>i, RequestFields DEF TypeInv, Busy, Started
  <2>1. \A w \in Workers : Commit(w) => req[w].kind # "book"
    <3>1. ASSUME Check(v), NEW w \in Workers, Commit(w) PROVE FALSE
      BY <1>i, <3>1 DEF Check, Commit, End, TypeInv, TypeOK
    <3> QED
      BY <1>1, <1>4, <1>i, <3>1, NotOvertaken
  <2>2. n >= today
    BY <1>4, <1>i, TodayGrows, DaysAreNumbers
  <2>3. res[req[v].r].status = "None"
    <3>1. ASSUME NEW w \in Workers, Commit(w) PROVE res[req[v].r].status = "None"
      <4>1. CASE req[w].r # req[v].r
        BY <1>4, <1>i, <2>t, <3>1, <4>1, CommitOthers
      <4>2. CASE req[w].r = req[v].r
        <5>1. Written(w, req[w].r)
          BY <1>i, <3>1, CommitStay
        <5>2. req[w].kind \in {"amend", "move"}
          BY <1>4, <2>1, <3>1, <4>2, <5>1 DEF Written
        <5> QED
          BY <1>4, <4>2, <5>1, <5>2 DEF Written
      <4> QED
        BY <4>1, <4>2
    <3> QED
      BY <1>4, <3>1, OnlyCommitsWrite
  <2>4. Cardinality(SoldOn(n)) + Cardinality(req[v].rooms) + HeldOn(n) <= Cardinality(Rooms)
    <3>1. v \notin overtaken \/ Check(v)
      BY <1>1, <1>4, <1>i, NotOvertaken
    <3> QED
      BY <1>1, <1>4, <2>2, <2>3, <3>1, CheckedRoomFor DEF HoldsInv, RoomFor
  <2>5. IsFiniteSet(SoldOn(n)') /\ Cardinality(SoldOn(n)') <= Cardinality(SoldOn(n))
    <3>1. ASSUME NEW w \in Workers, Commit(w)
          PROVE  IsFiniteSet(SoldOn(n)') /\ Cardinality(SoldOn(n)') <= Cardinality(SoldOn(n))
      BY <1>i, <2>1, <3>1, CommitStay, SoldShrinks DEF HoldsInv
    <3>2. ASSUME \A w \in Workers : ~Commit(w) PROVE SoldOn(n)' = SoldOn(n)
      BY <3>2, OnlyCommitsWrite DEF SoldOn, Rightful, Amended, Holds, Blocking, Covers
    <3> QED
      BY <3>1, <3>2, SoldIsFinite
  <2>6. /\ Cardinality(SoldOn(n)') \in Nat /\ Cardinality(SoldOn(n)) \in Nat /\ HeldOn(n) \in Nat
        /\ Cardinality(Rooms) \in Nat
    BY <2>5, SoldIsFinite, HoldsAreNumbers, InventoryAssumption, FS_CardinalityType DEF HeldOn
  <2>7. Cardinality(req[v].rooms) \in Nat
    BY <1>4, <2>t, RequestFields, InventoryAssumption, FS_Subset, FS_CardinalityType
  <2> QED
    BY <2>4, <2>5, <2>6, <2>7
<1> QED
  BY <1>2, <1>3, <1>4

\* Where plain selects read committed rows, with any handlers beside each other: what is
\* sold of a coming night, by bookings that nobody overtook and that were not amended, and
\* what group blocks hold of it fit into the house.
THEOREM HeldRoomsAreKept ==
    RepeatableRead = FALSE /\ HouseFits => (Spec => []HoldsKept)
<1> SUFFICES ASSUME RepeatableRead = FALSE, HouseFits PROVE Spec => []HoldsKept
  OBVIOUS
<1>1. ASSUME Init PROVE HoldsInv
  <2>1. \A w \in Workers : RoomFor(w)
    BY <1>1 DEF Init, RoomFor, Deciding
  <2>2. \A n \in Days : SoldOn(n) = {}
    BY <1>1, InitNotBlocking DEF SoldOn, Rightful, Holds
  <2>3. \A n \in Days : Cardinality(SoldOn(n)) + HeldOn(n) <= Cardinality(Rooms)
    <3>1. \A n \in Days : HeldOn(n) \in Nat /\ HeldOn(n) <= Cardinality(Rooms)
      BY HoldsAreNumbers DEF HeldOn, HouseFits
    <3> QED
      BY <2>2, <3>1, FS_EmptySet
  <2>4. HoldsKept
    BY <2>3 DEF HoldsKept, SoldOn, Rightful, Holds, HeldOn
  <2> QED
    BY <1>1, <2>1, <2>4, InitLifecycleInv DEF HoldsInv
<1>2. ASSUME HoldsInv, [Next]_vars PROVE HoldsInv'
  <2>1. LifecycleInv'
    BY <1>2, NextLifecycleInv DEF HoldsInv
  <2>2. (\A w \in Workers : RoomFor(w))'
    BY <1>2, NextRoomFor
  <2>3. ASSUME NEW n \in Days, n >= today'
        PROVE  Cardinality(SoldOn(n)') + HeldOn(n) <= Cardinality(Rooms)
    <3>1. n >= today
      BY <1>2, <2>3, TodayGrows, DaysAreNumbers DEF HoldsInv, LifecycleInv
    <3>2. Cardinality(SoldOn(n)) + HeldOn(n) <= Cardinality(Rooms)
      BY <1>2, <3>1, KeptOnANight DEF HoldsInv
    <3>3. ASSUME IsFiniteSet(SoldOn(n)'), Cardinality(SoldOn(n)') <= Cardinality(SoldOn(n))
          PROVE  Cardinality(SoldOn(n)') + HeldOn(n) <= Cardinality(Rooms)
      <4>1. /\ Cardinality(SoldOn(n)') \in Nat /\ Cardinality(SoldOn(n)) \in Nat
            /\ HeldOn(n) \in Nat /\ Cardinality(Rooms) \in Nat
        BY <3>3, SoldIsFinite, HoldsAreNumbers, InventoryAssumption, FS_CardinalityType DEF HeldOn
      <4> QED
        BY <3>2, <3>3, <4>1
    <3>4. ASSUME NEW w \in Workers, Commit(w)
          PROVE  Cardinality(SoldOn(n)') + HeldOn(n) <= Cardinality(Rooms)
      <4>1. CASE req[w].kind = "book" /\ res[req[w].r].status = "None" /\ w \notin overtaken
        BY <1>2, <3>1, <3>4, <4>1, SoldByBooking
      <4>2. CASE req[w].kind = "book" => res[req[w].r].status # "None" \/ w \in overtaken
        BY <1>2, <3>3, <3>4, <4>2, CommitStay, SoldShrinks DEF HoldsInv, LifecycleInv
      <4> QED
        BY <4>1, <4>2
    <3>5. ASSUME \A w \in Workers : ~Commit(w)
          PROVE  Cardinality(SoldOn(n)') + HeldOn(n) <= Cardinality(Rooms)
      <4>1. SoldOn(n)' = SoldOn(n)
        BY <1>2, <3>5, OnlyCommitsWrite DEF SoldOn, Rightful, Amended, Holds, Blocking, Covers
      <4> QED
        BY <3>2, <4>1
    <3> QED
      BY <3>4, <3>5
  <2>4. HoldsKept'
    BY <2>3 DEF HoldsKept, SoldOn, Rightful, Holds, HeldOn, Covers, Outstanding
  <2> QED
    BY <2>1, <2>2, <2>4 DEF HoldsInv
<1>3. HoldsInv => HoldsKept
  BY DEF HoldsInv
<1> QED
  BY <1>1, <1>2, <1>3, PTL DEF Spec
=============================================================================
