--------------------------- MODULE RoomInventory ---------------------------
(***************************************************************************)
(* The reservation inventory of one property: reservations, rooms and the  *)
(* requests that change them (front_desk.py, hotel_reservation.py,         *)
(* room_status.py and the wrappers of api/__init__.py).                    *)
(*                                                                         *)
(* Every request is one database transaction.  Its writes are seen by      *)
(* nobody before Commit; `select ... for update` waits for a row lock that *)
(* is held until the end of the transaction; a plain select reads          *)
(*                                                                         *)
(*   - the committed rows of the moment (RepeatableRead = FALSE), or       *)
(*   - the snapshot taken by the transaction's first plain select          *)
(*     (RepeatableRead = TRUE, the default of MariaDB/InnoDB).             *)
(*                                                                         *)
(* Between two of these steps another request may run.  A handler is       *)
(* therefore cut into: wait for the reservation row, wait for each room    *)
(* row, read and decide (Check), wait for the rooms it is about to write,  *)
(* and Commit.  A request that throws, times out on a lock, is chosen as   *)
(* deadlock victim or loses its worker is rolled back: Rollback.           *)
(*                                                                         *)
(* All rooms are of one room type.  Housekeeping and maintenance appear    *)
(* only by the room status they leave behind (module RoomOps has them in   *)
(* full), the calendars of other channels by the blocks they have live     *)
(* (module Distribution); the group holds are given.  The hotel's setting  *)
(* allow_overbooking is off: when it is on, _validate_room_availability    *)
(* returns before it locks or asks anything, and nothing below is promised.*)
(***************************************************************************)
EXTENDS Integers, FiniteSets, FiniteSetsExt

CONSTANTS
    Rooms,            \* room numbers; room rows are locked in this order
    Res,              \* a reservation is named by the idempotency key that made it
    MoveKeys,         \* idempotency keys of room moves
    Workers,          \* web workers and background jobs: one request each at a time
    Nobody,           \* holder of a free lock
    MaxAmendments,    \* bound on the amendments that are begun
    MaxDay,           \* bound on the calendar: days are 0..MaxDay
    StayDates,        \* the <<arrival, departure>> pairs requests may ask for
    GroupHolds,       \* active group room blocks: [n, arr, dep], n rooms outstanding
    CalendarBlocks,   \* the calendar blocks other channels may send: [room, arr, dep]
    Kinds,            \* which handlers run
    RepeatableRead    \* the isolation level, see above

AllKinds ==
    {"book", "amend", "move", "check_in", "check_out", "cancel", "no_show", "maintenance",
     "housekeeping", "import"}

Days == 0..MaxDay

ASSUME InventoryAssumption ==
    /\ Rooms \subseteq Nat
    /\ IsFiniteSet(Rooms)
    /\ Nobody \notin Workers
    /\ MaxDay \in Nat
    /\ MaxAmendments \in Nat
    /\ StayDates \subseteq {s \in Days \X Days : s[1] < s[2]}
    /\ Kinds \subseteq AllKinds
    /\ RepeatableRead \in BOOLEAN

ASSUME HoldsAssumption ==
    /\ IsFiniteSet(GroupHolds)
    /\ GroupHolds \subseteq [id : Nat, n : Nat, arr : Days, dep : Days]
    /\ CalendarBlocks \subseteq [room : Rooms, arr : Days, dep : Days]

VARIABLES
    today,      \* getdate()
    res,        \* tabHotel Reservation with its room rows, submitted documents
    room,       \* tabHotel Room: operational and housekeeping status
    stayLog,    \* Hotel Stay Change Log rows of amend_stay: <<r, arrival, departure>>
    moveLog,    \* Hotel Stay Change Log rows of move_room: <<r, key>>
    imported,   \* the calendar blocks that are live: tabHotel Distribution Event
    raced       \* history: the reservations an overtaken handler has booked

db == <<res, room, stayLog, moveLog, imported, raced>>

VARIABLES
    pc,         \* how far each worker's transaction is
    req,        \* the request it serves
    want,       \* the room rows it still has to lock
    snap,       \* what its plain selects see, under repeatable read
    resLock,    \* who holds each reservation row
    roomLock    \* who holds each room row

txn == <<pc, req, want, snap, resLock, roomLock>>

VARIABLE
    overtaken   \* history: the workers that have decided, and since whose decision
                \* another has booked or a calendar block has been imported

vars == <<today, res, room, stayLog, moveLog, imported, raced,
          pc, req, want, snap, resLock, roomLock, overtaken>>
-----------------------------------------------------------------------------
Statuses == {"None", "Confirmed", "Checked In", "Checked Out", "Cancelled", "No Show"}

Reservation == [status : Statuses, rooms : SUBSET Rooms, arr : Days, dep : Days]

NoReservation == [status |-> "None", rooms |-> {}, arr |-> 0, dep |-> 0]

\* Clean and Inspected are what check_in and move_room accept: ready.
RoomStatus == [op : {"Available", "Occupied", "Out of Service"}, ready : BOOLEAN]

Request ==
    [kind : {"book"}, r : Res, rooms : SUBSET Rooms, arr : Days, dep : Days]
    \cup [kind : {"amend"}, r : Res, arr : Days, dep : Days]
    \cup [kind : {"move"}, r : Res, from : Rooms, to : Rooms, key : MoveKeys]
    \cup [kind : {"check_in", "check_out", "cancel", "no_show"}, r : Res]

NoRequest == [kind |-> "none"]

View == [res : [Res -> Reservation], room : [Rooms -> RoomStatus], blocks : SUBSET CalendarBlocks]

NoView == [res |-> [r \in Res |-> NoReservation],
           room |-> [m \in Rooms |-> [op |-> "Available", ready |-> TRUE]],
           blocks |-> {}]

TypeOK ==
    /\ today \in Days
    /\ res \in [Res -> Reservation]
    /\ room \in [Rooms -> RoomStatus]
    /\ stayLog \subseteq Res \X Days \X Days
    /\ moveLog \subseteq Res \X MoveKeys
    /\ imported \subseteq CalendarBlocks
    /\ raced \subseteq Res
    /\ pc \in [Workers -> {"idle", "reservation", "rooms", "check", "release", "commit"}]
    /\ req \in [Workers -> Request \cup {NoRequest}]
    /\ want \in [Workers -> SUBSET Rooms]
    /\ snap \in [Workers -> View]
    /\ resLock \in [Res -> Workers \cup {Nobody}]
    /\ roomLock \in [Rooms -> Workers \cup {Nobody}]
    /\ overtaken \subseteq Workers

Init ==
    /\ today = 0
    /\ res = [r \in Res |-> NoReservation]
    /\ room = [m \in Rooms |-> [op |-> "Available", ready |-> TRUE]]
    /\ stayLog = {}
    /\ moveLog = {}
    /\ imported = {}
    /\ raced = {}
    /\ pc = [w \in Workers |-> "idle"]
    /\ req = [w \in Workers |-> NoRequest]
    /\ want = [w \in Workers |-> {}]
    /\ snap = [w \in Workers |-> NoView]
    /\ resLock = [r \in Res |-> Nobody]
    /\ roomLock = [m \in Rooms |-> Nobody]
    /\ overtaken = {}
-----------------------------------------------------------------------------
(* The queries, over what the transaction's plain selects see. *)

Committed == [res |-> res, room |-> room, blocks |-> imported]

Seen(w) == IF RepeatableRead THEN snap[w] ELSE Committed

\* The snapshot is kept only where it is used, so that it costs no states elsewhere.
TakeSnapshot(w) ==
    snap' = IF RepeatableRead THEN [snap EXCEPT ![w] = Committed] ELSE snap

Blocking(s) == s.status \in {"Confirmed", "Checked In"}

\* mutant: misses a stay that began before the period
MutOverlapByArrival(s, arr, dep) == s.arr >= arr /\ s.arr < dep

Overlap(s, arr, dep) == s.arr < dep /\ s.dep > arr

\* mutant: imported calendar blocks are not asked for
MutConflictOfReservations(v, m, arr, dep, exclude) ==
    \E r \in Res \ {exclude} :
        Blocking(v.res[r]) /\ m \in v.res[r].rooms /\ Overlap(v.res[r], arr, dep)

\* Another blocking reservation, or a calendar block, on room m in the period.
Conflict(v, m, arr, dep, exclude) ==
    \/ \E r \in Res \ {exclude} :
          Blocking(v.res[r]) /\ m \in v.res[r].rooms /\ Overlap(v.res[r], arr, dep)
    \/ \E b \in v.blocks : b.room = m /\ Overlap(b, arr, dep)

\* get_available_rooms
AvailableRooms(v, arr, dep, exclude) ==
    {m \in Rooms : v.room[m].op # "Out of Service" /\ ~Conflict(v, m, arr, dep, exclude)}

\* The rooms that group blocks still hold.
Outstanding(holds) == SumFunctionOnSet([h \in GroupHolds |-> h.n], holds)

\* mutant: group blocks are not subtracted
MutCapacityWithoutHolds(v, arr, dep, exclude) ==
    LET taken == {p \in (Res \ {exclude}) \X Rooms :
                     /\ Blocking(v.res[p[1]]) /\ p[2] \in v.res[p[1]].rooms
                     /\ Overlap(v.res[p[1]], arr, dep)}
    IN  Cardinality({m \in Rooms : v.room[m].op # "Out of Service"}) - Cardinality(taken)

\* get_available_room_type_capacity: not a maximum over nights but a count over
\* everything that touches the period.
UnheldCapacity(v, arr, dep, exclude) ==
    LET operational == {m \in Rooms : v.room[m].op # "Out of Service"}
        taken == {p \in (Res \ {exclude}) \X Rooms :
                     /\ Blocking(v.res[p[1]]) /\ p[2] \in v.res[p[1]].rooms
                     /\ Overlap(v.res[p[1]], arr, dep)}
        held == Outstanding({h \in GroupHolds : Overlap(h, arr, dep)})
        external == {b \in v.blocks : Overlap(b, arr, dep)}
        left == Cardinality(operational) - Cardinality(taken) - held - Cardinality(external)
    IN  IF left > 0 THEN left ELSE 0

\* _validate_room_availability
RoomsAvailable(v, rooms, arr, dep, r) ==
    /\ \A m \in rooms : ~Conflict(v, m, arr, dep, r)
    /\ UnheldCapacity(v, arr, dep, r) >= Cardinality(rooms)
-----------------------------------------------------------------------------
(* Beginning a request. *)

Begin(w, q, at) ==
    /\ pc[w] = "idle"
    /\ q.kind \in Kinds
    /\ pc' = [pc EXCEPT ![w] = at]
    /\ req' = [req EXCEPT ![w] = q]
    /\ UNCHANGED <<today, db, resLock, roomLock, overtaken>>

\* quick_multi_room_booking: a repeated key returns the existing reservation;
\* otherwise rooms are picked by plain selects, which also take the snapshot,
\* before the controller locks them.  One that repeats a key while the first is
\* still running ends without a write, here and in the code.
BeginBook(w, r, rooms, arr, dep) ==
    /\ res[r].status = "None"
    /\ rooms # {}
    /\ rooms \subseteq AvailableRooms(Committed, arr, dep, r)
    /\ Begin(w, [kind |-> "book", r |-> r, rooms |-> rooms, arr |-> arr, dep |-> dep], "rooms")
    /\ want' = [want EXCEPT ![w] = rooms]
    /\ TakeSnapshot(w)

BeginOnReservation(w, q) ==
    /\ res[q.r].status # "None"
    /\ Begin(w, q, "reservation")
    /\ UNCHANGED <<want, snap>>

BeginAmend(w, r, arr, dep) ==
    /\ Cardinality(stayLog) < MaxAmendments
    /\ BeginOnReservation(w, [kind |-> "amend", r |-> r, arr |-> arr, dep |-> dep])

BeginMove(w, r, from, to, key) ==
    BeginOnReservation(w, [kind |-> "move", r |-> r, from |-> from, to |-> to, key |-> key])

BeginSimple(w, r, kind) == BeginOnReservation(w, [kind |-> kind, r |-> r])
-----------------------------------------------------------------------------
(* Locks and the end of a transaction. *)

\* get_locked_reservation: the row lock, then get_doc as the first plain select.
\* What the handler knows of the reservation afterwards cannot change under it.
LockReservation(w) ==
    /\ pc[w] = "reservation"
    /\ resLock[req[w].r] = Nobody
    /\ resLock' = [resLock EXCEPT ![req[w].r] = w]
    /\ TakeSnapshot(w)
    /\ want' = [want EXCEPT ![w] = CASE req[w].kind = "check_in" -> res[req[w].r].rooms
                                     [] req[w].kind = "move" -> {req[w].to}
                                     [] OTHER -> {}]
    /\ pc' = [pc EXCEPT ![w] = IF want'[w] = {} THEN "check" ELSE "rooms"]
    /\ UNCHANGED <<today, db, req, roomLock, overtaken>>

\* mutant: a select without `for update`
MutLockRoomShared(w, m) ==
    /\ pc[w] \in {"rooms", "release"}
    /\ m \in want[w]
    /\ roomLock' = [roomLock EXCEPT ![m] = w]
    /\ want' = [want EXCEPT ![w] = @ \ {m}]
    /\ pc' = [pc EXCEPT ![w] = IF want[w] # {m} THEN @
                               ELSE IF @ = "rooms" THEN "check" ELSE "commit"]
    /\ UNCHANGED <<today, db, req, snap, resLock, overtaken>>

\* `order by name for update` before the check; the order of the rows in the
\* document, which may be any, in the set_room_status calls after it.
LockRoom(w, m) ==
    /\ pc[w] \in {"rooms", "release"}
    /\ m \in want[w]
    /\ pc[w] = "rooms" => \A other \in want[w] : m <= other
    /\ roomLock[m] \in {Nobody, w}
    /\ roomLock' = [roomLock EXCEPT ![m] = w]
    /\ want' = [want EXCEPT ![w] = @ \ {m}]
    /\ pc' = [pc EXCEPT ![w] = IF want[w] # {m} THEN @
                               ELSE IF @ = "rooms" THEN "check" ELSE "commit"]
    /\ UNCHANGED <<today, db, req, snap, resLock, overtaken>>

\* mutant: the transaction of a finished request stays open on its reservation
MutEndKeepsRowLock(w) ==
    /\ pc' = [pc EXCEPT ![w] = "idle"]
    /\ req' = [req EXCEPT ![w] = NoRequest]
    /\ want' = [want EXCEPT ![w] = {}]
    /\ snap' = [snap EXCEPT ![w] = NoView]
    /\ roomLock' = [m \in Rooms |-> IF roomLock[m] = w THEN Nobody ELSE roomLock[m]]
    /\ UNCHANGED resLock

\* Commit and rollback both end the transaction and let go of its locks.
End(w) ==
    /\ pc' = [pc EXCEPT ![w] = "idle"]
    /\ req' = [req EXCEPT ![w] = NoRequest]
    /\ want' = [want EXCEPT ![w] = {}]
    /\ snap' = [snap EXCEPT ![w] = NoView]
    /\ resLock' = [r \in Res |-> IF resLock[r] = w THEN Nobody ELSE resLock[r]]
    /\ roomLock' = [m \in Rooms |-> IF roomLock[m] = w THEN Nobody ELSE roomLock[m]]

Rollback(w) ==
    /\ pc[w] # "idle"
    /\ End(w)
    /\ overtaken' = overtaken \ {w}
    /\ UNCHANGED <<today, db>>
-----------------------------------------------------------------------------
(* Reading and deciding.  Each of the predicates is what one handler checks,  *)
(* on what its transaction sees, before its first write.                      *)

BookOk(v, q) ==
    /\ q.rooms \subseteq AvailableRooms(v, q.arr, q.dep, q.r)
    /\ RoomsAvailable(v, q.rooms, q.arr, q.dep, q.r)

\* mutant: the arrival of a guest who is in the house may be moved
MutAmendOkAnyArrival(v, q) ==
    LET doc == v.res[q.r] IN
    /\ Blocking(doc)
    /\ q.arr < q.dep
    /\ <<q.arr, q.dep>> # <<doc.arr, doc.dep>>
    /\ <<q.r, q.arr, q.dep>> \notin stayLog
    /\ doc.rooms \subseteq AvailableRooms(v, q.arr, q.dep, q.r)

\* amend_stay asks get_available_rooms for every room it keeps, and no more.
AmendOk(v, q) ==
    LET doc == v.res[q.r] IN
    /\ Blocking(doc)
    /\ q.arr < q.dep
    /\ doc.status = "Checked In" => q.arr = doc.arr
    /\ <<q.arr, q.dep>> # <<doc.arr, doc.dep>>
    /\ <<q.r, q.arr, q.dep>> \notin stayLog
    /\ doc.rooms \subseteq AvailableRooms(v, q.arr, q.dep, q.r)

\* mutant: a vacant and clean room is taken for a free one
MutMoveOkVacantRoom(v, q) ==
    LET doc == v.res[q.r] IN
    /\ doc.status = "Checked In"
    /\ <<q.r, q.key>> \notin moveLog
    /\ room[q.to].op = "Available"
    /\ room[q.to].ready
    /\ q.from \in doc.rooms
    /\ today < doc.dep

\* The target row was read by the locking select: its status is the current one.
MoveOk(v, q) ==
    LET doc == v.res[q.r] IN
    /\ doc.status = "Checked In"
    /\ <<q.r, q.key>> \notin moveLog
    /\ room[q.to].op = "Available"
    /\ room[q.to].ready
    /\ q.from \in doc.rooms
    /\ today < doc.dep
    /\ q.to \in AvailableRooms(v, today, doc.dep, q.r)

\* mutant: the housekeeping status alone decides
MutCheckInOkIgnoresOccupied(v, q) ==
    LET doc == v.res[q.r] IN
    /\ doc.status = "Confirmed"
    /\ doc.arr <= today /\ today < doc.dep
    /\ RoomsAvailable(v, doc.rooms, doc.arr, doc.dep, q.r)
    /\ \A m \in doc.rooms : v.room[m].ready

CheckInOk(v, q) ==
    LET doc == v.res[q.r] IN
    /\ doc.status = "Confirmed"
    /\ doc.arr <= today /\ today < doc.dep
    /\ RoomsAvailable(v, doc.rooms, doc.arr, doc.dep, q.r)
    /\ \A m \in doc.rooms : v.room[m].op = "Available" /\ v.room[m].ready

\* The balance and direct-bill conditions are the folio's: a refusal is a Rollback.
CheckOutOk(v, q) ==
    LET doc == v.res[q.r] IN doc.status = "Checked In" /\ today >= doc.dep

\* mutant: a stay that has begun can be cancelled
MutCancelOkCheckedIn(v, q) == v.res[q.r].status \in {"Confirmed", "Checked In"}

\* A manager may process a no-show before the cutoff.
CancelOk(v, q) == v.res[q.r].status = "Confirmed"

Ok(w) ==
    LET q == req[w] IN
    CASE q.kind = "book" -> BookOk(Seen(w), q)
      [] q.kind = "amend" -> AmendOk(Seen(w), q)
      [] q.kind = "move" -> MoveOk(Seen(w), q)
      [] q.kind = "check_in" -> CheckInOk(Seen(w), q)
      [] q.kind = "check_out" -> CheckOutOk(Seen(w), q)
      [] q.kind \in {"cancel", "no_show"} -> CancelOk(Seen(w), q)

\* The rooms whose status is written after the check by set_room_status, and are
\* not locked yet.  A cancellation reads every room first and leaves occupied ones.
StillToLock(w) ==
    LET q == req[w]
        doc == Seen(w).res[q.r]
    IN  CASE q.kind = "move" -> {q.from}
          [] q.kind = "check_out" -> doc.rooms
          [] q.kind \in {"cancel", "no_show"} ->
                {m \in doc.rooms : Seen(w).room[m].op # "Occupied"}
          [] OTHER -> {}

Check(w) ==
    /\ pc[w] = "check"
    /\ Ok(w)
    /\ want' = [want EXCEPT ![w] = StillToLock(w)]
    /\ pc' = [pc EXCEPT ![w] = IF want'[w] = {} THEN "commit" ELSE "release"]
    /\ UNCHANGED <<today, db, req, snap, resLock, roomLock, overtaken>>
-----------------------------------------------------------------------------
(* Commit: the writes of each handler become visible, its locks are released. *)

Update(rooms, new(_)) == [m \in Rooms |-> IF m \in rooms THEN new(room[m]) ELSE room[m]]

\* on DuplicateEntryError the request returns the reservation its key already made
CommitBook(w) ==
    /\ req[w].kind = "book"
    /\ res' = IF res[req[w].r].status # "None" THEN res
              ELSE [res EXCEPT ![req[w].r] =
                      [status |-> "Confirmed", rooms |-> req[w].rooms,
                       arr |-> req[w].arr, dep |-> req[w].dep]]
    /\ raced' = IF w \in overtaken /\ res[req[w].r].status = "None"
                THEN raced \cup {req[w].r} ELSE raced
    /\ UNCHANGED <<room, stayLog, moveLog>>

CommitAmend(w) ==
    /\ req[w].kind = "amend"
    /\ res' = [res EXCEPT ![req[w].r] = [@ EXCEPT !.arr = req[w].arr, !.dep = req[w].dep]]
    /\ stayLog' = stayLog \cup {<<req[w].r, req[w].arr, req[w].dep>>}
    /\ UNCHANGED <<room, moveLog, raced>>

\* mutant: the housekeeping status is written into the operational one
MutCommitMoveDirty(w) ==
    /\ req[w].kind = "move"
    /\ res' = [res EXCEPT ![req[w].r] =
                  [@ EXCEPT !.rooms = (res[req[w].r].rooms \ {req[w].from}) \cup {req[w].to}]]
    /\ room' = [room EXCEPT ![req[w].from] = [op |-> "Dirty", ready |-> FALSE],
                            ![req[w].to] = [op |-> "Occupied", ready |-> TRUE]]
    /\ moveLog' = moveLog \cup {<<req[w].r, req[w].key>>}
    /\ UNCHANGED <<stayLog, raced>>

CommitMove(w) ==
    /\ req[w].kind = "move"
    /\ res' = [res EXCEPT ![req[w].r] =
                  [@ EXCEPT !.rooms = (res[req[w].r].rooms \ {req[w].from}) \cup {req[w].to}]]
    /\ room' = [room EXCEPT ![req[w].from] = [op |-> "Available", ready |-> FALSE],
                            ![req[w].to] = [op |-> "Occupied", ready |-> TRUE]]
    /\ moveLog' = moveLog \cup {<<req[w].r, req[w].key>>}
    /\ UNCHANGED <<stayLog, raced>>

CommitCheckIn(w) ==
    /\ req[w].kind = "check_in"
    /\ res' = [res EXCEPT ![req[w].r].status = "Checked In"]
    /\ room' = Update(res[req[w].r].rooms, LAMBDA old : [old EXCEPT !.op = "Occupied"])
    /\ UNCHANGED <<stayLog, moveLog, raced>>

CommitCheckOut(w) ==
    /\ req[w].kind = "check_out"
    /\ res' = [res EXCEPT ![req[w].r].status = "Checked Out"]
    /\ room' = Update(res[req[w].r].rooms, LAMBDA old : [op |-> "Available", ready |-> FALSE])
    /\ UNCHANGED <<stayLog, moveLog, raced>>

\* the locked rooms are those that were not occupied when the handler looked
CommitCancel(w) ==
    /\ req[w].kind \in {"cancel", "no_show"}
    /\ res' = [res EXCEPT ![req[w].r].status =
                  IF req[w].kind = "no_show" THEN "No Show" ELSE "Cancelled"]
    /\ room' = Update({m \in Rooms : roomLock[m] = w},
                      LAMBDA old : [old EXCEPT !.op = "Available"])
    /\ UNCHANGED <<stayLog, moveLog, raced>>

\* the workers that have decided and not yet committed
PastCheck == {w \in Workers : pc[w] \in {"release", "commit"}}

Commit(w) ==
    /\ pc[w] = "commit"
    /\ \/ CommitBook(w)
       \/ CommitAmend(w)
       \/ CommitMove(w)
       \/ CommitCheckIn(w)
       \/ CommitCheckOut(w)
       \/ CommitCancel(w)
    /\ End(w)
    /\ overtaken' = (IF req[w].kind = "book" THEN PastCheck ELSE overtaken) \ {w}
    /\ UNCHANGED <<today, imported>>

\* a repeated or refused request: nothing is written
Refuse(w) ==
    /\ pc[w] = "check"
    /\ ~Ok(w)
    /\ Rollback(w)
-----------------------------------------------------------------------------
(* What the rest of the property does to a room: one set_room_status each.    *)

\* a passed inspection, or a completion that needs none
RoomMadeReady(m) ==
    /\ roomLock[m] = Nobody
    /\ ~room[m].ready
    /\ room' = [room EXCEPT ![m].ready = TRUE]
    /\ UNCHANGED <<today, res, stayLog, moveLog, imported, raced, txn, overtaken>>

\* a task assigned, started or paused in a room that was ready
RoomTakenForCleaning(m) ==
    /\ "housekeeping" \in Kinds
    /\ roomLock[m] = Nobody
    /\ room[m].ready
    /\ room' = [room EXCEPT ![m].ready = FALSE]
    /\ UNCHANGED <<today, res, stayLog, moveLog, imported, raced, txn, overtaken>>

\* report_maintenance_issue with affects_room_sale
RoomTakenOutOfService(m) ==
    /\ "maintenance" \in Kinds
    /\ roomLock[m] = Nobody
    /\ room' = [room EXCEPT ![m].op = "Out of Service"]
    /\ UNCHANGED <<today, res, stayLog, moveLog, imported, raced, txn, overtaken>>

\* mutant: a repaired room goes back on sale without looking who is in it
MutRoomReturnedVacant(m) ==
    /\ "maintenance" \in Kinds
    /\ roomLock[m] = Nobody
    /\ room[m].op = "Out of Service"
    /\ room' = [room EXCEPT ![m] = [op |-> "Available", ready |-> TRUE]]
    /\ UNCHANGED <<today, res, stayLog, moveLog, imported, raced, txn, overtaken>>

\* restore_room_after_engineering
RoomReturned(m) ==
    /\ "maintenance" \in Kinds
    /\ roomLock[m] = Nobody
    /\ room[m].op = "Out of Service"
    /\ room' = [room EXCEPT ![m] =
          [op |-> IF \E r \in Res : res[r].status = "Checked In" /\ m \in res[r].rooms
                  THEN "Occupied" ELSE "Available",
           ready |-> TRUE]]
    /\ UNCHANGED <<today, res, stayLog, moveLog, imported, raced, txn, overtaken>>

StaffWork(m) ==
    RoomMadeReady(m) \/ RoomTakenForCleaning(m) \/ RoomTakenOutOfService(m) \/ RoomReturned(m)

(* The feeds of other channels: module Distribution.  Neither of the two      *)
(* waits for a lock of this module, whatever the block lands on.              *)

BlockImported(b) ==
    /\ "import" \in Kinds
    /\ b \notin imported
    /\ imported' = imported \cup {b}
    /\ overtaken' = PastCheck
    /\ UNCHANGED <<today, res, room, stayLog, moveLog, raced, txn>>

BlockLifted(b) ==
    /\ b \in imported
    /\ imported' = imported \ {b}
    /\ UNCHANGED <<today, res, room, stayLog, moveLog, raced, txn, overtaken>>

NextDay ==
    /\ today < MaxDay
    /\ today' = today + 1
    /\ UNCHANGED <<db, txn, overtaken>>
-----------------------------------------------------------------------------
BeginSome(w) ==
    \/ \E r \in Res, rooms \in SUBSET Rooms, s \in StayDates :
          BeginBook(w, r, rooms, s[1], s[2])
    \/ \E r \in Res, s \in StayDates : BeginAmend(w, r, s[1], s[2])
    \/ \E r \in Res, from \in Rooms, to \in Rooms, key \in MoveKeys :
          BeginMove(w, r, from, to, key)
    \/ \E r \in Res, kind \in {"check_in", "check_out", "cancel", "no_show"} :
          BeginSimple(w, r, kind)

Proceed(w) ==
    \/ LockReservation(w)
    \/ \E m \in Rooms : LockRoom(w, m)
    \/ Check(w)
    \/ Refuse(w)
    \/ Commit(w)

Next ==
    \/ \E w \in Workers : BeginSome(w) \/ Proceed(w) \/ Rollback(w)
    \/ \E m \in Rooms : StaffWork(m)
    \/ \E b \in CalendarBlocks : BlockImported(b) \/ BlockLifted(b)
    \/ NextDay

Spec == Init /\ [][Next]_vars
-----------------------------------------------------------------------------
(* Fairness: a worker goes on with its handler; the queue of a row lock is    *)
(* served in order, so a lock that is free again and again is granted; and    *)
(* InnoDB rolls one transaction of every cycle of waiting ones back.          *)

WaitsFor(w) ==
    CASE pc[w] = "reservation" -> {resLock[req[w].r]} \ {Nobody}
      [] pc[w] \in {"rooms", "release"} ->
            {roomLock[m] : m \in want[w]} \ {Nobody, w}
      [] OTHER -> {}

Deadlocked(w) ==
    \E cycle \in SUBSET Workers :
        w \in cycle /\ \A v \in cycle : WaitsFor(v) \cap cycle # {}

DeadlockVictim(w) == Deadlocked(w) /\ Rollback(w)

FairSpec ==
    /\ Spec
    /\ \A w \in Workers : SF_vars(Proceed(w) \/ DeadlockVictim(w))
-----------------------------------------------------------------------------
(* Properties. *)

Covers(s, n) == s.arr <= n /\ n < s.dep

\* the reservations whose dates amend_stay has changed
Amended == {r \in Res : \E arr, dep \in Days : <<r, arr, dep>> \in stayLog}

\* Two different reservations hold room m for night n, from today on.
DoubleBooked(r, other, m, n) ==
    /\ r # other
    /\ n >= today
    /\ Blocking(res[r]) /\ Blocking(res[other])
    /\ m \in res[r].rooms \cap res[other].rooms
    /\ Covers(res[r], n) /\ Covers(res[other], n)

\* No room is sold twice for a coming night: _validate_room_availability and
\* get_available_rooms, across every interleaving of requests.
NoDoubleBooking ==
    \A r, other \in Res, m \in Rooms, n \in Days : ~DoubleBooked(r, other, m, n)

\* amend_stay is the only handler that reads availability without a lock on the
\* rooms: where a room is sold twice, one of the two stays has been amended.
OnlyAmendedStaysClash ==
    \A r, other \in Res, m \in Rooms, n \in Days :
        DoubleBooked(r, other, m, n) => r \in Amended \/ other \in Amended

\* The aggregate check of _validate_room_availability protects group blocks, though
\* bookings of different rooms share no lock: for every coming night, the rooms sold by
\* bookings that no other request overtook between their check and their commit, and not
\* amended since, fit into the house beside the rooms that group blocks still hold.  A
\* block is broken only by bookings that raced each other, or by an amendment.
HoldsKept ==
    \A n \in {d \in Days : d >= today} :
        LET sold == {p \in (Res \ (raced \cup Amended)) \X Rooms :
                        /\ Blocking(res[p[1]])
                        /\ p[2] \in res[p[1]].rooms
                        /\ Covers(res[p[1]], n)}
            held == Outstanding({h \in GroupHolds : Covers(h, n)})
        IN  Cardinality(sold) + held <= Cardinality(Rooms)

\* reservation r holds room m for night n
Holds(r, m, n) == Blocking(res[r]) /\ m \in res[r].rooms /\ Covers(res[r], n)

\* Blocks of other channels are imported at any moment, also onto nights that are sold.
\* But no handler gives a reservation a coming night that is blocked, unless the block
\* arrived between its decision and its commit (the price of importing without the room
\* lock): booking, amendment and room move all ask for calendar blocks.
CalendarBlocksRespected ==
    [][\A w \in Workers \ overtaken, r \in Res :
         Commit(w) /\ req[w].r = r =>
            \A b \in imported, n \in Days :
                /\ n >= today /\ Covers(b, n)
                /\ Holds(r, b.room, n)'
                => Holds(r, b.room, n)]_vars

\* A room has at most one checked-in reservation: check_in asks the room's status.
OneGuestPerRoom ==
    \A r, other \in Res :
        /\ r # other
        /\ res[r].status = "Checked In" /\ res[other].status = "Checked In"
        => res[r].rooms \cap res[other].rooms = {}

\* a guest is in room m
Occupied(m) == \E r \in Res : res[r].status = "Checked In" /\ m \in res[r].rooms

\* Every room has one guest at most, and the room of a guest does not show as free.
GuestsAndRoomsAgree ==
    OneGuestPerRoom /\ \A m \in Rooms : Occupied(m) => room[m].op # "Available"

\* a cancellation or no-show of another reservation that frees a room with a guest in it
FreesGuestRoom(w) ==
    /\ Commit(w)
    /\ req[w].kind \in {"cancel", "no_show"}
    /\ \E m \in Rooms : roomLock[m] = w /\ Occupied(m)

\* process_cancellation_internal looks for occupied rooms before it locks them, and takes
\* a room out of service for one without a guest.  It is the only handler that can make
\* guests and rooms disagree: whatever else waits for, locks and writes a room leaves
\* them in agreement.
OnlyCancellationsFreeGuestRooms ==
    [][GuestsAndRoomsAgree => GuestsAndRoomsAgree' \/ \E w \in Workers : FreesGuestRoom(w)]_vars

\* A reservation only goes forward: confirmed, checked in, checked out; or it is
\* cancelled or a no-show before check-in.  The row lock of get_locked_reservation
\* and the unique idempotency key are what keeps late requests from reviving one.
After(s) ==
    CASE s = "None" -> {"None", "Confirmed"}
      [] s = "Confirmed" -> {"Confirmed", "Checked In", "Cancelled", "No Show"}
      [] s = "Checked In" -> {"Checked In", "Checked Out"}
      [] OTHER -> {s}

LifecycleForward ==
    [][\A r \in Res : res'[r].status \in After(res[r].status)]_vars

\* Once a reservation is over its rooms and dates are history and do not change;
\* once the guest is in, the arrival date does not.
StayIsHistory ==
    [][\A r \in Res :
         /\ res[r].status \in {"Checked Out", "Cancelled", "No Show"} => res'[r] = res[r]
         /\ res[r].status = "Checked In" => res'[r].arr = res[r].arr]_vars

\* Every request comes to an end: no handler waits for a row lock for ever.
RequestsEnd == \A w \in Workers : pc[w] # "idle" ~> pc[w] = "idle"

\* The inventory implements the room calendar: every commit is one step of it.
Calendar == INSTANCE RoomCalendar WITH
    day <- today,
    nights <- [r \in Res |-> IF Blocking(res[r])
                             THEN res[r].rooms \X {n \in Days : Covers(res[r], n)} ELSE {}],
    phase <- [r \in Res |-> CASE res[r].status = "None" -> "new"
                              [] Blocking(res[r]) -> "held"
                              [] OTHER -> "over"]

ImplementsCalendar == Calendar!Spec
=============================================================================
