# Hotel PMS: TLA+ models, checks and proofs

The program is a hotel property management system written as a Frappe/ERPNext
app (`src/hotel_pms`).  All state is in MariaDB tables; a handler is a Python
function that runs in one web request or background job, and a request is one
database transaction: it commits when the handler returns and is rolled back
when it raises.  What makes the program hard to test is what happens *between*
requests: which rows are locked, what a plain `select` still sees, which writes
move the modification time that `doc.save()` compares, which keys are unique,
what a retry finds.  That is what is modelled here.

## 1. Inventory

| Component | Source | State | Operations | Hard behaviour | Modules |
|---|---|---|---|---|---|
| Reservations and inventory | `front_desk.py`, `hotel_reservation.py`, `room_status.py`, `api/__init__.py` | reservations with room rows, room status, change logs | book, amend, move, check in, check out, cancel, no-show | availability is read and written by concurrent requests; lock order; repeated keys | `RoomInventory`, `RoomCalendar` |
| Housekeeping and engineering | `operations.py`, `tasks.py`, `turnover.py` | tasks with checklists, inspections, tickets, room status | assign, start, pause, resume, complete, inspect, report, repair, close | one room is written by front desk, cleaners and engineers | `RoomOps` |
| Folio and ERPNext sync | `billing.py`, `sync.py`, `reconcile.py`, `integrations/*` | folio rows, transfers, invoices, sync log | post, transfer, reverse, invoice, submit/cancel hooks, reconcile | stale forms, writes that do not move the modification time, keys with revisions | `FolioBilling`, `FolioLedger` |
| Groups and events | `hotel_group_booking.py`, `group_booking.py`, `tasks.py` | room blocks, participants, halls, BEOs, package schedule, group folio | save, submit, cancel, expire, release, reserve, schedule, post, invoice | blocks are a count, not rooms; a schedule is made again while it is posted | `GroupEvents` |
| Cashier, payments, credit | `billing.py`, `front_desk.py`, `integrations/payment_entry.py`, `intelligence.py` | shifts, movements, payments, corrections, approvals | open, move, count, close, deposit, refund, correct, approve | totals are sums over what others commit; drafts do not count yet | `Counter` |
| Night audit | `api/__init__.py` | folio rows per night | run (and run again) | retry, room moves between two runs | `FolioBilling`, `GroupEvents` |
| Distribution | `distribution.py`, `channels/` | channel events, calendar blocks | webhook batches, confirmation, iCal import and feed | repeated, late and reordered messages; partners that echo | `Distribution` |
| Messages, webhooks, printing | `webhooks.py`, `communications.py`, `restaurant_printing.py` | deliveries, prints, messages with attempts | queue, send, retry, replay | lost workers between sending and committing, two runs on one queue | `Outbound` |
| Restaurant, kitchen, stock | `services.py`, `restaurant_controls.py`, `fnb_inventory.py` | orders, tables, tickets, splits, stock entries | order, merge, send, cook, recall, split, bill, complete, cancel | order, ticket, table, stock and bill each have a status | `Restaurant` |
| Guest portal and services | `guest_portal.py`, `prearrival.py`, `media.py`, `services.py` | links, forms, registrations, restrictions, requests, laundry, experiences | book, check in, submit, upload, pay, merge, anonymise, order | one-time links under concurrency; what a guest sends and staff edits | `GuestAccess` |
| Rates, vouchers, agents | `revenue.py`, `revenue_rules.py` | calendar, approvals, quotes, redemptions, settlements | quote, reserve, release, settle | every save quotes again from what the last one wrote; rounding | `Revenue` |
| Intelligence, platform, onboarding, migration, production gate | `intelligence.py`, `platform.py`, ... | reports, snapshots, runs | read-only or run by one administrator | none beyond ordinary testing | - |

How they interact: everything meets in four tables.  The *room* row is written
by front desk, housekeeping and engineering, always through
`set_room_status`, which locks it.  The *reservation* is written under
`get_locked_reservation`.  The *folio* is written by the night audit, the
front desk, the restaurant and billing with `doc.save()` (optimistic) and by
document hooks with `db.set_value` (not).  *ERPNext documents* are created
under unique sync keys.

Correctness, component by component: a room-night is sold once and held rooms
are not sold; a reservation only goes forward; a room shows the guest who is in
it; charges are conserved by transfers and invoiced at most once; a room taken
out for repair comes back after the repair and not before; an event, a message
or a payment has its effect exactly once.

## 2. Plan

| # | Module | About | State |
|---|---|---|---|
| 1 | `RoomCalendar`, `RoomInventory` | reservations, rooms, locks, snapshots | checked, proved |
| 2 | `FolioLedger`, `FolioBilling` | charges, transfers, invoices, hooks, reconciliation, stale saves | checked, proved |
| 3 | `RoomOps` | tasks, inspections, tickets and room status | checked, proved |
| 4 | `Distribution`, `Outbound` | channels and calendars; deliveries, prints, messages | checked, proved; liveness checked |
| 5 | `Restaurant` | orders, kitchen, tables, stock, bills | checked, proved |
| 6 | `GroupEvents` | blocks, halls, BEOs, the package schedule | checked, the schedule and the types proved |
| 7 | `Counter` | shifts, payments, corrections, credit | checked, the drawer and the types proved |
| 8 | `GuestAccess` | portal, forms, restrictions, guest services | checked, the forms and the types proved |
| 9 | `Revenue` | quotes, vouchers, agents | checked, the price and the types proved |

Abstract specifications: `RoomCalendar` for the inventory; `FolioLedger` for the
folios (charges are posted once, move, are billed and given back).

Every safety property of a passing run, invariant or action property, is a
theorem, with the assumptions its section names.  What stays with TLC are the
liveness properties `RequestsEnd`, `BlocksEnd` and `QueuesDrain`: they rest on
fairness and on when an action is enabled, which the provers do not handle.
Still worth proving: halls and blocks of `GroupEvents`, one portal link for one
guest, the settlements of `Revenue`, once a run states them.

What the proofs share is in `SumLemmas`: the laws of `SumFunctionOnSet` over
finite sets (the empty sum, one number more or less, one number changed, a set
in two parts, renaming) and its bound (a sum of n numbers is at most n times the
largest).  The library's induction rules take an operator as a
parameter, which the provers cannot instantiate, so the lemmas are proved from
a least counterexample: the sizes of the sets for which a law fails are a set of
natural numbers, and one that is not empty has a least element.

A module of a component that shares no state with another is checked in a run
with several of them: the MC modules `MCIntegrations`, `MCRestaurant` and
`MCCommerce` choose, in the initial state, the *traffic* of a behaviour, and
only the actions of that traffic happen in it.  The result is the same as that
of one run for each, since no property relates two of them.

## 3. RoomInventory

`RoomInventory` models the handlers that change reservations and rooms.
`RoomCalendar` says what they promise, without requests and locks: in one step
a reservation is made, rearranged or given up, and no coming room-night ever
has two holders.

| Model | Code |
|---|---|
| `res` | `tabHotel Reservation` and its room rows; named by the idempotency key; `Tentative` and `Confirmed` are one status, they block and act alike |
| `room` | operational and housekeeping status of `tabHotel Room`; `Clean` and `Inspected` are `ready`; `Out of Order` and `Out of Service` are one |
| `stayLog`, `moveLog` | `tabHotel Stay Change Log`, whose unique keys answer a repeated amendment or move |
| `resLock`, `roomLock` | `select ... for update` |
| `snap` | the InnoDB snapshot of the transaction, if the isolation level is repeatable read |
| `pc`, `req`, `want` | how far the handler is, its parameters, the room rows it has still to lock |
| `BeginBook` .. `BeginSimple` | entry of a handler up to its first lock |
| `LockReservation`, `LockRoom` | `get_locked_reservation`; the sorted `for update` of the availability check, and the row of `set_room_status` in document order |
| `Check`, `Refuse` | the conditions after the locks: go on, or answer or raise without a write |
| `Commit` with `CommitBook` .. `CommitCancel` | all writes of the handler, visible at once |
| `Rollback` | exception, lock timeout, lost worker |
| `RoomMadeReady`, `RoomTakenForCleaning`, `RoomTakenOutOfService`, `RoomReturned` | what housekeeping and engineering leave behind |
| `imported`, `BlockImported`, `BlockLifted` | the live calendar blocks of other channels, which come and go without a room lock |
| `overtaken`, `raced` | history: handlers since whose decision another booked or a block arrived, and the reservations such handlers booked |

Abstractions: one property and one room type; guests, prices and texts are left
out; group blocks are given constants; a cancellation reads the status of its
rooms together, where the code reads each just before it locks it.  The hotel's
setting `allow_overbooking` is off: `_validate_room_availability` returns at once
when it is on (`hotel_reservation.py:262`), before it locks or asks anything, and
then none of what follows is promised.

### Runs

| Run | Question | Bounds |
|---|---|---|
| `InventoryBookings` | Is a room-night sold once when bookings, moves and check-ins interleave, and is every commit a step of `RoomCalendar`?  Do sold and held rooms fit into the house, but for bookings that overtake each other? | 2 workers, 2 reservations, 2 rooms, days 0..2, every stay, a group hold, read committed |
| `InventoryStays` | Do reservations only go forward, is history left alone, is every clash the work of an amendment, and is a cancellation the only handler that shows the room of a guest as free? | 2 workers, 2 reservations, 1 room, days 0..2, 2 amendments, rooms taken out of service and back |
| `InventoryFrontDesk` | Is no blocked night given away while blocks come and go, and has a room one guest? | 1 worker (handlers one after the other, beside housekeeping and feeds), 2 rooms, a group hold and a calendar block |
| `InventoryWaiting` | Does every request end? | 2 workers, 2 rooms, one night, all lock orders |
| `SnapshotRace` (violated) | Is the check safe under the default isolation level? No. | 1 room |

Three properties name the races in which the code does lose, so that they also say
that there is no other way to lose:

- `HoldsKept`.  Two bookings of different rooms share no lock, so at the same time
  both can take the last room that a group block leaves
  (`hotel_reservation.py:313`).  Such a booking was overtaken between its check and
  its commit and is in `raced`; a stay that `amend_stay` changed, which asks for no
  capacity, is in `Amended`.  All others are counted.
- `CalendarBlocksRespected`.  A block is imported without a room lock, also onto
  nights that are sold, or between the check of a handler and its commit.  A
  handler that was not overtaken by one gives no blocked night away.
- `OnlyCancellationsFreeGuestRooms`.  A cancellation looks for occupied rooms before
  it locks them (`front_desk.py:666`), so a guest may check in to one in between, or
  be in one that is out of service.  It is the only step of any handler after which
  the rooms and their guests disagree.

Why these bounds are enough: a clash needs two reservations, one room and one
night; an early or late arrival that misses the other's period needs a second
night; a deadlock needs two workers and two rooms; a cutoff needs a day that
passes.  A third worker adds only more of the same waiting.  Reservations and
workers are interchangeable, so they are a symmetry set except in the run with
liveness.

The isolation level is a constant.  The passing runs, and the theorems that say so,
take `RepeatableRead = FALSE`; `SnapshotRace` shows that they need it.  A
deployment that leaves MariaDB at its default has the behaviour of
`SnapshotRace`.

Fairness (`InventoryWaiting` only): a worker that can go on eventually does,
also when the lock it waits for is taken again and again (strong fairness: the
lock queue of InnoDB is served in order), and of every cycle of waiting
transactions one is rolled back (InnoDB deadlock detection).  No request has to
be made, and no rollback other than that of a deadlock victim has to happen.

### Proofs

`RoomInventoryProofs` proves, for any number of rooms, reservations, days and
workers:

| Theorem | Statement | Assumes |
|---|---|---|
| `TypeCorrect` | `Spec => []TypeOK` | |
| `Lifecycle` | `Spec => LifecycleForward` | |
| `History` | `Spec => StayIsHistory` | |
| `OnlyAmendedStaysEverClash` | `Spec => []OnlyAmendedStaysClash` | read committed |
| `NoRoomSoldTwice` | `Spec => []NoDoubleBooking` | read committed, no amendments |
| `BlocksAreRespected` | `Spec => CalendarBlocksRespected` | read committed |
| `OneGuestAtATime` | `Spec => []OneGuestPerRoom` | read committed, `Careful` |
| `OnlyCancellationsDisagree` | `Spec => OnlyCancellationsFreeGuestRooms` | read committed |
| `InventoryImplementsCalendar` | `Spec => ImplementsCalendar` | read committed, no amendments |
| `HeldRoomsAreKept` | `Spec => []HoldsKept` | read committed, `HouseFits` |

The argument has four layers, each an inductive invariant that uses the one
before.  *Locks*: a worker that is past a lock step holds the rows it has asked
for, and nobody else does.  *Decided*: what a worker concluded from the
reservation row it holds is still true when it commits, because nobody writes a
reservation without its lock.  *Free*: a worker that has passed its
availability check and holds the rooms of the request knows that no other
reservation has them in that period; this survives the commits of others,
because each of them would need the same room lock, except those of
`amend_stay`, which takes none.  *OnlyAmendedStaysClash* follows, and without
amendments it is `NoDoubleBooking`.  The property alone is not inductive: it
says nothing of the requests that are about to commit.

While a handler is not overtaken no block arrives (`NotOvertaken`), so what it has
found unblocked stays so without a lock (`UnblockedOf`).  For the guests in the
rooms, `RoomsInv` says of every waiting handler what it will write and which of
these rooms it holds, and that a room it is about to fill is vacant: whatever it
commits then leaves guests and rooms in agreement, unless it is a cancellation that
frees a room it read before it locked it.  For `OneGuestPerRoom` to hold always,
`Careful` asks that cancellations and no-shows do not run, or that handlers run one
after the other and rooms are not taken out of service.  The refinement maps a
commit to one step of `RoomCalendar`, whose condition is `FreeOf` again.  For
`HoldsKept`, the capacity a booking asks for counts everything that touches the
stay, which is at least what any one night has (`CapacityOfANight`); until its
commit, and while it is not overtaken, the commits of others only take from what is
sold and counted (`SoldShrinks`: a move gives back as many rooms of a night as it
takes, an amended stay is no longer counted).  `HouseFits` says that the group
blocks alone fit into the house.

Only model-checked: `RequestsEnd` (liveness and fairness are beyond the
prover).

## 4. FolioBilling

`FolioBilling` models what the handlers and hooks do to folios and Sales
Invoices.  Frappe gives them optimistic locking: a handler loads a document,
changes it in memory and saves it; `save()` raises if the modification time has
moved since, and otherwise writes the document and *every* row of it back.  The
hooks write single fields with `db.set_value`, some of which move the time and
some of which do not.  So a handler is two steps, `Load` and a commit, with
whatever the others do in between.  `FolioLedger` says what this has to amount
to: a charge is posted once, money moves between folios, a bill takes all that
is open on a folio, a cancellation gives it back.  Where the code loses money
the ledger says so, in steps of its own: reversing the reversal of a split
forgets the remainder (`Forget`), reversing that recalls it (`Recall`).

| Model | Code |
|---|---|
| `rows` | the charge rows of guest, group and city ledger folios: amount, void mark, invoice, invoiced mark; a row is named by its idempotency key, or by the transfer that made it |
| `billed` | the status of a folio, `Invoiced` or `Open` |
| `transfers` | `tabHotel Folio Transfer` with its one line |
| `drafts`, `submitted`, `cancelled` | Sales Invoices, named by the sync key: the rows they were made of and the revision |
| `req`, `loaded`, `form` | the request of a worker, the folios it holds in memory, and their rows and status as loaded |
| `Load`, `Outdated`, `Touch`, `Saved`, `Rollback` | `get_doc` and `reload`; `check_if_latest`; a write that moves the time, which ends the outdated handlers; what `save()` writes back; an exception |
| `LoadPost`, `CommitPost` | night audit, laundry, experiences, cancellation fees, package schedule, mirrored POS lines |
| `LoadTransfer`, `CommitTransfer`, `LoadReverse`, `CommitReverse` | `transfer_folio_charges`, `reverse_folio_transfer` |
| `LoadInvoice`, `Targets`, `CommitInvoice` | `create_sales_invoice`, `create_group_sales_invoices`, `create_city_ledger_sales_invoice` over `create_document_once` |
| `Submit`, `Cancel` | the hooks of Sales Invoice |
| `PosCancel` | `pos_invoice.on_cancel`, which moves no time |
| `LoadReconcile`, `CommitReconcile` | `reconcile_erpnext_links`, one folio at a time |

Abstractions: a transfer has one line, a folio one customer and one tax
profile, so one invoice takes everything that is open.  A charge is posted with
the amount `qty * rate`.  The link of a folio to its last invoice is left out;
what reconciliation makes of it is a free choice.  A handler whose folio has
been changed can only raise, and is ended at once.  Draft invoices are not
deleted, because Frappe refuses it while the sync log names them.
`PricedFolios` are the folios whose rows carry an amount: only
`HotelGroupFolio.validate` computes it for its rows, the `validate` of a child
row is not called when its parent is saved.  Transfers out of a guest or city
ledger folio therefore always raise, and the model keeps that.

### Runs

| Run | Question | Bounds |
|---|---|---|
| `FolioForms` | With stale forms all around, is money kept, billed once, not billed when void, and do links and status agree? Is every commit a step of `FolioLedger`? | 2 workers, a group and a guest folio, a charge worth 2 that can be split, 3 transfers or reversals, 2 revisions of a key |
| `FolioReconciled` | Does reconciliation at repeatable read leave links alone while rows are invoiced, released and invoiced again? | 2 workers, 2 folios, 2 charges and a POS line |

Why these bounds are enough: a stale save needs one handler that loads before
another commits; links can be mixed up by two invoices of one folio, which two
charges or the two parts of a split make; a chain of two transfers reaches a
split of a moved part and a reversal of it after the row was moved on, invoiced
or voided; the third reverses the reversal of a split, after which the remainder
is void (section 9) and `AmountsConserved` counts it among `LostRows`: without
that term the run fails.  Recalling it takes a fourth, which only the proof
covers.  The second revision of a key is the first that meets a cancelled
invoice.  The POS line, which no transfer takes, is in `FolioReconciled`.  With
`RepeatableRead = FALSE` `FolioReconciled` fails: reconciliation reads rows and
invoices at different times.  `SnapshotRace` needs read committed to go away, so
no isolation level of the database is right for both.

### Proofs

`FolioBillingProofs` proves, for any folios, charges, transfers, workers,
revisions and any mix of handlers:

| Theorem | Statement | Assumes |
|---|---|---|
| `FolioTyped` | `Spec => []TypeOK` | reconciliation, if it runs, at repeatable read |
| `ChargesBilledOnce` | `Spec => []BilledOnce` | the same |
| `VoidRowsNotBilled` | `Spec => []VoidIsNotBilled` | the same |
| `RowLinksAgree` | `Spec => []LinksAgree` | the same |
| `FolioStatusAgrees` | `Spec => []StatusAgrees` | no reconciliation |

None of the properties is inductive: they say nothing of the forms that are
about to be saved.  The invariant `IInv` adds them.  `Current`: the form of a
handler that compares times is as its folios are, because whoever changes a
folio ends the handlers that hold it (`OthersStay`); only the void mark of a
POS line may differ.  Then a save writes back what is there plus the change of
the handler (`SavedAgrees`), and every commit keeps `Links`, a one-to-one
relation of rows and active invoices.  `Snapshot`: the rows and invoices that a
reconciliation has read agree, so it finds nothing to repair in a row.  `Lines`
says that a transfer key that is free has no rows, so a transfer overwrites
none.  Reconciliation may still write a status it read long before, which is
why the last theorem excludes it.

`LedgerProofs` goes on to the money, with any number of transfers, reversals and
reversals of reversals:

| Theorem | Statement | Assumes |
|---|---|---|
| `AmountsAreConserved` | `Spec => []AmountsConserved` | reconciliation, if it runs, at repeatable read |
| `FoliosImplementLedger` | `Spec => ImplementsLedger` | the same |

A commit does one of five things to the rows (`Posting`, `Moving`, `Returning`,
`Billing`, `Releasing`) or nothing that counts (`Quiet`).  What a reversal takes
and gives is settled by four facts about lines.  `Splits`: the source of an
original line is worth as much as the parts it made.  `Reversals`: the line of a
reversal has the two rows of an original one, swapped, or as they were if it
reverses a reversal, and no remainder.  `Crossings`: the source of a line that
stands is void.  `SourceOnce`: no other standing line has it as its source.  So
a reversal gives back what it takes, or they differ by the remainder of the
original, exactly when that becomes one of `LostRows` or stops being one
(`LostChanges`).  Each of the five is then one step of `FolioLedger`, and the
sums follow from `SumLemmas`.

## 5. RoomOps

`RoomOps` models how a room gets clean and repaired: housekeeping tasks with
their checklists, inspections, maintenance tickets, and the room status that
all of them write together with the front desk.  Every handler locks the row of
its task or ticket first, so a handler is one step.  Those that may give a room
back are two, `Begin...` and `Finish`: between them the handler has read its
task and waits for the row of the room, while others write rooms and guests.

| Model | Code |
|---|---|
| `task` | `tabHotel Housekeeping Task`: status, the result of each checklist row, the linked ticket; named by the idempotency key |
| `ticket` | `tabHotel Maintenance Ticket`: status, `affects_room_sale`, whether it was acknowledged; a ticket of a checklist row is named `<<task, row>>`, as its key is |
| `room` | operational and housekeeping status of `tabHotel Room` |
| `guests` | how many reservations with status `Checked In` have the room |
| `finishing`, `seen` | tasks whose handler waits for the room, and the occupied rooms in its snapshot |
| `SetRoom`, `Ensured`, `Expected` | `set_room_status`, `ensure_housekeeping_task`, `expected_operational_status` |
| `TurnoverTask`, `DailyTask` | `create_turnover_tasks`, `create_housekeeping_tasks` |
| `Assign`, `Start`, `Pause`, `Resume`, `UpdateChecklist`, `ReportRow`, `Report` | the functions of the same names in `operations.py` |
| `Complete`, `BeginComplete`, `BeginInspection`, `FailInspection`, `Finish`, `Rollback` | `complete_housekeeping_task`, `inspect_housekeeping_task`, `_finish_post_maintenance_if_applicable` |
| `Acknowledge`, `AssignTicket`, `StartTicket`, `PauseTicket`, `CloseTicket` | the handlers of a ticket |
| `CompleteMaintenance` | `complete_maintenance`, which always raises (section 9) and so changes nothing |
| `CheckIn`, `CheckOut`, `MoveGuest`, `Release` | what the front desk does to a room and its guests; `RoomInventory` has it in full |

Abstractions: `OK` stands for Not Applicable as well, both let a cleaning end.
A task without a checklist is one whose rows are all `OK`.  The score of an
inspection is left out, since rows that are all `OK` have the full one.
Paused, Waiting Vendor and Waiting Parts are one status.  Who is assigned and
who may act is left out; so are tasks and tickets cancelled, and rooms edited,
in their forms.  The dialogs that report an issue for a task send no checklist
row, so they link nothing.  With repeatable read, a ticket that another
transaction has changed makes `Finish` raise; the model lets it go on, which
only adds behaviour.

### Runs

| Run | Question | Bounds |
|---|---|---|
| `RoomsAndRepairs` | Is what is finished checked, does a room in cleaning show as ready only when another task of it was finished, does the end of a cleaning leave the tickets of other cleanings alone, does the room given back agree with its guests, and does what is over stay over? | 2 rooms, 2 tasks of one room, 1 critical row, 1 desk ticket, 1 guest to a room, read committed |

Why these bounds are enough: rooms disagree when two tasks, or a task and the
front desk, write one room; the second room is where a guest moves to while a
repair ends in the first; a second guest would need the first room to be
`Available` while occupied.  `Worked` bounds the tickets that engineers work
on to one: tickets do not meet except through tasks.  A second row of one
checklist, whose ticket takes the link of the task over, is left to the proof.
The constant `RepeatableRead` is `FALSE` for the same reason as in
`RoomInventory`; the mutant of `NoPhantomGuest`, which reads the old snapshot,
shows that the property needs it.

### Proofs

`RoomOpsProofs` proves, for any rooms, tasks, checklists and tickets:

| Theorem | Statement | Assumes |
|---|---|---|
| `OpsTyped` | `Spec => []TypeOK` | |
| `FinishedRoomsChecked` | `Spec => []FinishedIsChecked` | |
| `TicketsResolvedByTask` | `Spec => ResolvedByItsTask` | |
| `ReadyRoomsWereFinished` | `Spec => []ReadyRoomsFinished` | |
| `OverStaysOver` | `Spec => OverIsOver` | |
| `NoRoomOccupiedByNobody` | `Spec => []NoPhantomGuest` | read committed |

The inductive invariant `Core` needs two facts that the properties do not state.
`FinishingChecked`: the task of a handler that waits for its room is still as
the handler found it, because everybody else needs its lock.  `LinksOwn`: the
ticket a task points to, also after it was overwritten, is one of its own
checklist.  Without the first, a row could be reported between the check and
the end of the cleaning; without the second, a cleaning could resolve the
ticket of another.  `ResolvedByItsTask` speaks of the tickets of checklists only:
what the documentation promises for the others the code does not do (section 9).
`ReadyRoomsFinished` does not say that the last writer of a room is right: a room
that is still cleaned under one task shows as ready once another is finished.  It is then inductive by itself, since
whoever takes up a task writes a status that is not ready in the same
transaction, and `NoPhantomGuest` because `Expected` is read under the lock of
the room.

All properties of `RoomsAndRepairs` are proved; the run shows that the states
they speak of are reached.

## 6. Distribution and Outbound

`Distribution` models what the sales channels and the hotel tell each other.  A
webhook partner repeats a message until it is answered, sends messages in any
order and several at once, and may not get the answer although the hotel has
committed.  A connection that is switched off answers with a success that says
no.  Calendar partners publish and read iCal feeds; some publish again what they
have read.

| Model | Code |
|---|---|
| `partner`, `order`, `mail` | external: what the partner has sold, and which of its messages wait, have got an ok, or are taken as delivered after the answer of a connection that is off |
| `event`, `resv` | `tabHotel Distribution Event` by reference and type, which is its key, and the reservation of a reference |
| `tx` | a webhook request: the batch, what is left of it, what it has written so far |
| `Receive`, `Apply`, `Commit`, `Rollback` | `distribution_webhook` over `_record_event` and `_apply_booking_event`; one bad message takes the whole batch back |
| `webhook`, `SwitchConnection`, `AnswerInactive` | `enabled` and `inbound_enabled` of the connection, edited in its form; the answer `connection_inactive` |
| `ConfirmCheckIn`, `DeskCancels`, `DeskSells` | the front desk beside it |
| `SyncIcal`, `PartnerReadsFeed` | `_sync_ical_connection`, `_feed_events` with its buffers |
| `sold`, `seen`, `imported` | stays a calendar partner sold, what it last read, the active blocks made of its feed |
| `echoing` | external: the calendar partners that publish what they read |

`Outbound` models what leaves through a queue.  A job is one transaction, and
what it has sent cannot be taken back with it.

| Model | Code |
|---|---|
| `hook`, `run` | `tabHotel Webhook Delivery`; a run of `process_webhook_queue` with the rows it selected, holds and has written |
| `StartRun`, `SkipRow`, `SendOk`, `SendFails`, `SendRaises`, `WaitFails`, `EndRun`, `CrashRun` | the select, the lock and the second look at the status, the outcomes of `_send`, a deadlock or lock timeout, the commit, a lost worker |
| `Replay`, `BackoffEnds` | `replay_delivery`; time |
| `print`, `printing`, `printJobs` | `tabHotel Restaurant Print Job`, the row lock, the background jobs that wait for it |
| `msg`, `msgJobs`, `inbox`, `ticket` | guest messages; incoming messages under their unique id and the maintenance tickets made of them |
| `received`, `sheets` | external: what the receiver and the printer have got |

| Run | Question | Bounds |
|---|---|---|
| `Integrations` | Does what partner and hotel say agree once everything is answered with an ok, or is it on the review list (`NothingIsLost`)?  Do blocks of cancelled stays leave the calendars, if at most one partner goes on publishing the night (`BlocksEnd`)?  Is what is recorded as sent sent once (`SentOnce`), and is what can be sent or printed sent, printed or given up (`QueuesDrain`)? | 2 references, 1 room, 2 requests, batches of 2; 2 calendars of which one or both echo, 4 days, a buffer of 1; 2 deliveries, 2 runs, 1 print, 2 workers, a lost worker or a replay |

Why these bounds are enough: a message can be late with respect to two others
of its own reference, and to one booking of another guest for the same room; a
second request is the first repetition; an echo needs one partner that echoes
and one that does not, or two that echo each other; a buffer that grows would
show on the fourth day; two runs that select the same row need one row, and a second row to be locked
meanwhile.

Fairness: `sync_all_ical_connections` is run by the scheduler every quarter of
an hour and a partner keeps reading the feed it subscribed to; the queues are
run every five minutes, a run goes on until it ends, and a queued print is taken
by some worker even if workers are lost again and again (strong fairness).
Nothing else has to happen: no partner has to book, no send has to succeed.
`BlocksEnd` asks only about nights that nobody near them sells any more, and
which all partners but one have stopped to publish.  It needs the second
condition: `_feed_events` leaves out the blocks of the reader alone, so two
partners that both echo keep each other's blocks alive, and the buffers make
them grow.  What it says is that each block goes with its sources: a partner that
echoes does not feed on itself.

`QueuesDrain` asks only about deliveries that are never left at Processing.
`_send` raises before its `try` if the subscription is gone, has no secret, or
its host cannot be resolved; the row is then committed as Processing, which no
run selects, and only a replay by hand takes it up again.

`SentOnce` says nothing of a delivery that a worker sent before it was lost: the
receiver gets that one twice, which is why it has an idempotency header.  And it
holds at read committed only: at repeatable read, the plain `get_doc` under the
lock (`webhooks.py:49`) has the snapshot of the select of `webhooks.py:46`, so a
run sends what another one sent since.  The model reads the latest commit.

### Proofs

`IntegrationsProofs` proves, for any references, batches, requests, deliveries,
runs and prints (and like the run at read committed):

| Theorem | Statement |
|---|---|
| `NothingGetsLost` | `ChannelSpec => []NothingIsLost` |
| `NothingIsSentTwice` | `QueueSpec => SentOnce` |
| `IntegrationsTyped` | `ChannelSpec /\ QueueSpec => []TypeOK` |
| `PartsAreBehaviours` | `MCSpec` => the initial states and steps of both modules |
| `CompositionSafe` | `MCSpec => [](TypeOK /\ NothingIsLost) /\ SentOnce` |

`NothingIsLost` speaks of the moment when everything is answered with an ok, so its
invariant `ChannelInv` has to say what holds before.  An event that is recorded
has a status that fits what the booking came to (`Good`) or what came later
(`Later`); a message that is not on its way any more has been reported
(`Reported`); what a request in progress has written is right for the rows it
has seen (`TxGood`), and two requests in progress never write one event or one
booking, because the key of the event is unique (`Apart`).  The front desk only
moves a booking on.  `SentOnce` is kept because a worker holds its job from
before it asks for the status of the print until it has recorded it
(`PrintOpen`), so that nobody else records it meanwhile (`PrintAlone`); a run of
the queue has its rows locked.

`TypeOK` bounds the attempts of deliveries and prints, and that is not inductive.
A replay puts a dead delivery back to Retry and keeps its attempts, so the limit
is `max_attempts` and one for each replay, and a delivery that waits has to be
strictly below it (`Counted`).  A run writes rows that nobody else sees until it
ends, while replays go on; these obey the limit too (`RunCounted`), because a
replay waits for their locks and the limit only grows.  A print that may still
be printed is below its limit (`PrintsCounted`); that a worker holds only such
prints is `PrintOpen` again.
For the channels, what a request writes are events of its own batch (`Batched`),
and what calendars hold are stays within the horizon, also when the buffers
before and after a stay widen it (`BufferedStay`).

Only model-checked: the two liveness properties `BlocksEnd` and `QueuesDrain`.

## 7. Restaurant

| Model | Code |
|---|---|
| `session` | the cashier shift of an outlet and its POS Opening Entry |
| `order`, `item` | `tabHotel Restaurant Order` with `kitchen_snapshot_json` and revision, its item rows |
| `ticket` | kitchen tickets of a revision: action, quantities, item states, stock status and Stock Entry |
| `table`, `cluster`, `booking` | restaurant tables, the active cluster of an order, table reservations |
| `split` | bill splits with their invoice and the row mirrored into the folio of a room |
| `copy` | status and stock of an order as a form or `update_kitchen_item` loaded it, while it can still be saved |
| `voiding` | the status of the order as the cancellation of an invoice read it |
| `CreateOrder` .. `CancelOrder`, `LoadOrder`, `EditItem` | the order handlers of `services.py` and its form |
| `SyncKitchen`, `SyncSilent`, `AcceptTicket`, `StartTicket`, `UpdateItem`, `RecallTicket` | `sync_order_to_kitchen` (and the change it makes no ticket for), the kitchen display |
| `PostRecipe` .. `EntryCancelled` | `post_ticket_recipe_consumption`, its job, and the Stock Entry hooks |
| `CreateSplits`, `CreateInvoice`, `SettleComplimentary`, `SubmitInvoice`, `EditSplit`, `AskForCancel`, `CancelInvoice`, `FolioBillsRow`, `CompleteOrder` | the bill: `create_bill_splits`, `create_split_invoice`, the form of a split, the hooks, `complete_restaurant_order` |
| `Monitor` | `monitor_restaurant_operations`, the sync alert |

An operation that locks its order, ticket or table first is one step; forms,
ERPNext documents and lost jobs come in between.  Two places read the order
without a lock.  A form and `update_kitchen_item` (`services.py:160-166`) load
it (`LoadOrder`) and save it later: the save passes as long as no other save has
moved the modified time (`Saved`), and the hooks do not move it
(`update_modified=False`), so a copy of a billed order is saved over one that
was opened again.  And `sync_restaurant_billing_document` reads the status of
the order (`AskForCancel`) before the cancellation it belongs to commits
(`CancelInvoice`), with the completion of the order possible in between.  The
form of an order has no condition on its status, nor the form of a split on its
kind of settlement (`EditSplit`).

Prices, discounts and taxes are left out, so a bill is paid or not.  Left out
as well are the other fields that can be edited in the forms of an order (table,
complimentary, cluster), the lines and the state in the form of a split, and old
copies of splits and tickets: a form of a ticket loaded before
`fnb_inventory.py:247` and saved after it writes Submitted back over Cancelled.
A submission of a Stock Entry that fails after the entry was written leaves the
entry submitted without its ledger entries (`SubmitRecipeFails`), and the next
posting takes it as submitted: whether stock moved in the ledger of ERPNext is
not in the model, only the status of the entry.

| Run | Question | Bounds |
|---|---|---|
| `Restaurant` | Do the tickets add up to what the kitchen was told (`KitchenKnowsTheOrder`), is an order completed when it is paid, and left unpaid later only in the three ways named (`BillsStayPaid`), has its food left the stock (`BilledFoodIsIssued`)? | 5 kinds of evening; 2 orders, 2 tables, 2 rows, 2 units, quantities to 2, 2 revisions; 2 splits of 3 kinds; at the till one copy of an order and one cancellation under way |
| `RoomPostedTwice` (violated) | Is a room posting charged once after its invoice was cancelled and made again? No. | the same |

Why these bounds are enough: a revision that sends a quantity twice needs a
first and a second change of one row; a table is contested by two orders; two
splits let one be paid and the other not; one copy and one cancellation, kept
over any number of steps, are what each of the three ways needs; each status of a Stock Entry is
reached with one ticket.  No fairness is assumed: nothing here has to happen.

### Proofs

`RestaurantProofs` proves, for any orders, tables, rows, kitchen units, splits
and revisions:

| Theorem | Statement |
|---|---|
| `RestaurantTyped` | `RestaurantSpec => []RestaurantTypeOK` |
| `BillsArePaid` | `RestaurantSpec => BillsStayPaid` |
| `KitchenIsTold` | `RestaurantSpec => []KitchenKnowsTheOrder` |
| `FoodIsIssued` | `RestaurantSpec => BilledFoodIsIssued` |

`BillsStayPaid` follows from the types: only `CompleteOrder` and an old copy make
an order billed (`HowToBill`), and while it is billed only a cancellation that
did not find it so and another kind of settlement leave a split unpaid
(`PaidKept`).  TLC violates the property without any one of the three.
`KitchenKnowsTheOrder` is a sum over all tickets of an order.  Its invariant
`KitchenInv` adds that tickets are named by revision, unit and action, none
beyond the revision of the order (`TicketBook`), so that a synchronization adds
tickets and replaces none.  What they add up to changes by exactly the
differences between the last snapshot and the order (`RowDeltasAre`,
`NewTold`), and a later step on a ticket restates its quantities (`Restates`).

## 8. GroupEvents, Counter, GuestAccess and Revenue

These four are checked by the run `Commerce`, each with its own traffic.

| Module | Model | Code |
|---|---|---|
| `GroupEvents` | `group`, `stay` | a group booking with block, participants, function and routes; the reservations of it and of others |
| | `paper`, `beo` | quotation and order; revisions of the BEO |
| | `posting`, `gfolio` | `tabHotel Package Posting` with the name of its row; the group folio: percent charged, per service and route |
| | `poster`, `regen` | a posting run and a regeneration between what they read and what they commit |
| `Counter` | `entry`, `hook` | payments, sales and movements; a submit or cancel between the sums it makes and its commit |
| | `shift`, `closer` | `tabHotel Cashier Shift`, every write of its row counted; a close between counting and commit |
| | `resv`, `correction`, `approval`, `ledger` | deposit fields of a reservation, payment corrections, direct bill approvals, the city ledger account |
| `GuestAccess` | `person`, `profile`, `ban`, `privacy` | customers and profiles by contact, restrictions, privacy requests |
| | `booking`, `link`, `registration`, `deposit` | reservations as the portal sees them, access tokens, registrations with documents, deposit order and requests |
| | `form`, `writer` | pre-arrival forms; a submission or revocation between its reads and its commit |
| | `laundry`, `outing` | laundry orders, bookings of an experience |
| `Revenue` | `sale` | price, contract, voucher, redemption and commission of a reservation |
| | `calendar`, `voucherOn`, `rateApproval`, `settlement` | what a night costs, the voucher, approvals below the floor, agents' settlements |

In `Revenue` a quote is `Quoted`: the nightly rate of the form is taken as the
requested rate, and what it comes to, divided by the nights, is written back.
Each save does this, so an insert with a submit does it twice and a quick
booking three times.  `sum` and `over` keep the quotient as it is; `Money` is
the rounding to cents.

| Property | What it says |
|---|---|
| `NothingUnbilled` | a service marked Posted is on the folio with all its parts, although schedules are made again, runs meet and instructions change |
| `ClosedOnAllPayments` | `close_cashier_shift` closes a shift on what the payments and movements committed by then amount to; only a movement entered or cancelled in its form after the sum was made is missed, and only the form of the shift closes it without a sum |
| `AnswersStand` | what a guest submitted is not overwritten |
| `PriceSettles` | after a second quote the price stands and does not come to nothing until a person writes the form, whatever rates, dates and vouchers do; net contracts excepted |

Movements and shifts have desk forms that no hook watches, and both are in
`Counter`: `EnterMovement` and `CancelMovement` submit and cancel a movement
and leave the totals of its shift as they are, `SaveShiftForm` sets any status,
Closed and Open again included, with any count on the totals that are stored.
So `ClosedOnAllPayments` names these two exceptions (`Misled` with
`MovedInForm`, and `ClosedInForm`) and says that there is no third: no hook of a
payment, no summary shown, no link of a POS closing and no other close misleads
a close.

Left out of these forms: a change of the opening float, the mode of payment or
the cash account of an open shift, which changes what the sum is of; and in the
form of an access token the number of uses it is good for (`max_uses`), which
`EditLink` keeps: raised, a spent link of a pre-arrival form would open again,
and `AnswersStand` holds while it is not.

Bounds: 2 groups, 2 rooms, 2 participants, 1 hall of 3 hours, a package of one
service on two dates, 2 posting runs and 1 regeneration; 3 payments of at most
2, 1 shift, 2 corrections, 2 approvals; 2 people, 2 bookings, 2 links, 2 forms
with 2 concurrent requests, 2 restrictions, 1 privacy request, 1 laundry order,
2 experience bookings; 1 stay of up to 2 nights or 2 stays of agents, 2 rates,
floors, a voucher with a limit of 1, a net contract of 90 percent (two nights may come
to one cent, one night to nothing), 2 settlements.  They are enough because a
stale commit needs two requests on one document, a merge two people, a capacity
two who want it, a rounding two nights that do not share a cent.  `MCCommerce`
names the remaining bounds of each traffic (`FewRooms`, `FewHalls`, ...).  Only
safety is claimed here and no fairness assumed.

### Proofs

`CommerceProofs` proves, for any payments, shifts and corrections; groups,
services and posting runs; guests, bookings, links, forms and requests; rates,
nights, vouchers and agents:

| Theorem | Statement |
|---|---|
| `CloseIsComplete` | `CounterSpec => ClosedOnAllPayments` |
| `PostedInFull` | `GroupSpec => []NothingUnbilled` |
| `FormsConsistent` | `GuestSpec => []FormInv` |
| `SubmittedAnswersStand` | `GuestSpec => AnswersStand` |
| `RevenueTyped` | `RevenueSpec => []RevenueTypeOK` |
| `PriceStands` | `RevenueSpec => PriceSettles` |
| `CommerceTyped` | `GroupSpec /\ CounterSpec /\ GuestSpec /\ RevenueSpec => []CommerceTypeOK` |
| `InstancesAreBehaviours` | `MCSpec => GroupSpec /\ CounterSpec /\ GuestSpec /\ RevenueSpec` |

*The drawer.*  A close sums up the payments before it saves the shift.  Each
action is shown to leave a close whose shift was not written since with the sum
of the payments there are, if it had it before (`Informed`): a payment enters or
leaves a sum only in a commit that writes its shift, a hook that is waiting
keeps the shift of its entry (`HooksKnow`), and a close has the stamp of a write
that was made (`ClosersCount`).  The form of a movement is the one action that
does not write the shift (`MovementKeeps`); that of the shift writes it and so
makes a close outdated (`SaveShiftFormKeeps`).

*The schedule.*  The routes of a group that was saved share out the whole price
(`Fitting`), and what is charged of a service is nothing or the whole (`Whole`).
A posting run that is current has the charges of the folio, and one that is not
has only charges that are still there (`Reads`), since nothing takes a charge
off a group folio (`Follows`).  So what a run marks Posted is on the folio,
whichever of the two saves came first.

*The form.*  That a form is `Submitted` does not protect its answer: staff may set the status
back in the form.  What does is the link.  `FormInv` says so: `FormsTyped` (the
types of forms, links and requests), `Spent` (a form with an answer has a link
that was used), `Unissued` (a form that does not exist has no answer), `Pending`
(a request that is about to commit on the form as it stands has found its link
unused).  With `Spent`, a request that found the link unused found no answer;
with `Pending`, that is still so when it commits, since every save moves the
modified time that the commit compares.  The assumption is that portal links and
the links of forms are different records and that there is a booking.

*The price.*  The first quote of a form rounds its total to cents and divides it
by the nights; the second starts from that quotient.  The invariant `PriceInv`
says of a sale without net contract that was quoted twice that its price is a
whole number of cents in all its nights (`Exact`), and quoting such a price
again gives the same.  But
a nightly rate of 0 means that none is asked for, and a rate of less than half a
cent rounds to it: the next quote would take the calendar instead.  Of what
enters the nightly rate only the discount of a net contract can bring it there,
and the rate stays when the contract is taken off the form.  The first quote
after that comes to nothing and the second takes the calendar, so that the count
of quotes starts again with it.  From then on a sale without net contract is at
half a cent a night or more (`Fair`), and the theorem needs no bound on the
discount, of which the code has none.

*The types.*  The numbers of `Counter` are bounded because a deposit is a sum of
payments: there are as many terms as entries and none is more than `MaxAmount`
(`SumWithin`).  What hooks, closes, posting runs, regenerations and form requests
have read and not used yet is typed with the tables it was read from, since the
step that commits it writes it back.  `InstancesAreBehaviours` connects the
theorems with the run: the traffic of `MCCommerce` only takes steps of the four
specifications, so that nothing is checked there of which the theorems do not
speak.

The proofs ask of the constants: rates and floors are finite sets that are not
empty (`Revenue`), rooms are finitely many (`GroupEvents`), the bounds are
natural numbers, and the bookings and sales that `MCCommerce` names exist.

## 9. Findings and hazards

`PROJECT.json` lists what the runs show to differ from the documentation
(`SnapshotRace`, `RoomPostedTwice`), and the places where an order of events, a
stale read, a retry or a partial failure could go wrong, with the properties
that cover them.

The models have the code as it is, with these defects that no property can
exclude:

- `front_desk.py:466`: an amendment locks no room (`OnlyAmendedStaysClash` says
  that it alone makes rooms clash), asks for no held rooms, and its default key
  is answered already processed when a stay goes back to dates it had before.
- `front_desk.py:667`: cancelling a future reservation makes its rooms Available,
  also one that engineering took out of service.
- `front_desk.py:780`: two draft refunds of one deposit; `front_desk.py:882`: the
  no-show job keeps the cancellation document of a cancellation that failed.
- `billing.py:191`: reversing the reversal of a split leaves the remainder void,
  and its money is on no folio and no invoice (`AmountsConserved` says that only
  this is missing);
  `billing.py:231`: the exposure of an account counts invoices, not approvals;
  `billing.py:401`: two shifts may be opened at once; `billing.py:461`: the
  totals of a shift are written from sums made before another payment committed
  (the close makes them again).
- `reconcile.py:75`: a folio status read before a cancellation is written after
  it; `integrations/pos_invoice.py:60`: a void row comes back with a stale form.
- `operations.py:839`: `complete_maintenance` always raises, since an assignment
  makes the translation function local.  So a repair reported outside a checklist
  is never resolved and its post-maintenance task never made, although
  `docs/OPERATIONS_V050.md` describes both (lines 150 to 162, acceptance tests 21
  to 24 on lines 274 to 277); a repair of a checklist is resolved without it, by
  the end of the cleaning.
  `operations.py:350`: a room with two tasks shows as ready when the first is
  finished.
- `hotel_reservation.py:29`: a reservation cannot be cancelled as a document, so
  a group with a submitted reservation cannot be cancelled either.
  `tasks.py:137`: one group that cannot be saved ends the job that expires holds.
- `distribution.py:390`: a second modification has the key of the first;
  `distribution.py:446`: a connection that is off answers with status 200, and a
  message whose sender looks no further is lost; `distribution.py:683`: two
  partners that echo keep each other's blocks alive.
- `webhooks.py:51`: a delivery whose `_send` raises before its `try` stays at
  Processing until somebody replays it.
- `communications.py:70`: the version pattern matches no version, so no message
  is ever sent, nor given up; `docs/ADOPTION_V110.md:84` describes the sending.
- `services.py:633`: a copy of a billed order that was loaded before an invoice
  was cancelled writes Billed back; a cancellation that read the status before
  the completion leaves the order billed; the kind of settlement of a split can
  be changed in its form after the order was billed (`BillsStayPaid` says that
  there is nothing else).  `fnb_inventory.py:169`: a failed submission is caught
  without a rollback, so its entry may stay submitted without ledger entries;
  `fnb_inventory.py:247`: a form of a ticket loaded before this write undoes it.
- `services.py:144`: a served item can be cooked again;
  `services.py:562`: laundry set to Billed by hand is never charged;
  `hotel_experience_booking.py:14`: an experience can only be charged before it
  takes place.
- `billing.py:461`: only `recalculate_cashier_shift` writes what a shift expects,
  and nothing calls it when a movement is submitted or cancelled in its form;
  `hotel_cashier_shift.py:24`: the form of a shift closes it on the totals that
  are stored, and without the POS closing or the manager that
  `close_cashier_shift` asks for (`ClosedOnAllPayments` names both).
- `intelligence.py:500`: a correction of the kind Delete Draft cannot be
  executed, since the correction itself links the payment.
- `guest_portal.py:164`: the newest restriction hides an older and stricter one;
  `guest_portal.py:274`: a self check-in overwrites a verified registration;
  `guest_portal.py:300`: the deposit order keeps the amount first due;
  `guest_portal.py:381`: a guest with stays cannot be merged; `media.py:240`:
  documents uploaded after a purge by hand are not purged.
- `hotel_reservation.py:200`: a net contract takes its discount at each save;
  one of half or more can bring the price to nothing, and the next save takes
  the rate of the calendar instead (*The price*, section 8);
  `guest_portal.py:197`: an online booking takes the voucher off the price and
  once more as a discount; `revenue.py:157`: redemptions are counted without a
  lock; `revenue.py:434`: a stay in a draft settlement is open for another one,
  which may set it from Paid back to Invoiced; `front_desk.py:662`: a cancelled
  stay keeps the voucher discount posted to its folio.

## 10. Not modelled, and why

Installation, onboarding, migration, the production gate and its validation are
run by one administrator and keep no state others depend on.  Reports,
dashboards and the intelligence module (but for payment corrections) read the
state above.  Stock and accounting entries are made by ERPNext; the models have
their documents with the hooks that answer them.  The tax breakdown, discounts
of a bill, seasons and derived rates are arithmetic on one value without state.
Permissions, page code, texts and layouts are outside a model of state.
