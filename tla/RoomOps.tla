------------------------------ MODULE RoomOps ------------------------------
(***************************************************************************)
(* Housekeeping and engineering: cleaning tasks with their checklists,      *)
(* inspections, maintenance tickets, and the room status they share with    *)
(* the front desk (operations.py, tasks.py, turnover.py, room_status.py).   *)
(*                                                                         *)
(* Every handler locks the row of its task or ticket first, so a handler is *)
(* one step.  Those that may return a room to service are two: after the    *)
(* task is locked, and the snapshot of the transaction taken, they wait for *)
(* the row of the room while others go on.                                  *)
(***************************************************************************)
EXTENDS FiniteSets, Integers

CONSTANTS
    Rooms,               \* rooms
    Tasks,               \* housekeeping tasks, named by their idempotency key
    Items,               \* the rows of the checklist template
    Critical,            \* the rows with is_critical
    DeskTickets,         \* tickets reported outside a checklist, by their key
    RoomOf,              \* the room of a task and of a desk ticket
    MaxGuests,           \* bound: reservations checked in to one room
    InspectionRequired,  \* the values require_housekeeping_inspection is given
    RepeatableRead,      \* the isolation level of the database
    Worked,              \* bound: the tickets engineers work on
    Kinds                \* bound: the groups of handlers that run

NoTicket == <<>>

\* a checklist ticket is named CHECKLIST-<task>-<row>
Tickets == DeskTickets \cup (Tasks \X Items)

ASSUME OpsAssumption ==
    /\ Critical \subseteq Items
    /\ RoomOf \in [Tasks \cup DeskTickets -> Rooms]
    /\ MaxGuests \in Nat
    /\ InspectionRequired \subseteq BOOLEAN
    /\ RepeatableRead \in BOOLEAN
    /\ NoTicket \notin Tickets
    /\ DeskTickets \cap (Tasks \X Items) = {}

VARIABLES
    task,       \* tabHotel Housekeeping Task
    ticket,     \* tabHotel Maintenance Ticket
    room,       \* the two status columns of tabHotel Room
    guests,     \* how many reservations are Checked In to a room
    finishing,  \* tasks whose handler has locked the task and waits for the room
    seen        \* the occupied rooms in the snapshot of that handler

vars == <<task, ticket, room, guests, finishing, seen>>

Operational == {"Available", "Occupied", "Out of Service"}

Housekeeping == {"Clean", "Dirty", "Assigned", "Cleaning", "Ready for Inspection",
                 "Inspected", "Reclean Required", "Waiting Engineering"}

Ready == {"Clean", "Inspected"}

TaskStatus == {"None", "Open", "Assigned", "In Progress", "Paused", "Waiting Engineering",
               "Ready for Inspection", "Reclean Required", "Completed"}

TicketStatus == {"None", "Open", "Acknowledged", "Assigned", "In Progress", "Waiting",
                 "Resolved", "Closed"}

\* "OK" is also Not Applicable: both let a room be finished and an inspection pass.
Results == {"Pending", "OK", "Not OK", "Reported"}

TypeOK ==
    /\ task \in [Tasks -> [status : TaskStatus, rows : [Items -> Results],
                           ticket : Tickets \cup {NoTicket}]]
    /\ ticket \in [Tickets -> [status : TicketStatus, sale : BOOLEAN, acked : BOOLEAN]]
    /\ room \in [Rooms -> [op : Operational, hk : Housekeeping]]
    /\ guests \in [Rooms -> 0..MaxGuests]
    /\ finishing \subseteq Tasks
    /\ seen \in [Tasks -> SUBSET Rooms]

Init ==
    /\ task = [t \in Tasks |-> [status |-> "None", rows |-> [i \in Items |-> "Pending"],
                                ticket |-> NoTicket]]
    /\ ticket = [k \in Tickets |-> [status |-> "None", sale |-> FALSE, acked |-> FALSE]]
    /\ room = [m \in Rooms |-> [op |-> "Available", hk |-> "Clean"]]
    /\ guests = [m \in Rooms |-> 0]
    /\ finishing = {}
    /\ seen = [t \in Tasks |-> {}]

TicketRoom(k) == RoomOf[IF k \in DeskTickets THEN k ELSE k[1]]

\* set_room_status; the value "" keeps a column
SetRoom(m, op, hk) ==
    room' = [room EXCEPT ![m] = [op |-> IF op = "" THEN @.op ELSE op,
                                 hk |-> IF hk = "" THEN @.hk ELSE hk]]

\* the row of the task can be locked
Free(t) == t \notin finishing

reader == <<finishing, seen>>
-----------------------------------------------------------------------------
(* Tasks: ensure_housekeeping_task answers a repeated key with the old task.  *)

Ensured(t) == [task EXCEPT ![t].status = IF @ = "None" THEN "Open" ELSE @]

\* create_turnover_tasks: a checkout clean for every coming departure
TurnoverTask(t) ==
    /\ "tasks" \in Kinds
    /\ task[t].status = "None"
    /\ task' = Ensured(t)
    /\ UNCHANGED <<ticket, room, guests, reader>>

\* create_housekeeping_tasks; a room gets another task on another day
DailyTask(t) ==
    /\ "tasks" \in Kinds
    /\ task[t].status = "None"
    /\ room[RoomOf[t]].op # "Out of Service"
    /\ room[RoomOf[t]].hk = "Dirty"
    /\ task' = Ensured(t)
    /\ UNCHANGED <<ticket, room, guests, reader>>

\* assign_housekeeping_task, to someone who does not have the task yet
Assign(t) ==
    /\ Free(t)
    /\ task[t].status \notin {"None", "Completed"}
    /\ task' = [task EXCEPT ![t].status =
                    IF @ \in {"Open", "Reclean Required"} THEN "Assigned" ELSE @]
    /\ SetRoom(RoomOf[t], "", "Assigned")
    /\ UNCHANGED <<ticket, guests, reader>>

\* mutant: the room is not told that its cleaning has begun
MutStartRoomUntouched(t) ==
    /\ Free(t)
    /\ task[t].status \in {"Open", "Assigned", "Reclean Required"}
    /\ task' = [task EXCEPT ![t].status = "In Progress"]
    /\ UNCHANGED <<ticket, room, guests, reader>>

Start(t) ==
    /\ Free(t)
    /\ task[t].status \in {"Open", "Assigned", "Reclean Required"}
    /\ task' = [task EXCEPT ![t].status = "In Progress"]
    /\ SetRoom(RoomOf[t], "", "Cleaning")
    /\ UNCHANGED <<ticket, guests, reader>>

Pause(t, waitingEngineering) ==
    /\ Free(t)
    /\ task[t].status = "In Progress"
    /\ task' = [task EXCEPT ![t].status =
                    IF waitingEngineering THEN "Waiting Engineering" ELSE "Paused"]
    /\ SetRoom(RoomOf[t], "", IF waitingEngineering THEN "Waiting Engineering" ELSE "Cleaning")
    /\ UNCHANGED <<ticket, guests, reader>>

Resume(t) ==
    /\ Free(t)
    /\ task[t].status \in {"Paused", "Waiting Engineering"}
    /\ task' = [task EXCEPT ![t].status = "In Progress"]
    /\ SetRoom(RoomOf[t], "", "Cleaning")
    /\ UNCHANGED <<ticket, guests, reader>>
-----------------------------------------------------------------------------
(* Checklists and the tickets reported from them. *)

Editable == {"Assigned", "In Progress", "Paused", "Waiting Engineering", "Reclean Required"}

Opened(k, sale) == [ticket EXCEPT ![k] = [status |-> "Open", sale |-> sale, acked |-> FALSE]]

\* update_housekeeping_checklist, with a result that makes no ticket
UpdateChecklist(t, i, result) ==
    /\ Free(t)
    /\ task[t].status \in Editable
    /\ result = "Reported" => ticket[<<t, i>>].status # "None"
    /\ task' = [task EXCEPT ![t].rows[i] = result]
    /\ UNCHANGED <<ticket, room, guests, reader>>

\* update_housekeeping_checklist with the first report of a row, which calls
\* report_maintenance_issue: the link of the task goes to the newest ticket
ReportRow(t, i) ==
    /\ Free(t)
    /\ task[t].status \in Editable
    /\ ticket[<<t, i>>].status = "None"
    /\ ticket' = Opened(<<t, i>>, i \in Critical)
    /\ task' = [task EXCEPT ![t] =
          [status |-> IF @.status = "In Progress" THEN "Waiting Engineering" ELSE @.status,
           rows |-> [@.rows EXCEPT ![i] = "Reported"],
           ticket |-> <<t, i>>]]
    /\ SetRoom(RoomOf[t], IF i \in Critical THEN "Out of Service" ELSE "", "Waiting Engineering")
    /\ UNCHANGED <<guests, reader>>

\* report_maintenance_issue from the front desk, or from the page of a task: the
\* pages send no checklist row, so the task is not linked
Report(k, sale, fromTask) ==
    /\ "report" \in Kinds
    /\ ticket[k].status = "None"
    /\ ticket' = Opened(k, sale)
    /\ SetRoom(TicketRoom(k), IF sale THEN "Out of Service" ELSE "",
               IF fromTask THEN "Waiting Engineering" ELSE "")
    /\ UNCHANGED <<task, guests, reader>>
-----------------------------------------------------------------------------
(* The end of a cleaning, and the return of a room. *)

Unresolved(k) == ticket[k].status \notin {"None", "Resolved", "Closed"}

\* mutant: a reported defect does not keep a cleaning from being finished
MutCleaningCompleteReported(t) ==
    \A i \in Items : task[t].rows[i] \notin {"Pending", "Not OK"}

\* _validate_cleaning_complete
CleaningComplete(t) == \A i \in Items : task[t].rows[i] = "OK"

\* calculate_inspection_result, apart from the score
Passes(t) ==
    \A i \in Items : /\ task[t].rows[i] # "Pending"
                     /\ task[t].rows[i] = "Not OK" => i \notin Critical

GuestRooms == {m \in Rooms : guests[m] > 0}

\* the handler of a task that may return its room: the task is locked
BeginFinish(t) ==
    /\ Free(t)
    /\ finishing' = finishing \cup {t}
    /\ seen' = [seen EXCEPT ![t] = GuestRooms]
    /\ UNCHANGED <<task, ticket, room, guests>>

\* complete_housekeeping_task, if an inspection has to follow
Complete(t) ==
    /\ TRUE \in InspectionRequired
    /\ Free(t)
    /\ task[t].status = "In Progress"
    /\ CleaningComplete(t)
    /\ task' = [task EXCEPT ![t].status = "Ready for Inspection"]
    /\ SetRoom(RoomOf[t], "", "Ready for Inspection")
    /\ UNCHANGED <<ticket, guests, reader>>

\* complete_housekeeping_task, if the room is ready with that
BeginComplete(t) ==
    /\ FALSE \in InspectionRequired
    /\ task[t].status = "In Progress"
    /\ CleaningComplete(t)
    /\ BeginFinish(t)

\* inspect_housekeeping_task with the decision Pass
BeginInspection(t) ==
    /\ task[t].status = "Ready for Inspection"
    /\ Passes(t)
    /\ BeginFinish(t)

\* inspect_housekeeping_task with another decision, or with an inspection not passed
FailInspection(t) ==
    /\ Free(t)
    /\ task[t].status = "Ready for Inspection"
    /\ task' = [task EXCEPT ![t].status = "Reclean Required"]
    /\ SetRoom(RoomOf[t], "", "Reclean Required")
    /\ UNCHANGED <<ticket, guests, reader>>

\* mutant: the room is taken for as it was when the handler began
MutExpectedEarly(t) == IF RoomOf[t] \in seen[t] THEN "Occupied" ELSE "Available"

\* expected_operational_status, as the transaction of the handler sees it
Expected(t) ==
    IF RoomOf[t] \in (IF RepeatableRead THEN seen[t] ELSE GuestRooms)
    THEN "Occupied" ELSE "Available"

\* mutant: every ticket of the room is resolved with the one that is linked
MutReturnsAll(t) == {k \in Tickets : TicketRoom(k) = RoomOf[t] /\ Unresolved(k)}

\* the ticket that _finish_post_maintenance_if_applicable resolves, if any
Returns(t) == {k \in Tickets : k = task[t].ticket /\ Unresolved(k)}

\* the writes of the handler once it has the room: task, room, linked ticket, and
\* restore_room_after_engineering
Finish(t) ==
    /\ t \in finishing
    /\ task' = [task EXCEPT ![t].status = "Completed"]
    /\ ticket' = [k \in Tickets |-> IF k \in Returns(t)
                                    THEN [ticket[k] EXCEPT !.status = "Resolved"]
                                    ELSE ticket[k]]
    /\ SetRoom(RoomOf[t], IF Returns(t) # {} THEN Expected(t) ELSE "", "Inspected")
    /\ finishing' = finishing \ {t}
    /\ seen' = [seen EXCEPT ![t] = {}]
    /\ UNCHANGED guests

\* an exception, a lock timeout or a lost worker
Rollback(t) ==
    /\ t \in finishing
    /\ finishing' = finishing \ {t}
    /\ seen' = [seen EXCEPT ![t] = {}]
    /\ UNCHANGED <<task, ticket, room, guests>>
-----------------------------------------------------------------------------
(* Tickets. *)

SetTicket(k, status) ==
    /\ k \in Worked
    /\ ticket' = [ticket EXCEPT ![k] =
          [status |-> status, sale |-> @.sale,
           acked |-> @.acked \/ status \in {"Acknowledged", "In Progress"}]]
    /\ UNCHANGED <<task, room, guests, reader>>

Acknowledge(k) ==
    /\ ~ticket[k].acked
    /\ ticket[k].status \in {"Open", "Assigned"}
    /\ SetTicket(k, "Acknowledged")

\* mutant: a ticket that is over can be given to an engineer again
MutAssignTicketAny(k) ==
    /\ ticket[k].status # "None"
    /\ SetTicket(k, "Assigned")

\* assign_maintenance: also a ticket somebody works on goes back to Assigned
AssignTicket(k) ==
    /\ Unresolved(k)
    /\ SetTicket(k, "Assigned")

StartTicket(k) ==
    /\ ticket[k].status \in {"Open", "Acknowledged", "Assigned", "Waiting"}
    /\ SetTicket(k, "In Progress")

\* pause_maintenance: Paused, Waiting Vendor and Waiting Parts
PauseTicket(k) ==
    /\ ticket[k].status = "In Progress"
    /\ SetTicket(k, "Waiting")

\* complete_maintenance: `cleaning_task, _ = ...` makes `_` a local name of the whole
\* function, so the call of `_` for the notification raises on each path that would
\* commit, and the request is rolled back.
CompleteMaintenance(k) ==
    /\ k \in Worked
    /\ ticket[k].status \in {"In Progress", "Waiting", "Assigned", "Acknowledged"}
    /\ UNCHANGED vars

CloseTicket(k) ==
    /\ ticket[k].status = "Resolved"
    /\ SetTicket(k, "Closed")
-----------------------------------------------------------------------------
(* The front desk, as RoomInventory has it in full. *)

\* HotelReservation.check_in
CheckIn(m) ==
    /\ "front desk" \in Kinds
    /\ room[m].op = "Available"
    /\ room[m].hk \in Ready
    /\ guests[m] < MaxGuests
    /\ guests' = [guests EXCEPT ![m] = @ + 1]
    /\ SetRoom(m, "Occupied", "")
    /\ UNCHANGED <<task, ticket, reader>>

\* mutant: a reservation that is not checked in can be checked out
MutCheckOutAnybody(m, t) ==
    /\ "front desk" \in Kinds
    /\ RoomOf[t] = m
    /\ guests' = [guests EXCEPT ![m] = @ - 1]
    /\ SetRoom(m, "Available", "Dirty")
    /\ task' = Ensured(t)
    /\ UNCHANGED <<ticket, reader>>

\* HotelReservation.check_out, whose cleaning task may be there already
CheckOut(m, t) ==
    /\ "front desk" \in Kinds
    /\ guests[m] > 0
    /\ RoomOf[t] = m
    /\ guests' = [guests EXCEPT ![m] = @ - 1]
    /\ SetRoom(m, "Available", "Dirty")
    /\ task' = Ensured(t)
    /\ UNCHANGED <<ticket, reader>>

\* move_room
MoveGuest(from, to, t) ==
    /\ "front desk" \in Kinds
    /\ from # to
    /\ guests[from] > 0
    /\ guests[to] < MaxGuests
    /\ room[to].op = "Available"
    /\ room[to].hk \in Ready
    /\ RoomOf[t] = from
    /\ guests' = [guests EXCEPT ![from] = @ - 1, ![to] = @ + 1]
    /\ room' = [room EXCEPT ![from] = [op |-> "Available", hk |-> "Dirty"],
                            ![to] = [op |-> "Occupied", hk |-> "Inspected"]]
    /\ task' = Ensured(t)
    /\ UNCHANGED <<ticket, reader>>

\* a reservation of the room is cancelled or a no-show: _process_cancellation
Release(m) ==
    /\ "front desk" \in Kinds
    /\ room[m].op # "Occupied"
    /\ SetRoom(m, "Available", "")
    /\ UNCHANGED <<task, ticket, guests, reader>>
-----------------------------------------------------------------------------
TaskStep(t) ==
    \/ TurnoverTask(t) \/ DailyTask(t) \/ Assign(t) \/ Start(t) \/ Resume(t)
    \/ \E waiting \in BOOLEAN : Pause(t, waiting)
    \/ \E i \in Items, result \in Results : UpdateChecklist(t, i, result)
    \/ \E i \in Items : ReportRow(t, i)
    \/ Complete(t) \/ BeginComplete(t) \/ BeginInspection(t) \/ FailInspection(t)
    \/ Finish(t) \/ Rollback(t)

TicketStep(k) ==
    \/ Acknowledge(k) \/ AssignTicket(k) \/ StartTicket(k) \/ PauseTicket(k)
    \/ CompleteMaintenance(k) \/ CloseTicket(k)

FrontDeskStep(m) ==
    \/ CheckIn(m) \/ Release(m)
    \/ \E t \in Tasks : CheckOut(m, t)
    \/ \E to \in Rooms, t \in Tasks : MoveGuest(m, to, t)

Next ==
    \/ \E t \in Tasks : TaskStep(t)
    \/ \E k \in DeskTickets, sale, fromTask \in BOOLEAN : Report(k, sale, fromTask)
    \/ \E k \in Tickets : TicketStep(k)
    \/ \E m \in Rooms : FrontDeskStep(m)

Spec == Init /\ [][Next]_vars
-----------------------------------------------------------------------------
(* Properties. *)

\* What has been finished has been checked: no row of a task that is ready for
\* inspection or completed is pending, failed or reported to engineering.
FinishedIsChecked ==
    \A t \in Tasks :
        task[t].status \in {"Ready for Inspection", "Completed"} =>
            \A i \in Items : task[t].rows[i] = "OK"

\* A cleaning that has begun and is not finished
Unfinished(t) ==
    task[t].status \in {"In Progress", "Paused", "Waiting Engineering",
                        "Ready for Inspection", "Reclean Required"}

\* The front desk sees a room as ready, and may check a guest in, although somebody
\* cleans it, only if another task of that room has been finished.
ReadyRoomsFinished ==
    \A t \in Tasks :
        Unfinished(t) /\ room[RoomOf[t]].hk \in Ready =>
            \E other \in Tasks \ {t} :
                RoomOf[other] = RoomOf[t] /\ task[other].status = "Completed"

\* A room shows as occupied only while a guest is in it: what restore writes after
\* a repair agrees with check-ins, moves and check-outs at the same time.
NoPhantomGuest == \A m \in Rooms : room[m].op = "Occupied" => guests[m] > 0

\* The end of a cleaning takes no repair of another cleaning with it: a checklist ticket
\* that it changes was reported from its own checklist, in a row that has been found in
\* order since.  (What other reports should come to is not spoken of.)
ResolvedByItsTask ==
    [][\A t \in Tasks, k \in Tasks \X Items :
          task'[t].status = "Completed" /\ task[t].status # "Completed" /\ ticket'[k] # ticket[k]
          => k[1] = t /\ task[t].rows[k[2]] = "OK"]_vars

\* A ticket that is resolved stays so, whatever engineers still do with it, and a
\* completed cleaning is not taken up again.
OverIsOver ==
    [][/\ \A t \in Tasks : task[t].status = "Completed" => task'[t] = task[t]
       /\ \A k \in Tickets :
            ticket[k].status \in {"Resolved", "Closed"} =>
                ticket'[k].status \in {ticket[k].status, "Closed"}]_vars
=============================================================================
