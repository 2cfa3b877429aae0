--------------------------- MODULE RoomOpsProofs ---------------------------
(***************************************************************************)
(* Proofs about RoomOps, for any rooms, tasks, checklists and tickets.      *)
(*                                                                         *)
(* The invariant adds two facts to the properties: a task is linked to a    *)
(* ticket of its own checklist (LinksOwn), and the handler of a task that   *)
(* waits for the room has still found it finished (FinishingChecked), since *)
(* everybody else needs the lock of the task to change it.                  *)
(***************************************************************************)
EXTENDS RoomOps, TLAPS

\* the link of a task is a ticket of its own checklist
LinksOwn == \A t \in Tasks : task[t].ticket \in {NoTicket} \cup ({t} \X Items)

\* what a finishing handler has checked stays so until it has the room
FinishingChecked ==
    \A t \in finishing :
        /\ task[t].status \in {"In Progress", "Ready for Inspection"}
        /\ \A i \in Items : task[t].rows[i] = "OK"

Core == TypeOK /\ LinksOwn /\ FinishingChecked /\ FinishedIsChecked

TaskType == [status : TaskStatus, rows : [Items -> Results], ticket : Tickets \cup {NoTicket}]

TicketType == [status : TicketStatus, sale : BOOLEAN, acked : BOOLEAN]

RoomType == [op : Operational, hk : Housekeeping]
-----------------------------------------------------------------------------
\* A ticket of a checklist is no desk ticket, and names the task that has reported it.
LEMMA RowTickets ==
    ASSUME NEW t \in Tasks, NEW i \in Items
    PROVE  /\ <<t, i>> \in Tickets
           /\ <<t, i>> \notin DeskTickets
           /\ <<t, i>>[1] = t
<1>1. <<t, i>> \in Tasks \X Items
  OBVIOUS
<1>2. <<t, i>> \notin DeskTickets
  BY <1>1, OpsAssumption
<1> QED BY <1>1, <1>2 DEF Tickets

\* The room of a ticket is a room.
LEMMA TicketRooms ==
    ASSUME NEW k \in Tickets
    PROVE  TicketRoom(k) \in Rooms
<1>1. k \in DeskTickets => k \in Tasks \cup DeskTickets
  OBVIOUS
<1>2. k \notin DeskTickets => k[1] \in Tasks \cup DeskTickets
  BY DEF Tickets
<1> QED BY <1>1, <1>2, OpsAssumption DEF TicketRoom

\* set_room_status keeps the type of the rooms.
LEMMA SetRoomType ==
    ASSUME room \in [Rooms -> RoomType], NEW m \in Rooms,
           NEW op \in Operational \cup {""}, NEW hk \in Housekeeping \cup {""},
           SetRoom(m, op, hk)
    PROVE  /\ room' \in [Rooms -> RoomType]
           /\ room'[m].op = IF op = "" THEN room[m].op ELSE op
           /\ room'[m].hk = IF hk = "" THEN room[m].hk ELSE hk
           /\ \A n \in Rooms \ {m} : room'[n] = room[n]
<1> DEFINE new == [op |-> IF op = "" THEN room[m].op ELSE op,
                   hk |-> IF hk = "" THEN room[m].hk ELSE hk]
<1>1. room' = [room EXCEPT ![m] = new]
  BY DEF SetRoom
<1>2. new \in RoomType
  BY DEF RoomType
<1>3. \A n \in Rooms : room'[n] = IF n = m THEN new ELSE room[n]
  BY <1>1
<1>4. /\ new.op = IF op = "" THEN room[m].op ELSE op
      /\ new.hk = IF hk = "" THEN room[m].hk ELSE hk
  OBVIOUS
<1> HIDE DEF new
<1> QED BY <1>1, <1>2, <1>3, <1>4
-----------------------------------------------------------------------------
(* The initial states satisfy the invariant. *)
LEMMA InitCore == Init => Core
<1> SUFFICES ASSUME Init PROVE Core
  OBVIOUS
<1>t. /\ \A t \in Tasks : task[t].status = "None" /\ task[t].ticket = NoTicket
      /\ \A k \in Tickets : ticket[k].status = "None"
      /\ finishing = {}
  BY DEF Init
<1>1. TypeOK
  <2>1. task \in [Tasks -> TaskType]
    <3>1. [i \in Items |-> "Pending"] \in [Items -> Results]
      BY DEF Results
    <3> DEFINE new == [status |-> "None", rows |-> [i \in Items |-> "Pending"],
                       ticket |-> NoTicket]
    <3>2. new \in TaskType
      BY <3>1 DEF TaskType, TaskStatus
    <3> QED BY <3>2 DEF Init
  <2>2. ticket \in [Tickets -> TicketType]
    BY DEF Init, TicketType, TicketStatus
  <2>3. room \in [Rooms -> RoomType]
    BY DEF Init, RoomType, Operational, Housekeeping
  <2>4. /\ guests \in [Rooms -> 0..MaxGuests]
        /\ finishing \subseteq Tasks
        /\ seen \in [Tasks -> SUBSET Rooms]
    BY OpsAssumption DEF Init
  <2> QED BY <2>1, <2>2, <2>3, <2>4 DEF TypeOK, TaskType, TicketType, RoomType
<1>2. LinksOwn
  BY <1>t DEF LinksOwn
<1>3. FinishingChecked
  BY <1>t DEF FinishingChecked
<1>4. FinishedIsChecked
  BY <1>t DEF FinishedIsChecked
<1> QED BY <1>1, <1>2, <1>3, <1>4 DEF Core
-----------------------------------------------------------------------------
(* What all steps but Finish have in common: at most one task changes, one that no  *)
(* finishing handler holds and that is not completed; no ticket becomes resolved.   *)

OthersKept == /\ ticket' \in [Tickets -> TicketType]
              /\ room' \in [Rooms -> RoomType]
              /\ guests' \in [Rooms -> 0..MaxGuests]
              /\ \A k \in Tickets : ticket'[k].status \in {"Resolved", "Closed"} =>
                                        ticket[k].status \in {"Resolved", "Closed"}

LEMMA TaskChanged ==
    ASSUME Core, NEW t \in Tasks \ finishing, NEW new \in TaskType,
           task[t].status # "Completed",
           new.ticket \in {NoTicket} \cup ({t} \X Items),
           new.status \in {"Ready for Inspection", "Completed"} =>
               \A i \in Items : new.rows[i] = "OK",
           task' = [task EXCEPT ![t] = new],
           OthersKept, UNCHANGED reader
    PROVE  Core'
<1>0. task \in [Tasks -> TaskType]
  BY DEF Core, TypeOK, TaskType
<1>1. task'[t] = new /\ \A u \in Tasks \ {t} : task'[u] = task[u]
  BY <1>0
<1>2. TypeOK'
  <2>1. task' \in [Tasks -> TaskType]
    BY <1>0
  <2> QED BY <2>1 DEF Core, TypeOK, OthersKept, reader, TaskType, TicketType, RoomType
<1>3. LinksOwn'
  BY <1>1 DEF Core, LinksOwn
<1>4. FinishingChecked'
  <2>0. finishing' = finishing
    BY DEF reader
  <2> SUFFICES ASSUME NEW u \in finishing
               PROVE  /\ task'[u].status \in {"In Progress", "Ready for Inspection"}
                      /\ \A i \in Items : task'[u].rows[i] = "OK"
    BY <2>0 DEF FinishingChecked
  <2>1. task'[u] = task[u]
    BY <1>1 DEF Core, TypeOK
  <2>2. /\ task[u].status \in {"In Progress", "Ready for Inspection"}
        /\ \A i \in Items : task[u].rows[i] = "OK"
    BY DEF Core, FinishingChecked
  <2> QED BY <2>1, <2>2
<1>5. FinishedIsChecked'
  <2> SUFFICES ASSUME NEW u \in Tasks,
                      task'[u].status \in {"Ready for Inspection", "Completed"}
               PROVE  \A i \in Items : task'[u].rows[i] = "OK"
    BY DEF FinishedIsChecked
  <2>1. CASE u = t
    BY <1>1, <2>1
  <2>2. CASE u # t
    <3>1. task'[u] = task[u]
      BY <1>1, <2>2
    <3>2. FinishedIsChecked
      BY DEF Core
    <3> QED BY <3>1, <3>2 DEF FinishedIsChecked
  <2> QED BY <2>1, <2>2
<1> QED BY <1>2, <1>3, <1>4, <1>5 DEF Core

LEMMA TasksKept ==
    ASSUME Core, UNCHANGED task, OthersKept,
           finishing' \subseteq Tasks, seen' \in [Tasks -> SUBSET Rooms],
           \A t \in finishing' \ finishing :
               /\ task[t].status \in {"In Progress", "Ready for Inspection"}
               /\ \A i \in Items : task[t].rows[i] = "OK"
    PROVE  Core'
<1>1. TypeOK'
  BY DEF Core, TypeOK, OthersKept, TicketType, RoomType
<1>2. LinksOwn' /\ FinishedIsChecked'
  BY DEF Core, LinksOwn, FinishedIsChecked
<1>3. FinishingChecked'
  BY DEF Core, FinishingChecked
<1> QED BY <1>1, <1>2, <1>3 DEF Core

\* ensure_housekeeping_task makes a new task or changes none.
LEMMA EnsuredCore ==
    ASSUME Core, NEW t \in Tasks, task' = Ensured(t), OthersKept, UNCHANGED reader
    PROVE  Core'
<1>0. task \in [Tasks -> TaskType]
  BY DEF Core, TypeOK, TaskType
<1>1. CASE task[t].status = "None"
  <2> DEFINE new == [task[t] EXCEPT !.status = "Open"]
  <2>1. new \in TaskType /\ new.ticket = task[t].ticket /\ new.status = "Open"
    BY <1>0 DEF TaskType, TaskStatus
  <2>2. task' = [task EXCEPT ![t] = new]
    BY <1>1 DEF Ensured
  <2>3. t \notin finishing
    BY <1>1 DEF Core, FinishingChecked
  <2>4. new.ticket \in {NoTicket} \cup ({t} \X Items)
    BY <2>1 DEF Core, LinksOwn
  <2> HIDE DEF new
  <2> QED BY <1>1, <2>1, <2>2, <2>3, <2>4, TaskChanged
<1>2. CASE task[t].status # "None"
  <2>1. [task[t] EXCEPT !.status = @] = task[t]
    BY <1>0 DEF TaskType
  <2>2. task' = task
    BY <1>0, <1>2, <2>1 DEF Ensured
  <2>3. finishing' \subseteq Tasks /\ seen' \in [Tasks -> SUBSET Rooms]
    BY DEF Core, TypeOK, reader
  <2> QED BY <2>2, <2>3, TasksKept DEF reader
<1> QED BY <1>1, <1>2
-----------------------------------------------------------------------------
(* The actions, one after the other. *)

LEMMA CoreFacts ==
    ASSUME Core
    PROVE  /\ task \in [Tasks -> TaskType]
           /\ ticket \in [Tickets -> TicketType]
           /\ room \in [Rooms -> RoomType]
           /\ guests \in [Rooms -> 0..MaxGuests]
           /\ finishing \subseteq Tasks
           /\ seen \in [Tasks -> SUBSET Rooms]
           /\ \A t \in Tasks : RoomOf[t] \in Rooms
  BY OpsAssumption DEF Core, TypeOK, TaskType, TicketType, RoomType

\* Writing one field of a task keeps the others.
LEMMA StatusUpdate ==
    ASSUME NEW s \in TaskType, NEW status \in TaskStatus
    PROVE  [s EXCEPT !.status = status] =
               [status |-> status, rows |-> s.rows, ticket |-> s.ticket]
  BY DEF TaskType

\* The same of the rows.
LEMMA RowUpdate ==
    ASSUME NEW s \in TaskType, NEW rows
    PROVE  [s EXCEPT !.rows = rows] =
               [status |-> s.status, rows |-> rows, ticket |-> s.ticket]
  BY DEF TaskType

\* A handler that writes the status of its task and the housekeeping status of its room.
LEMMA StatusChanged ==
    ASSUME Core, NEW t \in Tasks \ finishing, NEW status \in TaskStatus, NEW hk \in Housekeeping,
           task[t].status # "Completed", status # "Completed",
           status = "Ready for Inspection" => \A i \in Items : task[t].rows[i] = "OK",
           task' = [task EXCEPT ![t].status = status],
           SetRoom(RoomOf[t], "", hk), UNCHANGED <<ticket, guests, reader>>
    PROVE  Core'
<1> DEFINE new == [status |-> status, rows |-> task[t].rows, ticket |-> task[t].ticket]
<1>0. task[t] \in TaskType
  BY CoreFacts
<1>1. new \in TaskType /\ new.ticket = task[t].ticket /\ new.rows = task[t].rows
      /\ new.status = status
  BY <1>0 DEF TaskType
<1>2. task' = [task EXCEPT ![t] = new]
  <2>1. [task[t] EXCEPT !.status = status] = new
    BY <1>0, StatusUpdate
  <2> HIDE DEF new
  <2> QED BY <2>1
<1>3. OthersKept
  <2>1. room' \in [Rooms -> RoomType]
    <3>1. room \in [Rooms -> RoomType] /\ RoomOf[t] \in Rooms
      BY CoreFacts
    <3> QED BY <3>1, SetRoomType
  <2> QED BY <2>1, CoreFacts DEF OthersKept, reader
<1>4. task[t].ticket \in {NoTicket} \cup ({t} \X Items)
  BY DEF Core, LinksOwn
<1>5. UNCHANGED reader
  OBVIOUS
<1> HIDE DEF new
<1>6. new.ticket \in {NoTicket} \cup ({t} \X Items)
  BY <1>1, <1>4
<1>7. new.status \in {"Ready for Inspection", "Completed"} => \A i \in Items : new.rows[i] = "OK"
  BY <1>1
<1> QED BY <1>1, <1>2, <1>3, <1>5, <1>6, <1>7, TaskChanged

LEMMA AssignCore ==
    ASSUME Core, NEW t \in Tasks, Assign(t)
    PROVE  Core'
<1> DEFINE status == IF task[t].status \in {"Open", "Reclean Required"} THEN "Assigned"
                     ELSE task[t].status
<1>1. status \in TaskStatus /\ status # "Completed"
  BY CoreFacts DEF TaskType, TaskStatus, Assign
<1>2. task' = [task EXCEPT ![t].status = status]
  BY DEF Assign
<1>3. status = "Ready for Inspection" => \A i \in Items : task[t].rows[i] = "OK"
  BY DEF Core, FinishedIsChecked
<1>4. /\ t \in Tasks \ finishing /\ task[t].status # "Completed"
      /\ SetRoom(RoomOf[t], "", "Assigned")
      /\ UNCHANGED <<ticket, guests, reader>>
      /\ "Assigned" \in Housekeeping
  BY DEF Assign, Free, Housekeeping
<1> HIDE DEF status
<1> QED BY <1>1, <1>2, <1>3, <1>4, StatusChanged

LEMMA StartResumeCore ==
    ASSUME Core, NEW t \in Tasks, Start(t) \/ Resume(t)
    PROVE  Core'
<1>1. /\ t \in Tasks \ finishing /\ task[t].status # "Completed"
      /\ task' = [task EXCEPT ![t].status = "In Progress"]
      /\ SetRoom(RoomOf[t], "", "Cleaning")
      /\ UNCHANGED <<ticket, guests, reader>>
  BY DEF Start, Resume, Free
<1>2. "In Progress" \in TaskStatus /\ "Cleaning" \in Housekeeping
  BY DEF TaskStatus, Housekeeping
<1> QED BY <1>1, <1>2, StatusChanged

LEMMA PauseCore ==
    ASSUME Core, NEW t \in Tasks, NEW waiting \in BOOLEAN, Pause(t, waiting)
    PROVE  Core'
<1> DEFINE status == IF waiting THEN "Waiting Engineering" ELSE "Paused"
           hk == IF waiting THEN "Waiting Engineering" ELSE "Cleaning"
<1>1. /\ t \in Tasks \ finishing /\ task[t].status # "Completed"
      /\ task' = [task EXCEPT ![t].status = status]
      /\ SetRoom(RoomOf[t], "", hk)
      /\ UNCHANGED <<ticket, guests, reader>>
  BY DEF Pause, Free
<1>2. /\ status \in TaskStatus \ {"Completed", "Ready for Inspection"}
      /\ hk \in Housekeeping
  BY DEF TaskStatus, Housekeeping
<1> HIDE DEF status, hk
<1> QED BY <1>1, <1>2, StatusChanged

LEMMA CompleteCore ==
    ASSUME Core, NEW t \in Tasks, Complete(t)
    PROVE  Core'
<1>1. /\ t \in Tasks \ finishing /\ task[t].status # "Completed"
      /\ task' = [task EXCEPT ![t].status = "Ready for Inspection"]
      /\ SetRoom(RoomOf[t], "", "Ready for Inspection")
      /\ UNCHANGED <<ticket, guests, reader>>
      /\ \A i \in Items : task[t].rows[i] = "OK"
  BY DEF Complete, Free, CleaningComplete
<1>2. "Ready for Inspection" \in TaskStatus \cap Housekeeping
  BY DEF TaskStatus, Housekeeping
<1> QED BY <1>1, <1>2, StatusChanged

LEMMA FailInspectionCore ==
    ASSUME Core, NEW t \in Tasks, FailInspection(t)
    PROVE  Core'
<1>1. /\ t \in Tasks \ finishing /\ task[t].status # "Completed"
      /\ task' = [task EXCEPT ![t].status = "Reclean Required"]
      /\ SetRoom(RoomOf[t], "", "Reclean Required")
      /\ UNCHANGED <<ticket, guests, reader>>
  BY DEF FailInspection, Free
<1>2. "Reclean Required" \in TaskStatus \cap Housekeeping
  BY DEF TaskStatus, Housekeeping
<1> QED BY <1>1, <1>2, StatusChanged

LEMMA ScheduleCore ==
    ASSUME Core, NEW t \in Tasks, TurnoverTask(t) \/ DailyTask(t)
    PROVE  Core'
<1>1. task' = Ensured(t) /\ UNCHANGED <<ticket, room, guests, reader>>
  BY DEF TurnoverTask, DailyTask
<1>2. OthersKept
  BY <1>1, CoreFacts DEF OthersKept
<1> QED BY <1>1, <1>2, EnsuredCore

LEMMA ChecklistCore ==
    ASSUME Core, NEW t \in Tasks, NEW i \in Items, NEW result \in Results,
           UpdateChecklist(t, i, result)
    PROVE  Core'
<1> DEFINE new == [status |-> task[t].status, rows |-> [task[t].rows EXCEPT ![i] = result],
                   ticket |-> task[t].ticket]
<1>0. task[t] \in TaskType
  BY CoreFacts
<1>1. new \in TaskType /\ new.ticket = task[t].ticket /\ new.status = task[t].status
  BY <1>0 DEF TaskType
<1>2. task' = [task EXCEPT ![t] = new]
  <2>1. [task[t] EXCEPT !.rows = [task[t].rows EXCEPT ![i] = result]] = new
    BY <1>0, RowUpdate
  <2>2. task' = [task EXCEPT ![t].rows[i] = result]
    BY DEF UpdateChecklist
  <2> HIDE DEF new
  <2> QED BY <2>1, <2>2
<1>3. OthersKept
  BY CoreFacts DEF OthersKept, UpdateChecklist
<1>4. new.ticket \in {NoTicket} \cup ({t} \X Items)
  BY <1>1 DEF Core, LinksOwn
<1>5. t \in Tasks \ finishing /\ task[t].status \notin {"Completed", "Ready for Inspection"}
      /\ UNCHANGED reader
  BY DEF UpdateChecklist, Free, Editable
<1> HIDE DEF new
<1> QED BY <1>1, <1>2, <1>3, <1>4, <1>5, TaskChanged

\* A new ticket is open.
LEMMA OpenedTickets ==
    ASSUME Core, NEW k \in Tickets, NEW sale \in BOOLEAN, ticket' = Opened(k, sale)
    PROVE  /\ ticket' \in [Tickets -> TicketType]
           /\ \A j \in Tickets : ticket'[j].status \in {"Resolved", "Closed"} =>
                                     ticket[j].status \in {"Resolved", "Closed"}
<1>1. [status |-> "Open", sale |-> sale, acked |-> FALSE] \in TicketType
  BY DEF TicketType, TicketStatus
<1> QED BY <1>1, CoreFacts DEF Opened

LEMMA ReportRowCore ==
    ASSUME Core, NEW t \in Tasks, NEW i \in Items, ReportRow(t, i)
    PROVE  Core'
<1> DEFINE status == IF task[t].status = "In Progress" THEN "Waiting Engineering"
                     ELSE task[t].status
           new == [status |-> status, rows |-> [task[t].rows EXCEPT ![i] = "Reported"],
                   ticket |-> <<t, i>>]
<1>0. task[t] \in TaskType
  BY CoreFacts
<1>1. status \in TaskStatus /\ status \notin {"Completed", "Ready for Inspection"}
  BY <1>0 DEF TaskType, TaskStatus, ReportRow, Editable
<1>2. [task[t].rows EXCEPT ![i] = "Reported"] \in [Items -> Results]
  BY <1>0 DEF TaskType, Results
<1>3. new \in TaskType /\ new.ticket = <<t, i>> /\ new.status = status
  BY <1>1, <1>2, RowTickets DEF TaskType
<1>4. task' = [task EXCEPT ![t] = new]
  BY <1>0 DEF TaskType, ReportRow
<1>5. OthersKept
  <2>1. (i \in Critical) \in BOOLEAN /\ <<t, i>> \in Tickets
    BY RowTickets
  <2>2. ticket' = Opened(<<t, i>>, i \in Critical)
    BY DEF ReportRow
  <2>3. room' \in [Rooms -> RoomType]
    <3> DEFINE op == IF i \in Critical THEN "Out of Service" ELSE ""
    <3>1. op \in Operational \cup {""} /\ "Waiting Engineering" \in Housekeeping
      BY DEF Operational, Housekeeping
    <3>2. SetRoom(RoomOf[t], op, "Waiting Engineering")
      BY DEF ReportRow
    <3> HIDE DEF op
    <3> QED BY <3>1, <3>2, CoreFacts, SetRoomType
  <2> QED BY <2>1, <2>2, <2>3, OpenedTickets, CoreFacts DEF OthersKept, ReportRow
<1>6. new.ticket \in {NoTicket} \cup ({t} \X Items)
  BY <1>3
<1>7. t \in Tasks \ finishing /\ task[t].status # "Completed" /\ UNCHANGED reader
  BY DEF ReportRow, Free, Editable
<1> HIDE DEF new, status
<1> QED BY <1>1, <1>3, <1>4, <1>5, <1>6, <1>7, TaskChanged

LEMMA ReportCore ==
    ASSUME Core, NEW k \in DeskTickets, NEW sale \in BOOLEAN, NEW fromTask \in BOOLEAN,
           Report(k, sale, fromTask)
    PROVE  Core'
<1>1. k \in Tickets /\ ticket' = Opened(k, sale)
  BY DEF Tickets, Report
<1>2. room' \in [Rooms -> RoomType]
  <2> DEFINE op == IF sale THEN "Out of Service" ELSE ""
             hk == IF fromTask THEN "Waiting Engineering" ELSE ""
  <2>1. op \in Operational \cup {""} /\ hk \in Housekeeping \cup {""}
    BY DEF Operational, Housekeeping
  <2>2. SetRoom(TicketRoom(k), op, hk)
    BY DEF Report
  <2>3. TicketRoom(k) \in Rooms /\ room \in [Rooms -> RoomType]
    BY <1>1, TicketRooms, CoreFacts
  <2> HIDE DEF op, hk
  <2> QED BY <2>1, <2>2, <2>3, SetRoomType
<1>3. OthersKept
  BY <1>1, <1>2, OpenedTickets, CoreFacts DEF OthersKept, Report
<1> QED BY <1>3, TasksKept, CoreFacts DEF Report, reader

LEMMA BeginCore ==
    ASSUME Core, NEW t \in Tasks, BeginComplete(t) \/ BeginInspection(t)
    PROVE  Core'
<1>1. /\ task[t].status \in {"In Progress", "Ready for Inspection"}
      /\ \A i \in Items : task[t].rows[i] = "OK"
  BY DEF BeginComplete, BeginInspection, CleaningComplete, Core, FinishedIsChecked
<1>2. /\ finishing' = finishing \cup {t}
      /\ seen' = [seen EXCEPT ![t] = GuestRooms]
      /\ UNCHANGED <<task, ticket, room, guests>>
  BY DEF BeginComplete, BeginInspection, BeginFinish
<1>3. OthersKept
  BY <1>2, CoreFacts DEF OthersKept
<1>4. GuestRooms \subseteq Rooms
  BY DEF GuestRooms
<1>5. finishing' \subseteq Tasks /\ seen' \in [Tasks -> SUBSET Rooms]
  BY <1>2, <1>4, CoreFacts
<1>6. \A u \in finishing' \ finishing : u = t
  BY <1>2
<1>7. UNCHANGED task
  BY <1>2
<1> QED BY <1>1, <1>3, <1>5, <1>6, <1>7, TasksKept

LEMMA RollbackCore ==
    ASSUME Core, NEW t \in Tasks, Rollback(t)
    PROVE  Core'
<1>1. OthersKept
  BY CoreFacts DEF OthersKept, Rollback
<1>2. /\ finishing' \subseteq Tasks /\ finishing' \subseteq finishing
      /\ seen' \in [Tasks -> SUBSET Rooms]
      /\ UNCHANGED task
  BY CoreFacts DEF Rollback
<1> QED BY <1>1, <1>2, TasksKept

LEMMA TicketCore ==
    ASSUME Core, NEW k \in Tickets, TicketStep(k)
    PROVE  Core'
<1>1. CASE CompleteMaintenance(k)
  <2>1. OthersKept /\ UNCHANGED task /\ UNCHANGED reader
    BY <1>1, CoreFacts DEF OthersKept, CompleteMaintenance, vars, reader
  <2> QED BY <2>1, TasksKept, CoreFacts DEF reader
<1>2. CASE \E status \in TicketStatus :
              /\ SetTicket(k, status)
              /\ status \in {"Resolved", "Closed"} => ticket[k].status = "Resolved"
  <2>1. PICK status \in TicketStatus :
              /\ SetTicket(k, status)
              /\ status \in {"Resolved", "Closed"} => ticket[k].status = "Resolved"
    BY <1>2
  <2> DEFINE acked == ticket[k].acked \/ status \in {"Acknowledged", "In Progress"}
             new == [status |-> status, sale |-> ticket[k].sale, acked |-> acked]
  <2>2. ticket[k] \in TicketType
    BY CoreFacts
  <2>3. new \in TicketType /\ new.status = status
    BY <2>2 DEF TicketType
  <2>5. ticket' = [ticket EXCEPT ![k] = new]
    BY <2>1 DEF SetTicket
  <2>6. OthersKept
    <3> HIDE DEF new
    <3>1. ticket' \in [Tickets -> TicketType]
      BY <2>3, <2>5, CoreFacts
    <3>2. \A j \in Tickets : ticket'[j].status \in {"Resolved", "Closed"} =>
                                 ticket[j].status \in {"Resolved", "Closed"}
      BY <2>1, <2>3, <2>5, CoreFacts
    <3> QED BY <2>1, <3>1, <3>2, CoreFacts DEF OthersKept, SetTicket
  <2>7. UNCHANGED task /\ UNCHANGED reader
    BY <2>1 DEF SetTicket
  <2> QED BY <2>6, <2>7, TasksKept, CoreFacts DEF reader
<1>3. CASE Acknowledge(k)
  BY <1>2, <1>3 DEF Acknowledge, TicketStatus
<1>4. CASE AssignTicket(k)
  BY <1>2, <1>4 DEF AssignTicket, TicketStatus
<1>5. CASE StartTicket(k)
  BY <1>2, <1>5 DEF StartTicket, TicketStatus
<1>6. CASE PauseTicket(k)
  BY <1>2, <1>6 DEF PauseTicket, TicketStatus
<1>7. CASE CloseTicket(k)
  BY <1>2, <1>7 DEF CloseTicket, TicketStatus
<1> QED BY <1>1, <1>3, <1>4, <1>5, <1>6, <1>7 DEF TicketStep

LEMMA FrontDeskCore ==
    ASSUME Core, NEW m \in Rooms, FrontDeskStep(m)
    PROVE  Core'
<1>n. MaxGuests \in Nat
  BY OpsAssumption
<1>0. {"Available", "Occupied"} \subseteq Operational /\ {"Dirty", "Inspected"} \subseteq Housekeeping
  BY DEF Operational, Housekeeping
<1>1. CASE CheckIn(m)
  <2>1. room' \in [Rooms -> RoomType]
    BY <1>0, <1>1, CoreFacts, SetRoomType DEF CheckIn
  <2>3. guests[m] + 1 \in 0..MaxGuests
    <3>1. guests[m] \in 0..MaxGuests /\ guests[m] < MaxGuests
      BY <1>1, CoreFacts DEF CheckIn
    <3> QED BY <1>n, <3>1
  <2>4. guests' \in [Rooms -> 0..MaxGuests]
    BY <1>1, <2>3, CoreFacts DEF CheckIn
  <2>2. OthersKept
    BY <1>1, <2>1, <2>4, CoreFacts DEF OthersKept, CheckIn
  <2> QED BY <1>1, <2>2, TasksKept, CoreFacts DEF CheckIn, reader
<1>2. CASE Release(m)
  <2>1. room' \in [Rooms -> RoomType]
    BY <1>0, <1>2, CoreFacts, SetRoomType DEF Release
  <2>2. OthersKept
    BY <1>2, <2>1, CoreFacts DEF OthersKept, Release
  <2> QED BY <1>2, <2>2, TasksKept, CoreFacts DEF Release, reader
<1>3. ASSUME NEW t \in Tasks, CheckOut(m, t) PROVE Core'
  <2>1. room' \in [Rooms -> RoomType]
    BY <1>0, <1>3, CoreFacts, SetRoomType DEF CheckOut
  <2>3. guests[m] - 1 \in 0..MaxGuests
    <3>1. guests[m] \in 0..MaxGuests /\ guests[m] > 0
      BY <1>3, CoreFacts DEF CheckOut
    <3> QED BY <1>n, <3>1
  <2>4. guests' \in [Rooms -> 0..MaxGuests]
    BY <1>3, <2>3, CoreFacts DEF CheckOut
  <2>2. OthersKept
    BY <1>3, <2>1, <2>4, CoreFacts DEF OthersKept, CheckOut
  <2> QED BY <1>3, <2>2, EnsuredCore DEF CheckOut
<1>4. ASSUME NEW to \in Rooms, NEW t \in Tasks, MoveGuest(m, to, t) PROVE Core'
  <2>1. room' \in [Rooms -> RoomType]
    BY <1>0, <1>4, CoreFacts DEF MoveGuest, RoomType
  <2>2. guests' \in [Rooms -> 0..MaxGuests]
    <3>0. /\ guests[m] \in 0..MaxGuests /\ guests[m] > 0
          /\ guests[to] \in 0..MaxGuests /\ guests[to] < MaxGuests
          /\ m # to
      BY <1>4, CoreFacts DEF MoveGuest
    <3>1. guests[m] - 1 \in 0..MaxGuests /\ guests[to] + 1 \in 0..MaxGuests /\ m # to
      BY <1>n, <3>0
    <3>2. guests' = [guests EXCEPT ![m] = guests[m] - 1, ![to] = guests[to] + 1]
      BY <1>4, CoreFacts DEF MoveGuest
    <3> QED BY <3>1, <3>2, CoreFacts
  <2>3. OthersKept
    BY <1>4, <2>1, <2>2, CoreFacts DEF OthersKept, MoveGuest
  <2> QED BY <1>4, <2>3, EnsuredCore DEF MoveGuest
<1> QED BY <1>1, <1>2, <1>3, <1>4 DEF FrontDeskStep

LEMMA FinishCore ==
    ASSUME Core, NEW t \in Tasks, Finish(t)
    PROVE  Core'
<1> DEFINE new == [status |-> "Completed", rows |-> task[t].rows, ticket |-> task[t].ticket]
<1>0. task[t] \in TaskType
  BY CoreFacts
<1>1. new \in TaskType /\ new.ticket = task[t].ticket /\ new.rows = task[t].rows
      /\ new.status = "Completed"
  BY <1>0 DEF TaskType, TaskStatus
<1>2. task' = [task EXCEPT ![t] = new]
  <2>1. [task[t] EXCEPT !.status = "Completed"] = new
    BY <1>0, StatusUpdate DEF TaskStatus
  <2>2. task' = [task EXCEPT ![t].status = "Completed"]
    BY DEF Finish
  <2> HIDE DEF new
  <2> QED BY <2>1, <2>2
<1> HIDE DEF new
<1>3. task' \in [Tasks -> TaskType] /\ task'[t] = new /\ \A u \in Tasks \ {t} : task'[u] = task[u]
  BY <1>1, <1>2, CoreFacts
<1>4. \A k \in Tickets : ticket'[k] = IF k \in Returns(t)
                                     THEN [ticket[k] EXCEPT !.status = "Resolved"]
                                     ELSE ticket[k]
  BY DEF Finish
<1>5. \A k \in Tickets : [ticket[k] EXCEPT !.status = "Resolved"] \in TicketType
  BY CoreFacts DEF TicketType, TicketStatus
<1>6. TypeOK'
  <2>1. ticket' \in [Tickets -> TicketType]
    BY <1>5, CoreFacts DEF Finish
  <2>2. room' \in [Rooms -> RoomType]
    <3> DEFINE op == IF Returns(t) # {} THEN Expected(t) ELSE ""
    <3>1. op \in Operational \cup {""} /\ "Inspected" \in Housekeeping
      BY DEF Operational, Housekeeping, Expected
    <3>2. SetRoom(RoomOf[t], op, "Inspected")
      BY DEF Finish
    <3> HIDE DEF op
    <3> QED BY <3>1, <3>2, CoreFacts, SetRoomType
  <2>3. /\ guests' \in [Rooms -> 0..MaxGuests]
        /\ finishing' \subseteq Tasks
        /\ seen' \in [Tasks -> SUBSET Rooms]
    BY CoreFacts DEF Finish
  <2> QED BY <1>3, <2>1, <2>2, <2>3 DEF TypeOK, TaskType, TicketType, RoomType
<1>7. LinksOwn'
  BY <1>1, <1>3 DEF Core, LinksOwn
<1>8. FinishingChecked'
  <2> SUFFICES ASSUME NEW u \in finishing \ {t}
               PROVE  /\ task'[u].status \in {"In Progress", "Ready for Inspection"}
                      /\ \A i \in Items : task'[u].rows[i] = "OK"
    BY DEF FinishingChecked, Finish
  <2>1. task'[u] = task[u]
    BY <1>3, CoreFacts
  <2>2. /\ task[u].status \in {"In Progress", "Ready for Inspection"}
        /\ \A i \in Items : task[u].rows[i] = "OK"
    BY DEF Core, FinishingChecked
  <2> QED BY <2>1, <2>2
<1>9. FinishedIsChecked'
  <2> SUFFICES ASSUME NEW u \in Tasks,
                      task'[u].status \in {"Ready for Inspection", "Completed"}
               PROVE  \A i \in Items : task'[u].rows[i] = "OK"
    BY DEF FinishedIsChecked
  <2>1. CASE u = t
    <3>1. \A i \in Items : task[t].rows[i] = "OK"
      BY DEF Core, FinishingChecked, Finish
    <3> QED BY <1>1, <1>3, <2>1, <3>1
  <2>2. CASE u # t
    <3>1. task'[u] = task[u]
      BY <1>3, <2>2
    <3>2. FinishedIsChecked
      BY DEF Core
    <3> QED BY <3>1, <3>2 DEF FinishedIsChecked
  <2> QED BY <2>1, <2>2
<1> QED BY <1>6, <1>7, <1>8, <1>9 DEF Core

\* The invariant is inductive.
LEMMA NextCore == Core /\ [Next]_vars => Core'
<1> SUFFICES ASSUME Core, [Next]_vars PROVE Core'
  OBVIOUS
<1>1. ASSUME NEW t \in Tasks, TaskStep(t) PROVE Core'
  BY <1>1, ScheduleCore, AssignCore, StartResumeCore, PauseCore, ChecklistCore, ReportRowCore,
     CompleteCore, BeginCore, FailInspectionCore, FinishCore, RollbackCore DEF TaskStep
<1>2. ASSUME NEW k \in DeskTickets, NEW sale \in BOOLEAN, NEW fromTask \in BOOLEAN,
             Report(k, sale, fromTask)
      PROVE  Core'
  BY <1>2, ReportCore
<1>3. ASSUME NEW k \in Tickets, TicketStep(k) PROVE Core'
  BY <1>3, TicketCore
<1>4. ASSUME NEW m \in Rooms, FrontDeskStep(m) PROVE Core'
  BY <1>4, FrontDeskCore
<1>5. CASE UNCHANGED vars
  <2>1. OthersKept /\ UNCHANGED task /\ UNCHANGED reader
    BY <1>5, CoreFacts DEF vars, reader, OthersKept
  <2> QED BY <2>1, TasksKept, CoreFacts DEF reader
<1> QED BY <1>1, <1>2, <1>3, <1>4, <1>5 DEF Next

LEMMA CoreInvariant == Spec => []Core
<1> QED BY InitCore, NextCore, PTL DEF Spec

\* Type correctness of every reachable state.
THEOREM OpsTyped == Spec => []TypeOK
<1>1. Core => TypeOK
  BY DEF Core
<1> QED BY <1>1, CoreInvariant, PTL

\* However handlers interleave, a task is finished only with its checklist done: no row
\* turns bad between the check of complete_housekeeping_task and the commit.
THEOREM FinishedRoomsChecked == Spec => []FinishedIsChecked
<1>1. Core => FinishedIsChecked
  BY DEF Core
<1> QED BY <1>1, CoreInvariant, PTL

(* What the end of a cleaning resolves. *)

OwnTickets ==
    \A t \in Tasks, k \in Tasks \X Items :
        task'[t].status = "Completed" /\ task[t].status # "Completed" /\ ticket'[k] # ticket[k]
        => k[1] = t /\ task[t].rows[k[2]] = "OK"

\* The handler that has the room: the link of its task is a ticket of its checklist, and
\* the checklist is still as the handler has found it.
LEMMA FinishOwn ==
    ASSUME Core, NEW t \in Tasks, Finish(t)
    PROVE  OwnTickets
<1> SUFFICES ASSUME NEW u \in Tasks, NEW k \in Tasks \X Items,
                    task'[u].status = "Completed", task[u].status # "Completed",
                    ticket'[k] # ticket[k]
             PROVE  k[1] = u /\ task[u].rows[k[2]] = "OK"
  BY DEF OwnTickets
<1>1. u = t
  BY CoreFacts DEF Finish
<1>2. k \in Returns(t)
  BY DEF Finish, Tickets
<1>3. k \in {t} \X Items
  BY <1>2, OpsAssumption DEF Core, LinksOwn, Returns
<1>4. \A i \in Items : task[t].rows[i] = "OK"
  BY DEF Core, FinishingChecked, Finish
<1> QED BY <1>1, <1>3, <1>4

LEMMA NextOwn == Core /\ [Next]_vars => OwnTickets
<1> SUFFICES ASSUME Core, [Next]_vars PROVE OwnTickets
  OBVIOUS
<1>1. ASSUME NEW t \in Tasks, TaskStep(t) PROVE OwnTickets
  <2>1. CASE Finish(t)
    BY <2>1, FinishOwn
  <2>2. ASSUME NEW i \in Items, ReportRow(t, i) PROVE OwnTickets
    <3> DEFINE status == IF task[t].status = "In Progress" THEN "Waiting Engineering"
                         ELSE task[t].status
               new == [status |-> status, rows |-> [task[t].rows EXCEPT ![i] = "Reported"],
                       ticket |-> <<t, i>>]
    <3>1. task' = [task EXCEPT ![t] = new] /\ new.status # "Completed"
      BY <2>2 DEF ReportRow, Editable
    <3> HIDE DEF new
    <3> QED BY <3>1, CoreFacts DEF OwnTickets
  <2>3. CASE ~Finish(t) /\ ~ \E i \in Items : ReportRow(t, i)
    <3>1. UNCHANGED ticket
      BY <1>1, <2>3 DEF TaskStep, TurnoverTask, DailyTask, Assign, Start, Resume, Pause,
         UpdateChecklist, Complete, BeginComplete, BeginInspection, BeginFinish,
         FailInspection, Rollback
    <3> QED BY <3>1 DEF OwnTickets
  <2> QED BY <2>1, <2>2, <2>3
<1>2. ASSUME NEW k \in DeskTickets, NEW sale \in BOOLEAN, NEW fromTask \in BOOLEAN,
             Report(k, sale, fromTask)
      PROVE  OwnTickets
  BY <1>2 DEF Report, OwnTickets
<1>3. ASSUME NEW k \in Tickets, TicketStep(k) PROVE OwnTickets
  <2>1. UNCHANGED task
    BY <1>3 DEF TicketStep, Acknowledge, AssignTicket, StartTicket, PauseTicket,
                CompleteMaintenance, CloseTicket, SetTicket, vars
  <2> QED BY <2>1 DEF OwnTickets
<1>4. ASSUME NEW m \in Rooms, FrontDeskStep(m) PROVE OwnTickets
  BY <1>4 DEF FrontDeskStep, CheckIn, Release, CheckOut, MoveGuest, OwnTickets
<1>5. CASE UNCHANGED vars
  BY <1>5 DEF vars, OwnTickets
<1> QED BY <1>1, <1>2, <1>3, <1>4, <1>5 DEF Next

\* Whatever tickets a task was linked to before, and whatever others of the room or of the
\* desk are open, the end of a cleaning takes no ticket of another cleaning.
THEOREM TicketsResolvedByTask == Spec => ResolvedByItsTask
<1>1. Core /\ [Next]_vars => OwnTickets
  BY NextOwn
<1> QED BY <1>1, CoreInvariant, PTL DEF Spec, ResolvedByItsTask, OwnTickets
-----------------------------------------------------------------------------
(* What is over stays over. *)

Over == /\ \A t \in Tasks : task[t].status = "Completed" => task'[t] = task[t]
        /\ \A k \in Tickets :
             ticket[k].status \in {"Resolved", "Closed"} =>
                 ticket'[k].status \in {ticket[k].status, "Closed"}

\* A step that leaves the tickets and changes one task that is not completed.
LEMMA OneTaskOver ==
    ASSUME Core, NEW t \in Tasks, NEW new, task[t].status # "Completed",
           task' = [task EXCEPT ![t] = new], UNCHANGED ticket
    PROVE  Over
  BY CoreFacts DEF Over

\* ensure_housekeeping_task leaves all tasks that exist.
LEMMA EnsuredTasks ==
    ASSUME Core, NEW t \in Tasks, task' = Ensured(t)
    PROVE  \A u \in Tasks : \/ task'[u] = task[u]
                            \/ task[u].status = "None" /\ task'[u].status = "Open"
<1> SUFFICES ASSUME NEW u \in Tasks
             PROVE  \/ task'[u] = task[u]
                    \/ task[u].status = "None" /\ task'[u].status = "Open"
  OBVIOUS
<1> DEFINE status == IF task[t].status = "None" THEN "Open" ELSE task[t].status
           new == [status |-> status, rows |-> task[t].rows, ticket |-> task[t].ticket]
<1>1. task[t] \in TaskType /\ status \in TaskStatus
  BY CoreFacts DEF TaskType, TaskStatus
<1>2. task' = [task EXCEPT ![t].status = status]
  BY DEF Ensured
<1>3. [task[t] EXCEPT !.status = status] = new
  BY <1>1, StatusUpdate
<1>4. task' = [task EXCEPT ![t] = new]
  <2> HIDE DEF status, new
  <2> QED BY <1>2, <1>3
<1>5. CASE u # t
  <2> HIDE DEF new
  <2> QED BY <1>4, <1>5, CoreFacts
<1>6. CASE u = t
  <2>1. task'[u] = new
    <3> HIDE DEF new
    <3> QED BY <1>4, <1>6, CoreFacts
  <2>2. CASE task[t].status = "None"
    BY <1>6, <2>1, <2>2
  <2>3. CASE task[t].status # "None"
    <3>1. new = task[t]
      BY <1>1, <2>3 DEF TaskType
    <3> QED BY <1>6, <2>1, <3>1
  <2> QED BY <2>2, <2>3
<1> QED BY <1>5, <1>6

LEMMA OpenedOver ==
    ASSUME Core, NEW k \in Tickets, ticket[k].status = "None", NEW sale \in BOOLEAN,
           ticket' = Opened(k, sale)
    PROVE  \A j \in Tickets : ticket[j].status \in {"Resolved", "Closed"} => ticket'[j] = ticket[j]
  BY CoreFacts DEF Opened

LEMMA TaskOver ==
    ASSUME Core, NEW t \in Tasks, TaskStep(t)
    PROVE  Over
<1>1. CASE TurnoverTask(t) \/ DailyTask(t)
  <2>1. task' = Ensured(t) /\ UNCHANGED ticket
    BY <1>1 DEF TurnoverTask, DailyTask
  <2> QED BY <2>1, EnsuredTasks DEF Over
<1>2. CASE \/ Assign(t) \/ Start(t) \/ Resume(t) \/ \E waiting \in BOOLEAN : Pause(t, waiting)
           \/ Complete(t) \/ FailInspection(t)
  <2>1. PICK status : task' = [task EXCEPT ![t] = [task[t] EXCEPT !.status = status]]
    BY <1>2 DEF Assign, Start, Resume, Pause, Complete, FailInspection
  <2>2. task[t].status # "Completed" /\ UNCHANGED ticket
    BY <1>2 DEF Assign, Start, Resume, Pause, Complete, FailInspection
  <2> QED BY <2>1, <2>2, OneTaskOver
<1>3. ASSUME NEW i \in Items, NEW result \in Results, UpdateChecklist(t, i, result) PROVE Over
  <2>1. PICK new : task' = [task EXCEPT ![t] = new]
    BY <1>3 DEF UpdateChecklist
  <2>2. task[t].status # "Completed" /\ UNCHANGED ticket
    BY <1>3 DEF UpdateChecklist, Editable
  <2> QED BY <2>1, <2>2, OneTaskOver
<1>4. ASSUME NEW i \in Items, ReportRow(t, i) PROVE Over
  <2>1. PICK new : task' = [task EXCEPT ![t] = new]
    BY <1>4 DEF ReportRow
  <2>2. task[t].status # "Completed"
    BY <1>4 DEF ReportRow, Editable
  <2>3. \A j \in Tickets : ticket[j].status \in {"Resolved", "Closed"} => ticket'[j] = ticket[j]
    <3>1. /\ <<t, i>> \in Tickets /\ (i \in Critical) \in BOOLEAN
          /\ ticket[<<t, i>>].status = "None"
          /\ ticket' = Opened(<<t, i>>, i \in Critical)
      <4>1. <<t, i>> \in Tickets
        BY RowTickets
      <4>2. (i \in Critical) \in BOOLEAN
        OBVIOUS
      <4> QED BY <1>4, <4>1, <4>2 DEF ReportRow
    <3> QED BY <3>1, OpenedOver
  <2> QED BY <2>1, <2>2, <2>3, CoreFacts DEF Over
<1>5. CASE BeginComplete(t) \/ BeginInspection(t) \/ Rollback(t)
  BY <1>5 DEF BeginComplete, BeginInspection, BeginFinish, Rollback, Over
<1>6. CASE Finish(t)
  <2>1. PICK new : task' = [task EXCEPT ![t] = new]
    BY <1>6 DEF Finish
  <2>2. task[t].status # "Completed"
    BY <1>6 DEF Core, FinishingChecked, Finish
  <2>3. \A j \in Tickets : ticket[j].status \in {"Resolved", "Closed"} => ticket'[j] = ticket[j]
    BY <1>6 DEF Finish, Returns, Unresolved
  <2> QED BY <2>1, <2>2, <2>3, CoreFacts DEF Over
<1> QED BY <1>1, <1>2, <1>3, <1>4, <1>5, <1>6 DEF TaskStep

LEMMA NextOver == Core /\ [Next]_vars => Over
<1> SUFFICES ASSUME Core, [Next]_vars PROVE Over
  OBVIOUS
<1>1. ASSUME NEW t \in Tasks, TaskStep(t) PROVE Over
  BY <1>1, TaskOver
<1>2. ASSUME NEW k \in DeskTickets, NEW sale \in BOOLEAN, NEW fromTask \in BOOLEAN,
             Report(k, sale, fromTask)
      PROVE  Over
  <2>1. k \in Tickets
    BY DEF Tickets
  <2> QED BY <1>2, <2>1, OpenedOver DEF Report, Over
<1>3. ASSUME NEW k \in Tickets, TicketStep(k) PROVE Over
  <2>1. CASE CompleteMaintenance(k)
    BY <2>1 DEF CompleteMaintenance, vars, Over
  <2>2. CASE CloseTicket(k)
    BY <2>2, CoreFacts DEF CloseTicket, SetTicket, Over
  <2>3. CASE Acknowledge(k) \/ AssignTicket(k) \/ StartTicket(k) \/ PauseTicket(k)
    <3>1. /\ ticket[k].status \notin {"Resolved", "Closed"}
          /\ \E status \in TicketStatus : SetTicket(k, status)
      BY <2>3 DEF Acknowledge, AssignTicket, StartTicket, PauseTicket, Unresolved, TicketStatus
    <3> QED BY <3>1, CoreFacts DEF SetTicket, Over
  <2> QED BY <1>3, <2>1, <2>2, <2>3 DEF TicketStep
<1>4. ASSUME NEW m \in Rooms, FrontDeskStep(m) PROVE Over
  <2>1. CASE CheckIn(m) \/ Release(m)
    BY <2>1 DEF CheckIn, Release, Over
  <2>2. ASSUME NEW t \in Tasks, CheckOut(m, t) PROVE Over
    BY <2>2, EnsuredTasks DEF CheckOut, Over
  <2>3. ASSUME NEW to \in Rooms, NEW t \in Tasks, MoveGuest(m, to, t) PROVE Over
    BY <2>3, EnsuredTasks DEF MoveGuest, Over
  <2> QED BY <1>4, <2>1, <2>2, <2>3 DEF FrontDeskStep
<1>5. CASE UNCHANGED vars
  BY <1>5 DEF vars, Over
<1> QED BY <1>1, <1>2, <1>3, <1>4, <1>5 DEF Next

\* Nothing takes up a completed cleaning or a resolved repair again.
THEOREM OverStaysOver == Spec => OverIsOver
<1>1. Core /\ [Next]_vars => [Over]_vars
  BY NextOver
<1> QED BY <1>1, CoreInvariant, PTL DEF Spec, OverIsOver, Over
-----------------------------------------------------------------------------
(* A room that shows as ready has been finished. *)

\* A step that neither takes a task up nor makes a room ready.
LEMMA ReadyKept ==
    ASSUME Core, ReadyRoomsFinished, Over,
           \A u \in Tasks : Unfinished(u)' /\ room'[RoomOf[u]].hk \in Ready =>
                                Unfinished(u) /\ room[RoomOf[u]].hk \in Ready
    PROVE  ReadyRoomsFinished'
<1> SUFFICES ASSUME NEW u \in Tasks, Unfinished(u)', room'[RoomOf[u]].hk \in Ready
             PROVE  \E other \in Tasks \ {u} :
                        RoomOf[other] = RoomOf[u] /\ task'[other].status = "Completed"
  BY DEF ReadyRoomsFinished
<1>1. PICK other \in Tasks \ {u} :
          RoomOf[other] = RoomOf[u] /\ task[other].status = "Completed"
  BY DEF ReadyRoomsFinished
<1>2. task'[other].status = "Completed"
  BY <1>1 DEF Over
<1> QED BY <1>1, <1>2

\* set_room_status with a status that is not ready.
LEMMA BusyStatus ==
    ASSUME Core, NEW m \in Rooms, NEW op \in Operational \cup {""},
           NEW hk \in Housekeeping, hk \notin Ready, SetRoom(m, op, hk)
    PROVE  \A n \in Rooms : room'[n].hk \in Ready => n # m /\ room[n].hk \in Ready
<1>1. /\ "" \notin Housekeeping
      /\ hk \in Housekeeping \cup {""}
      /\ room \in [Rooms -> RoomType]
  BY CoreFacts DEF Housekeeping
<1>2. /\ room'[m].hk = IF hk = "" THEN room[m].hk ELSE hk
      /\ \A n \in Rooms \ {m} : room'[n] = room[n]
  BY <1>1, SetRoomType
<1> QED BY <1>1, <1>2

\* A handler that changes a task and says that its room is not ready.
LEMMA BusyRoom ==
    ASSUME Core, ReadyRoomsFinished, Over, NEW t \in Tasks, NEW new,
           NEW op \in Operational \cup {""}, NEW hk \in Housekeeping, hk \notin Ready,
           task' = [task EXCEPT ![t] = new], SetRoom(RoomOf[t], op, hk)
    PROVE  ReadyRoomsFinished'
<1>1. \A n \in Rooms : room'[n].hk \in Ready => n # RoomOf[t] /\ room[n].hk \in Ready
  BY CoreFacts, BusyStatus
<1> SUFFICES ASSUME NEW u \in Tasks, Unfinished(u)', room'[RoomOf[u]].hk \in Ready
             PROVE  Unfinished(u) /\ room[RoomOf[u]].hk \in Ready
  BY ReadyKept
<1>2. RoomOf[u] # RoomOf[t] /\ room[RoomOf[u]].hk \in Ready
  BY <1>1, CoreFacts
<1>3. task'[u] = task[u]
  BY <1>2, CoreFacts
<1> QED BY <1>2, <1>3 DEF Unfinished

LEMMA TaskReady ==
    ASSUME Core, ReadyRoomsFinished, Over, NEW t \in Tasks, TaskStep(t)
    PROVE  ReadyRoomsFinished'
<1>1. CASE TurnoverTask(t) \/ DailyTask(t)
  <2>1. task' = Ensured(t) /\ UNCHANGED room
    BY <1>1 DEF TurnoverTask, DailyTask
  <2> QED BY <2>1, EnsuredTasks, ReadyKept DEF Unfinished
<1>2. CASE \/ Assign(t) \/ Start(t) \/ Resume(t) \/ \E waiting \in BOOLEAN : Pause(t, waiting)
           \/ Complete(t) \/ FailInspection(t)
  <2>1. PICK status : task' = [task EXCEPT ![t] = [task[t] EXCEPT !.status = status]]
    BY <1>2 DEF Assign, Start, Resume, Pause, Complete, FailInspection
  <2>2. PICK hk \in {"Assigned", "Cleaning", "Waiting Engineering", "Ready for Inspection",
                     "Reclean Required"} :
            SetRoom(RoomOf[t], "", hk)
    BY <1>2 DEF Assign, Start, Resume, Pause, Complete, FailInspection
  <2>3. hk \in Housekeeping /\ hk \notin Ready
    BY <2>2 DEF Housekeeping, Ready
  <2> QED BY <2>1, <2>2, <2>3, BusyRoom
<1>3. ASSUME NEW i \in Items, NEW result \in Results, UpdateChecklist(t, i, result)
      PROVE  ReadyRoomsFinished'
  <2> SUFFICES ASSUME NEW u \in Tasks, Unfinished(u)', room'[RoomOf[u]].hk \in Ready
               PROVE  Unfinished(u) /\ room[RoomOf[u]].hk \in Ready
    BY ReadyKept
  <2> DEFINE rows == [task[t].rows EXCEPT ![i] = result]
             new == [status |-> task[t].status, rows |-> rows, ticket |-> task[t].ticket]
  <2>1. task' = [task EXCEPT ![t].rows = rows] /\ UNCHANGED room
    BY <1>3 DEF UpdateChecklist
  <2>2. [task[t] EXCEPT !.rows = rows] = new
    BY CoreFacts, RowUpdate
  <2>3. task' = [task EXCEPT ![t] = new]
    <3> HIDE DEF rows, new
    <3> QED BY <2>1, <2>2
  <2>4. new.status = task[t].status
    OBVIOUS
  <2>5. task'[u].status = task[u].status
    <3> HIDE DEF rows, new
    <3> QED BY <2>3, <2>4, CoreFacts
  <2> QED BY <2>1, <2>5 DEF Unfinished
<1>4. ASSUME NEW i \in Items, ReportRow(t, i) PROVE ReadyRoomsFinished'
  <2>1. PICK new : task' = [task EXCEPT ![t] = new]
    BY <1>4 DEF ReportRow
  <2>2. PICK op \in {"Out of Service", ""} : SetRoom(RoomOf[t], op, "Waiting Engineering")
    BY <1>4 DEF ReportRow
  <2>3. op \in Operational \cup {""} /\ "Waiting Engineering" \in Housekeeping
        /\ "Waiting Engineering" \notin Ready
    BY <2>2 DEF Operational, Housekeeping, Ready
  <2> QED BY <2>1, <2>2, <2>3, BusyRoom
<1>5. CASE BeginComplete(t) \/ BeginInspection(t) \/ Rollback(t)
  <2>1. UNCHANGED <<task, room>>
    BY <1>5 DEF BeginComplete, BeginInspection, BeginFinish, Rollback
  <2> QED BY <2>1, ReadyKept DEF Unfinished
<1>6. CASE Finish(t)
  <2> SUFFICES ASSUME NEW u \in Tasks, Unfinished(u)', room'[RoomOf[u]].hk \in Ready
               PROVE  \E other \in Tasks \ {u} :
                          RoomOf[other] = RoomOf[u] /\ task'[other].status = "Completed"
    BY DEF ReadyRoomsFinished
  <2>1. task' = [task EXCEPT ![t] = [task[t] EXCEPT !.status = "Completed"]]
    BY <1>6 DEF Finish
  <2>2. task'[t].status = "Completed"
    BY <2>1, CoreFacts DEF TaskType
  <2>3. u # t
    BY <2>2 DEF Unfinished
  <2>4. CASE RoomOf[u] = RoomOf[t]
    BY <2>2, <2>3, <2>4
  <2>5. CASE RoomOf[u] # RoomOf[t]
    <3>1. room'[RoomOf[u]] = room[RoomOf[u]]
      BY <1>6, <2>5, CoreFacts DEF Finish, SetRoom
    <3>2. task'[u] = task[u]
      BY <2>1, <2>3, CoreFacts
    <3>3. PICK other \in Tasks \ {u} :
              RoomOf[other] = RoomOf[u] /\ task[other].status = "Completed"
      BY <3>1, <3>2 DEF ReadyRoomsFinished, Unfinished
    <3> QED BY <3>3 DEF Over
  <2> QED BY <2>4, <2>5
<1> QED BY <1>1, <1>2, <1>3, <1>4, <1>5, <1>6 DEF TaskStep

\* A step that leaves the tasks and the housekeeping status of the rooms.
LEMMA SameReady ==
    ASSUME Core, ReadyRoomsFinished, Over, UNCHANGED task,
           \A m \in Rooms : room'[m].hk \in Ready => room[m].hk \in Ready
    PROVE  ReadyRoomsFinished'
  BY ReadyKept, CoreFacts DEF Unfinished

\* set_room_status that does not write a ready status.
LEMMA SetRoomReady ==
    ASSUME Core, NEW m \in Rooms, NEW op \in Operational \cup {""},
           NEW hk \in {"", "Dirty", "Waiting Engineering"}, SetRoom(m, op, hk)
    PROVE  \A n \in Rooms : room'[n].hk \in Ready => room[n].hk \in Ready
<1>1. hk \in Housekeeping \cup {""} /\ hk \notin Ready
  BY DEF Housekeeping, Ready
<1>2. room \in [Rooms -> RoomType]
  BY CoreFacts
<1>3. /\ room'[m].hk = IF hk = "" THEN room[m].hk ELSE hk
      /\ \A n \in Rooms \ {m} : room'[n] = room[n]
  BY <1>1, <1>2, SetRoomType
<1> QED BY <1>1, <1>3

LEMMA NextReady == Core /\ ReadyRoomsFinished /\ [Next]_vars => ReadyRoomsFinished'
<1> SUFFICES ASSUME Core, ReadyRoomsFinished, [Next]_vars PROVE ReadyRoomsFinished'
  OBVIOUS
<1>0. Over
  BY NextOver
<1>1. ASSUME NEW t \in Tasks, TaskStep(t) PROVE ReadyRoomsFinished'
  BY <1>0, <1>1, TaskReady
<1>2. ASSUME NEW k \in DeskTickets, NEW sale \in BOOLEAN, NEW fromTask \in BOOLEAN,
             Report(k, sale, fromTask)
      PROVE  ReadyRoomsFinished'
  <2>1. PICK op \in Operational \cup {""}, hk \in {"", "Waiting Engineering"} :
            SetRoom(TicketRoom(k), op, hk)
    BY <1>2 DEF Report, Operational
  <2>2. TicketRoom(k) \in Rooms
    BY TicketRooms DEF Tickets
  <2>3. \A n \in Rooms : room'[n].hk \in Ready => room[n].hk \in Ready
    BY <2>1, <2>2, SetRoomReady
  <2> QED BY <1>0, <1>2, <2>3, SameReady DEF Report
<1>3. ASSUME NEW k \in Tickets, TicketStep(k) PROVE ReadyRoomsFinished'
  <2>1. UNCHANGED <<task, room>>
    BY <1>3 DEF TicketStep, Acknowledge, AssignTicket, StartTicket, PauseTicket,
                CompleteMaintenance, CloseTicket, SetTicket, vars
  <2> QED BY <1>0, <2>1, SameReady
<1>4. ASSUME NEW m \in Rooms, FrontDeskStep(m) PROVE ReadyRoomsFinished'
  <2>0. {"Available", "Occupied"} \subseteq Operational
    BY DEF Operational
  <2>1. CASE CheckIn(m) \/ Release(m)
    <3>1. \A n \in Rooms : room'[n].hk \in Ready => room[n].hk \in Ready
      BY <2>0, <2>1, SetRoomReady DEF CheckIn, Release
    <3> QED BY <1>0, <2>1, <3>1, SameReady DEF CheckIn, Release
  <2>2. ASSUME NEW t \in Tasks, CheckOut(m, t) PROVE ReadyRoomsFinished'
    <3>1. \A n \in Rooms : room'[n].hk \in Ready => room[n].hk \in Ready
      BY <2>0, <2>2, SetRoomReady DEF CheckOut
    <3> QED BY <1>0, <2>2, <3>1, EnsuredTasks, ReadyKept, CoreFacts DEF CheckOut, Unfinished
  <2>3. ASSUME NEW to \in Rooms, NEW t \in Tasks, MoveGuest(m, to, t)
        PROVE  ReadyRoomsFinished'
    <3>1. \A n \in Rooms : room'[n].hk \in Ready => room[n].hk \in Ready
      BY <2>3, CoreFacts DEF MoveGuest, Ready
    <3> QED BY <1>0, <2>3, <3>1, EnsuredTasks, ReadyKept, CoreFacts DEF MoveGuest, Unfinished
  <2> QED BY <1>4, <2>1, <2>2, <2>3 DEF FrontDeskStep
<1>5. CASE UNCHANGED vars
  BY <1>0, <1>5, SameReady DEF vars
<1> QED BY <1>1, <1>2, <1>3, <1>4, <1>5 DEF Next

\* The front desk never sees a room as ready, while somebody cleans it, unless another
\* cleaning of the room has been finished.
THEOREM ReadyRoomsWereFinished == Spec => []ReadyRoomsFinished
<1>1. Init => ReadyRoomsFinished
  <2>1. Init => \A t \in Tasks : task[t].status = "None"
    BY DEF Init
  <2> QED BY <2>1 DEF ReadyRoomsFinished, Unfinished
<1> QED BY <1>1, NextReady, CoreInvariant, PTL DEF Spec
-----------------------------------------------------------------------------
(* No room is occupied by nobody. *)

\* A step that leaves the guests and shows no room as occupied that is empty.
LEMMA SameGuests ==
    ASSUME NoPhantomGuest, UNCHANGED guests,
           \A m \in Rooms : room'[m].op = "Occupied" => room[m].op = "Occupied" \/ guests[m] > 0
    PROVE  NoPhantomGuest'
  BY DEF NoPhantomGuest

\* set_room_status of a handler that checks nobody in.
LEMMA SetRoomEmpty ==
    ASSUME Core, NEW m \in Rooms, NEW op \in {"", "Available", "Out of Service"},
           NEW hk \in Housekeeping \cup {""}, SetRoom(m, op, hk)
    PROVE  \A n \in Rooms : room'[n].op = "Occupied" => room[n].op = "Occupied"
<1>1. op \in Operational \cup {""} /\ op # "Occupied"
  BY DEF Operational
<1>2. room \in [Rooms -> RoomType]
  BY CoreFacts
<1>3. /\ room'[m].op = IF op = "" THEN room[m].op ELSE op
      /\ \A n \in Rooms \ {m} : room'[n] = room[n]
  BY <1>1, <1>2, SetRoomType
<1> QED BY <1>1, <1>3

LEMMA TaskGuests ==
    ASSUME Core, NoPhantomGuest, RepeatableRead = FALSE, NEW t \in Tasks, TaskStep(t)
    PROVE  NoPhantomGuest'
<1>1. CASE TurnoverTask(t) \/ DailyTask(t) \/ BeginComplete(t) \/ BeginInspection(t) \/ Rollback(t)
  <2>1. UNCHANGED <<room, guests>>
    BY <1>1 DEF TurnoverTask, DailyTask, BeginComplete, BeginInspection, BeginFinish, Rollback
  <2> QED BY <2>1, SameGuests
<1>2. ASSUME NEW i \in Items, NEW result \in Results, UpdateChecklist(t, i, result)
      PROVE  NoPhantomGuest'
  BY <1>2, SameGuests DEF UpdateChecklist
<1>3. CASE \/ Assign(t) \/ Start(t) \/ Resume(t) \/ \E waiting \in BOOLEAN : Pause(t, waiting)
           \/ Complete(t) \/ FailInspection(t) \/ \E i \in Items : ReportRow(t, i)
  <2>1. PICK op \in {"", "Out of Service"},
             hk \in {"Assigned", "Cleaning", "Waiting Engineering", "Ready for Inspection",
                     "Reclean Required"} :
            SetRoom(RoomOf[t], op, hk)
    <3>1. CASE \E i \in Items : ReportRow(t, i)
      BY <3>1 DEF ReportRow
    <3>2. CASE ~ \E i \in Items : ReportRow(t, i)
      BY <1>3, <3>2 DEF Assign, Start, Resume, Pause, Complete, FailInspection
    <3> QED BY <3>1, <3>2
  <2>2. hk \in Housekeeping \cup {""} /\ RoomOf[t] \in Rooms
    BY <2>1, CoreFacts DEF Housekeeping
  <2>3. \A n \in Rooms : room'[n].op = "Occupied" => room[n].op = "Occupied"
    BY <2>1, <2>2, SetRoomEmpty
  <2>4. UNCHANGED guests
    BY <1>3 DEF Assign, Start, Resume, Pause, Complete, FailInspection, ReportRow
  <2> QED BY <2>3, <2>4, SameGuests
<1>4. CASE Finish(t)
  <2> DEFINE op == IF Returns(t) # {} THEN Expected(t) ELSE ""
  <2>1. SetRoom(RoomOf[t], op, "Inspected") /\ UNCHANGED guests
    BY <1>4 DEF Finish
  <2>2. /\ op \in Operational \cup {""}
        /\ "Inspected" \in Housekeeping \cup {""}
        /\ op = "Occupied" => guests[RoomOf[t]] > 0
    BY DEF Operational, Housekeeping, Expected, GuestRooms
  <2> HIDE DEF op
  <2>3. /\ room'[RoomOf[t]].op = IF op = "" THEN room[RoomOf[t]].op ELSE op
        /\ \A n \in Rooms \ {RoomOf[t]} : room'[n] = room[n]
    BY <2>1, <2>2, CoreFacts, SetRoomType
  <2> QED BY <2>1, <2>2, <2>3, SameGuests
<1> QED BY <1>1, <1>2, <1>3, <1>4 DEF TaskStep

LEMMA FrontDeskGuests ==
    ASSUME Core, NoPhantomGuest, NEW m \in Rooms, FrontDeskStep(m)
    PROVE  NoPhantomGuest'
<1>r. /\ room \in [Rooms -> RoomType]
      /\ guests \in [Rooms -> 0..MaxGuests] /\ MaxGuests \in Nat
  BY CoreFacts, OpsAssumption
<1>1. CASE CheckIn(m)
  <2>1. guests' = [guests EXCEPT ![m] = guests[m] + 1]
    BY <1>1 DEF CheckIn
  <2>2. guests'[m] > 0 /\ \A n \in Rooms \ {m} : guests'[n] = guests[n]
    BY <1>r, <2>1
  <2>3. \A n \in Rooms \ {m} : room'[n] = room[n]
    BY <1>1, <1>r DEF CheckIn, SetRoom
  <2> QED BY <2>2, <2>3 DEF NoPhantomGuest
<1>2. CASE Release(m)
  <2>1. \A n \in Rooms : room'[n].op = "Occupied" => room[n].op = "Occupied"
    BY <1>2, SetRoomEmpty DEF Release
  <2> QED BY <1>2, <2>1, SameGuests DEF Release
<1>3. ASSUME NEW t \in Tasks, CheckOut(m, t) PROVE NoPhantomGuest'
  <2>1. \A n \in Rooms \ {m} : guests'[n] = guests[n] /\ room'[n] = room[n]
    BY <1>3, <1>r DEF CheckOut, SetRoom
  <2>2. room'[m].op = "Available"
    <3>1. "Available" \in Operational \cup {""} /\ "Dirty" \in Housekeeping \cup {""}
      BY DEF Operational, Housekeeping
    <3> QED BY <1>3, <1>r, <3>1, SetRoomType DEF CheckOut
  <2> QED BY <2>1, <2>2 DEF NoPhantomGuest
<1>4. ASSUME NEW to \in Rooms, NEW t \in Tasks, MoveGuest(m, to, t) PROVE NoPhantomGuest'
  <2>1. m # to /\ guests' = [guests EXCEPT ![m] = guests[m] - 1, ![to] = guests[to] + 1]
    BY <1>4, <1>r DEF MoveGuest
  <2>2. guests'[to] > 0 /\ \A n \in Rooms \ {m, to} : guests'[n] = guests[n]
    BY <1>r, <2>1
  <2>3. room'[m].op = "Available" /\ \A n \in Rooms \ {m, to} : room'[n] = room[n]
    BY <1>4, <1>r DEF MoveGuest
  <2> QED BY <2>2, <2>3 DEF NoPhantomGuest
<1> QED BY <1>1, <1>2, <1>3, <1>4 DEF FrontDeskStep

LEMMA NextGuests ==
    RepeatableRead = FALSE /\ Core /\ NoPhantomGuest /\ [Next]_vars => NoPhantomGuest'
<1> SUFFICES ASSUME RepeatableRead = FALSE, Core, NoPhantomGuest, [Next]_vars
             PROVE  NoPhantomGuest'
  OBVIOUS
<1>1. ASSUME NEW t \in Tasks, TaskStep(t) PROVE NoPhantomGuest'
  BY <1>1, TaskGuests
<1>2. ASSUME NEW k \in DeskTickets, NEW sale \in BOOLEAN, NEW fromTask \in BOOLEAN,
             Report(k, sale, fromTask)
      PROVE  NoPhantomGuest'
  <2>1. PICK op \in {"", "Out of Service"}, hk \in {"", "Waiting Engineering"} :
            SetRoom(TicketRoom(k), op, hk)
    BY <1>2 DEF Report
  <2>2. hk \in Housekeeping \cup {""} /\ TicketRoom(k) \in Rooms
    BY <2>1, TicketRooms DEF Tickets, Housekeeping
  <2>3. \A n \in Rooms : room'[n].op = "Occupied" => room[n].op = "Occupied"
    BY <2>1, <2>2, SetRoomEmpty
  <2> QED BY <1>2, <2>3, SameGuests DEF Report
<1>3. ASSUME NEW k \in Tickets, TicketStep(k) PROVE NoPhantomGuest'
  <2>1. UNCHANGED <<room, guests>>
    BY <1>3 DEF TicketStep, Acknowledge, AssignTicket, StartTicket, PauseTicket,
                CompleteMaintenance, CloseTicket, SetTicket, vars
  <2> QED BY <2>1, SameGuests
<1>4. ASSUME NEW m \in Rooms, FrontDeskStep(m) PROVE NoPhantomGuest'
  BY <1>4, FrontDeskGuests
<1>5. CASE UNCHANGED vars
  BY <1>5, SameGuests DEF vars
<1> QED BY <1>1, <1>2, <1>3, <1>4, <1>5 DEF Next

\* If a handler sees what others have committed while it waited for the room, no room is
\* shown as occupied without a guest, in whatever order repairs, moves and stays end.
THEOREM NoRoomOccupiedByNobody ==
    ASSUME RepeatableRead = FALSE
    PROVE  Spec => []NoPhantomGuest
<1>1. Init => NoPhantomGuest
  <2>1. Init => \A m \in Rooms : room[m].op = "Available"
    BY DEF Init
  <2> QED BY <2>1 DEF NoPhantomGuest
<1>2. Core /\ NoPhantomGuest /\ [Next]_vars => NoPhantomGuest'
  BY NextGuests
<1> QED BY <1>1, <1>2, CoreInvariant, PTL DEF Spec
=============================================================================
