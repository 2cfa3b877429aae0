--------------------------- MODULE RestaurantProofs ---------------------------
(***************************************************************************)
(* Proofs about the restaurant, for any orders, tables, rows, kitchen      *)
(* units and splits: the types, the bills that are paid, the food that is  *)
(* issued, and what the kitchen knows.                                     *)
(***************************************************************************)
EXTENDS Restaurant, SumLemmas

OrderRow == [status : OrderStatus, table : Tables, complimentary : BOOLEAN,
             snapshot : [Rows -> Shots], revision : 0 .. MaxRevision,
             stock : {"Not Required", "Pending", "Reconciled"}]

ItemRow == [qty : 0 .. MaxQty, unit : Units \cup {"none"}, note : 0 .. 1, status : ItemStatus]

TableStates == {"Available", "Reserved", "Occupied", "In Kitchen", "Bill Requested", "Cleaning"}

TableRow == [active : Orders \cup {NoOrder}, cluster : Orders \cup {NoOrder}, status : TableStates]

BookingRow == [table : Tables,
               status : {"none", "Confirmed", "Seated", "Completed", "No Show", "Cancelled"}]

SplitRow == [state : {"none", "Draft", "Invoice Draft Created", "Submitted"},
             type : {"Cash", "Room Posting", "Complimentary"}, lines : [Rows -> 0 .. MaxQty],
             doc : {"none", "Draft", "Submitted", "Cancelled"},
             row : {"none", "invoice", "open", "folio"}]

OrdersTyped == order \in [Orders -> OrderRow]
ItemsTyped == item \in [Orders -> [Rows -> ItemRow]]
FloorTyped ==
  /\ table \in [Tables -> TableRow]
  /\ cluster \in [Orders -> SUBSET Tables]
  /\ booking \in [Bookings -> BookingRow]
SplitsTyped == split \in [Orders -> [Splits -> SplitRow]]
CopyRow == [status : OrderStatus, stock : {"Not Required", "Pending", "Reconciled"}]
CopiesTyped ==
  /\ copy \in [Orders -> CopyRow]
  /\ voiding \in [Orders -> [Splits -> OrderStatus \cup {"no"}]]

\* Everything but the kitchen tickets has its type.
RowsTyped ==
  /\ session \in {"none", "shift", "open", "closed"}
  /\ OrdersTyped /\ ItemsTyped /\ FloorTyped /\ SplitsTyped /\ CopiesTyped
  /\ alerts \subseteq Orders

(***************************************************************************)
(* Rows.                                                                   *)
(***************************************************************************)

LEMMA OrderUpdates ==
    ASSUME NEW s \in OrderRow
    PROVE  /\ \A x \in OrderStatus : [s EXCEPT !.status = x] \in OrderRow
           /\ \A x \in {"Not Required", "Pending", "Reconciled"} : [s EXCEPT !.stock = x] \in OrderRow
           /\ \A x \in [Rows -> Shots] : [s EXCEPT !.snapshot = x] \in OrderRow
           /\ \A x \in 0 .. MaxRevision : [s EXCEPT !.revision = x] \in OrderRow
           /\ \A x \in Tables : [s EXCEPT !.table = x] \in OrderRow
           /\ \A x \in BOOLEAN : [s EXCEPT !.complimentary = x] \in OrderRow
BY DEF OrderRow

LEMMA ItemUpdates ==
    ASSUME NEW i \in ItemRow, NEW x \in ItemStatus
    PROVE  [i EXCEPT !.status = x] \in ItemRow
BY DEF ItemRow

LEMMA ShotTyped ==
    ASSUME NEW i \in ItemRow
    PROVE  Shot(i) \in Shots
<1>1. 0 \in 0 .. MaxQty /\ 0 \in 0 .. 1
  BY RestaurantAssumption
<1>2. NoRow \in Shots
  BY <1>1 DEF NoRow, Shots
<1>3. /\ [qty |-> 0, unit |-> i.unit, note |-> i.note] \in Shots
      /\ [qty |-> i.qty, unit |-> i.unit, note |-> i.note] \in Shots
  BY <1>1 DEF ItemRow, Shots
<1> QED
  BY <1>2, <1>3 DEF Shot

LEMMA CurrentTyped ==
  ASSUME ItemsTyped, NEW o \in Orders PROVE Current(o) \in [Rows -> Shots]
BY ShotTyped DEF ItemsTyped, Current

LEMMA ServedTyped ==
  ASSUME NEW s \in OrderStatus, NEW S PROVE Served(s, S) \in OrderStatus
<1>2. "Served" \in OrderStatus /\ "Ready" \in OrderStatus
  BY DEF OrderStatus
<1> QED
  BY <1>2 DEF Served

LEMMA TableStatusTyped == \A s : TableStatus(s) \in TableStates
BY DEF TableStatus, TableStates

LEMMA OrdersInit == RestaurantInit => RowsTyped
<1> SUFFICES ASSUME RestaurantInit PROVE RowsTyped
  OBVIOUS
<1>0. 0 \in 0 .. MaxQty /\ 0 \in 0 .. MaxRevision /\ 0 \in 0 .. 1 /\ (CHOOSE t \in Tables : TRUE) \in Tables
  BY RestaurantAssumption
<1>1. [r \in Rows |-> NoRow] \in [Rows -> Shots]
  BY <1>0 DEF NoRow, Shots
<1>2. OrdersTyped
  BY <1>0, <1>1 DEF OrdersTyped, RestaurantInit, OrderRow, OrderStatus
<1>3. NoItem \in ItemRow
  BY <1>0 DEF NoItem, ItemRow, ItemStatus
<1>4. ItemsTyped
  BY <1>3 DEF ItemsTyped, RestaurantInit
<1>5. [active |-> NoOrder, cluster |-> NoOrder, status |-> "Available"] \in TableRow
  BY DEF TableRow, TableStates
<1>6. FloorTyped
  BY <1>0, <1>5 DEF FloorTyped, RestaurantInit, BookingRow
<1>7. NoSplit \in SplitRow
  BY <1>0 DEF NoSplit, SplitRow
<1>8. SplitsTyped
  BY <1>7 DEF SplitsTyped, RestaurantInit
<1>9. CopiesTyped
  BY DEF CopiesTyped, CopyRow, NoCopy, OrderStatus, RestaurantInit
<1> QED
  BY <1>2, <1>4, <1>6, <1>8, <1>9 DEF RowsTyped, RestaurantInit

(* The table of an order is set. *)
LEMMA SetTableTyped ==
    ASSUME OrdersTyped, FloorTyped, NEW o \in Orders, NEW s \in TableStates, SetTable(o, s)
    PROVE  table' \in [Tables -> TableRow]
<1>1. order[o].table \in Tables
  BY DEF OrdersTyped, OrderRow
<1> QED
  BY <1>1 DEF SetTable, FloorTyped, TableRow

LEMMA ReleasedTyped ==
    ASSUME NEW o \in Orders, NEW tt \in [Tables -> TableRow]
    PROVE  Released(o, tt) \in [Tables -> TableRow]
<1>1. [active |-> NoOrder, cluster |-> NoOrder, status |-> "Cleaning"] \in TableRow
  BY DEF TableRow, TableStates
<1> QED
  BY <1>1 DEF Released

LEMMA LeftTyped ==
    ASSUME OrdersTyped, FloorTyped, NEW o \in Orders, NEW s \in TableStates
    PROVE  Left(o, s) \in [Tables -> TableRow]
<1> DEFINE tt == [table EXCEPT ![order[o].table].active = NoOrder, ![order[o].table].status = s]
<1>1. order[o].table \in Tables
  BY DEF OrdersTyped, OrderRow
<1>2. tt \in [Tables -> TableRow]
  BY <1>1 DEF FloorTyped, TableRow
<1>3. Left(o, s) = Released(o, tt)
  BY DEF Left
<1> HIDE DEF tt
<1> QED
  BY <1>2, <1>3, ReleasedTyped

LEMMA SessionKeepsRows ==
  ASSUME RowsTyped, SessionNext PROVE RowsTyped'
BY DEF SessionNext, OpenShift, LinkPosOpening, LinkPosClosing, RowsTyped, OrdersTyped, ItemsTyped,
       FloorTyped, SplitsTyped, CopiesTyped, aside

(* What a handler leaves alone keeps its type. *)
LEMMA OrdersKept ==
  ASSUME OrdersTyped, UNCHANGED order PROVE OrdersTyped'
BY DEF OrdersTyped
LEMMA ItemsKept ==
  ASSUME ItemsTyped, UNCHANGED item PROVE ItemsTyped'
BY DEF ItemsTyped
LEMMA SplitsKept ==
  ASSUME SplitsTyped, UNCHANGED split PROVE SplitsTyped'
BY DEF SplitsTyped
LEMMA FloorKept ==
  ASSUME FloorTyped, UNCHANGED <<table, cluster, booking>> PROVE FloorTyped'
BY DEF FloorTyped
LEMMA CopiesKept ==
  ASSUME CopiesTyped, UNCHANGED aside PROVE CopiesTyped'
BY DEF CopiesTyped, aside

(* A save drops the copy of its order; what it may write is typed. *)
LEMMA CopiesDropped ==
  ASSUME CopiesTyped, NEW o \in Orders, Saved(o) PROVE CopiesTyped'
<1>1. NoCopy \in CopyRow
  BY DEF NoCopy, CopyRow, OrderStatus
<1> QED
  BY <1>1 DEF CopiesTyped, Saved

LEMMA LoadedTyped ==
  ASSUME OrdersTyped, CopiesTyped, NEW o \in Orders PROVE Loaded(o) \subseteq CopyRow
<1>1. order[o] \in OrderRow /\ copy[o] \in CopyRow
  BY DEF OrdersTyped, CopiesTyped
<1>2. [status |-> order[o].status, stock |-> order[o].stock] \in CopyRow
  BY <1>1 DEF OrderRow, CopyRow
<1> QED
  BY <1>1, <1>2 DEF Loaded

LEMMA WrittenTyped ==
  ASSUME OrdersTyped, NEW o \in Orders, NEW s \in OrderStatus,
         NEW x \in {"Not Required", "Pending", "Reconciled"},
         order' = [order EXCEPT ![o].status = s, ![o].stock = x]
  PROVE  OrdersTyped'
<1> DEFINE row == [order[o] EXCEPT !.status = s, !.stock = x]
<1>1. row \in OrderRow
  BY DEF OrdersTyped, OrderRow
<1>2. order' = [order EXCEPT ![o] = row]
  BY DEF OrdersTyped
<1> HIDE DEF row
<1> QED
  BY <1>1, <1>2 DEF OrdersTyped

LEMMA NewItemsTyped ==
  ASSUME ItemsTyped, NEW o \in Orders, NEW n \in NewItems,
                              item' = [item EXCEPT ![o] = n]
                       PROVE  ItemsTyped'
<1>1. PICK q \in [Rows -> 0 .. MaxQty], u \in Units :
        n = [r \in Rows |-> IF q[r] = 0 THEN NoItem
                            ELSE [qty |-> q[r], unit |-> u, note |-> 0, status |-> "Ordered"]]
  BY DEF NewItems
<1>2. 0 \in 0 .. MaxQty /\ 0 \in 0 .. 1
  BY RestaurantAssumption
<1>3. ASSUME NEW r \in Rows PROVE n[r] \in ItemRow
  BY <1>1, <1>2 DEF NoItem, ItemRow, ItemStatus
<1>4. n \in [Rows -> ItemRow]
  BY <1>1, <1>3
<1> QED
  BY <1>4 DEF ItemsTyped

LEMMA StatusTyped ==
    ASSUME OrdersTyped, NEW o \in Orders, NEW s \in OrderStatus,
           order' = [order EXCEPT ![o].status = s]
    PROVE  OrdersTyped'
<1>1. [order[o] EXCEPT !.status = s] \in OrderRow
  BY OrderUpdates DEF OrdersTyped
<1>2. order' = [order EXCEPT ![o] = [order[o] EXCEPT !.status = s]]
  BY DEF OrdersTyped
<1> QED
  BY <1>1, <1>2 DEF OrdersTyped

LEMMA FloorKeepsRows ==
  ASSUME RowsTyped, FloorNext PROVE RowsTyped'
<1> USE DEF RowsTyped
<1>1. ASSUME NEW o \in Orders, NEW t \in Tables, NEW s \in {"Confirmed", "Pending Confirmation"},
             NEW c \in BOOLEAN, CreateOrder(o, t, s, c)
      PROVE  RowsTyped'
  <2>1. OrdersTyped'
    <3> DEFINE row == [order[o] EXCEPT !.status = s, !.table = t, !.complimentary = c]
    <3>1. row \in OrderRow
      BY DEF OrdersTyped, OrderRow, OrderStatus
    <3>2. order' = [order EXCEPT ![o] = row]
      BY <1>1 DEF CreateOrder, OrdersTyped
    <3> HIDE DEF row
    <3> QED
      BY <3>1, <3>2 DEF OrdersTyped
  <2>2. ItemsTyped'
    BY <1>1, NewItemsTyped DEF CreateOrder
  <2>3. FloorTyped'
    BY <1>1 DEF CreateOrder, FloorTyped, TableRow, TableStates
  <2> QED
    BY <1>1, <2>1, <2>2, <2>3, SplitsKept, CopiesKept, CopiesDropped DEF CreateOrder
<1>2. ASSUME NEW o \in Orders, NEW t \in Tables, DraftOrder(o, t) PROVE RowsTyped'
  <2>1. OrdersTyped'
    <3> DEFINE row == [order[o] EXCEPT !.status = "Draft", !.table = t]
    <3>1. row \in OrderRow
      BY DEF OrdersTyped, OrderRow, OrderStatus
    <3>2. order' = [order EXCEPT ![o] = row]
      BY <1>2 DEF DraftOrder, OrdersTyped
    <3> HIDE DEF row
    <3> QED
      BY <3>1, <3>2 DEF OrdersTyped
  <2>2. ItemsTyped'
    BY <1>2, NewItemsTyped DEF DraftOrder
  <2> QED
    BY <1>2, <2>1, <2>2, SplitsKept, CopiesKept, CopiesDropped, FloorKept DEF DraftOrder
<1>3. ASSUME NEW o \in Orders, ConfirmOrder(o) PROVE RowsTyped'
  <2>1. OrdersTyped'
    BY <1>3, StatusTyped DEF ConfirmOrder, OrderStatus
  <2>2. FloorTyped'
    BY <1>3, SetTableTyped, TableStatusTyped DEF ConfirmOrder, FloorTyped
  <2> QED
    BY <1>3, <2>1, <2>2, SplitsKept, CopiesKept, CopiesDropped, ItemsKept DEF ConfirmOrder
<1>4. ASSUME NEW o \in Orders, RequestBill(o) PROVE RowsTyped'
  <2>1. OrdersTyped'
    BY <1>4, StatusTyped DEF RequestBill, OrderStatus
  <2>2. FloorTyped'
    BY <1>4, SetTableTyped DEF RequestBill, FloorTyped, TableStates
  <2> QED
    BY <1>4, <2>1, <2>2, SplitsKept, CopiesKept, CopiesDropped, ItemsKept DEF RequestBill
<1>5. ASSUME NEW o \in Orders, CancelOrder(o) PROVE RowsTyped'
  <2>1. OrdersTyped'
    BY <1>5, StatusTyped DEF CancelOrder, OrderStatus
  <2>2. ItemsTyped'
    <3> DEFINE row(r) == IF item[o][r].status = "none" THEN item[o][r]
                         ELSE [item[o][r] EXCEPT !.status = "Cancelled"]
    <3>1. \A r \in Rows : row(r) \in ItemRow
      <4>1. "Cancelled" \in ItemStatus /\ \A r \in Rows : item[o][r] \in ItemRow
        BY DEF ItemsTyped, ItemStatus
      <4> QED
        BY <4>1, ItemUpdates
    <3>2. item' = [item EXCEPT ![o] = [r \in Rows |-> row(r)]]
      BY <1>5 DEF CancelOrder, ItemsTyped
    <3> HIDE DEF row
    <3> QED
      BY <3>1, <3>2 DEF ItemsTyped
  <2>3. FloorTyped'
    <3>1. table' \in [Tables -> TableRow]
      BY <1>5, LeftTyped DEF CancelOrder, TableStates
    <3> QED
      BY <1>5, <3>1 DEF CancelOrder, FloorTyped
  <2> QED
    BY <1>5, <2>1, <2>2, <2>3, SplitsKept, CopiesKept, CopiesDropped DEF CancelOrder
<1>6. ASSUME NEW o \in Orders, NEW r \in Rows, EditItem(o, r) PROVE RowsTyped'
  <2>1. PICK q \in 0 .. MaxQty, u \in Units, n \in 0 .. 1 :
          item' = [item EXCEPT ![o][r] =
            IF q = 0 THEN NoItem
            ELSE [qty |-> q, unit |-> u, note |-> n,
                  status |-> IF item[o][r].status = "none" THEN "Ordered" ELSE item[o][r].status]]
    BY <1>6 DEF EditItem, ItemsTyped
  <2>2. item[o][r].status \in ItemStatus /\ "Ordered" \in ItemStatus
    BY DEF ItemsTyped, ItemRow, ItemStatus
  <2>3. NoItem \in ItemRow
    BY RestaurantAssumption DEF NoItem, ItemRow, ItemStatus
  <2>4. ItemsTyped'
    BY <2>1, <2>2, <2>3 DEF ItemsTyped, ItemRow
  <2>5. OrdersTyped'
    <3>1. PICK w \in Loaded(o) :
            order' = [order EXCEPT ![o].status = w.status, ![o].stock = w.stock]
      BY <1>6 DEF EditItem
    <3>2. w.status \in OrderStatus /\ w.stock \in {"Not Required", "Pending", "Reconciled"}
      BY LoadedTyped DEF CopyRow
    <3> QED
      BY <3>1, <3>2, WrittenTyped
  <2> QED
    BY <1>6, <2>4, <2>5, SplitsKept, CopiesDropped, FloorKept DEF EditItem
<1>7. ASSUME NEW o \in Orders, LoadOrder(o) PROVE RowsTyped'
  <2>1. [status |-> order[o].status, stock |-> order[o].stock] \in CopyRow
    BY DEF OrdersTyped, OrderRow, CopyRow
  <2>2. CopiesTyped'
    BY <1>7, <2>1 DEF LoadOrder, CopiesTyped
  <2> QED
    BY <1>7, <2>2, OrdersKept, ItemsKept, FloorKept, SplitsKept DEF LoadOrder
<1> QED
  BY <1>1, <1>2, <1>3, <1>4, <1>5, <1>6, <1>7 DEF FloorNext

LEMMA TableKeepsRows ==
  ASSUME RowsTyped, TableNext PROVE RowsTyped'
<1> USE DEF RowsTyped
<1>1. ASSUME NEW o \in Orders, NEW T \in SUBSET Tables, MergeTables(o, T) PROVE RowsTyped'
  <2>1. order[o].table \in Tables
    BY DEF OrdersTyped, OrderRow
  <2>2. T \cup {order[o].table} \in SUBSET Tables
    BY <2>1
  <2>3. [active |-> o, cluster |-> o, status |-> "Occupied"] \in TableRow
    BY DEF TableRow, TableStates
  <2>4. FloorTyped'
    BY <1>1, <2>2, <2>3 DEF MergeTables, FloorTyped
  <2> QED
    BY <1>1, <2>4, OrdersKept, SplitsKept, CopiesKept, CopiesDropped, ItemsKept DEF MergeTables
<1>2. ASSUME NEW o \in Orders, ReleaseCluster(o) PROVE RowsTyped'
  <2>1. FloorTyped'
    BY <1>2, ReleasedTyped DEF ReleaseCluster, FloorTyped
  <2> QED
    BY <1>2, <2>1, OrdersKept, SplitsKept, CopiesKept, CopiesDropped, ItemsKept DEF ReleaseCluster
<1>3. ASSUME NEW t \in Tables, CleanTable(t) PROVE RowsTyped'
  <2>1. FloorTyped'
    BY <1>3 DEF CleanTable, FloorTyped, TableRow, TableStates
  <2> QED
    BY <1>3, <2>1, OrdersKept, SplitsKept, CopiesKept, CopiesDropped, ItemsKept DEF CleanTable
<1>4. ASSUME NEW b \in Bookings, NEW t \in Tables, BookTable(b, t) PROVE RowsTyped'
  <2>1. FloorTyped'
    BY <1>4 DEF BookTable, FloorTyped, BookingRow
  <2> QED
    BY <1>4, <2>1, OrdersKept, SplitsKept, CopiesKept, CopiesDropped, ItemsKept DEF BookTable
<1>5. ASSUME NEW b \in Bookings, NEW s \in {"Confirmed", "Seated", "Completed", "No Show", "Cancelled"},
             UpdateBooking(b, s)
      PROVE  RowsTyped'
  <2> DEFINE t == booking[b].table
             x == CASE s = "Seated" -> "Occupied"
                    [] s \in {"Completed", "No Show", "Cancelled"} /\ table[t].active = NoOrder -> "Available"
                    [] OTHER -> "Reserved"
  <2>1. t \in Tables
    BY DEF FloorTyped, BookingRow
  <2>2. x \in TableStates
    BY DEF TableStates
  <2>3. table' = [table EXCEPT ![t].status = x] /\ booking' = [booking EXCEPT ![b].status = s]
    BY <1>5 DEF UpdateBooking
  <2>4. cluster' = cluster
    BY <1>5 DEF UpdateBooking
  <2> HIDE DEF t, x
  <2>5. FloorTyped'
    BY <2>1, <2>2, <2>3, <2>4 DEF FloorTyped, TableRow, BookingRow
  <2> QED
    BY <1>5, <2>5, OrdersKept, SplitsKept, CopiesKept, CopiesDropped, ItemsKept DEF UpdateBooking
<1> QED
  BY <1>1, <1>2, <1>3, <1>4, <1>5 DEF TableNext

LEMMA KitchenKeepsRows ==
  ASSUME RowsTyped, KitchenNext PROVE RowsTyped'
<1> USE DEF RowsTyped
<1>1. ASSUME NEW o \in Orders, SyncKitchen(o) PROVE RowsTyped'
  <2> DEFINE row == [order[o] EXCEPT !.status = "In Kitchen", !.revision = order[o].revision + 1,
                                     !.snapshot = Current(o)]
             new(r) == IF item[o][r].status = "Ordered" /\ item[o][r].qty > 0
                       THEN [item[o][r] EXCEPT !.status = "Sent"] ELSE item[o][r]
  <2>1. order[o].revision + 1 \in 0 .. MaxRevision
    <3>1. order[o].revision \in 0 .. MaxRevision
      BY DEF OrdersTyped, OrderRow
    <3>2. order[o].revision + 1 <= MaxRevision
      BY <1>1 DEF SyncKitchen
    <3> QED
      BY <3>1, <3>2, RestaurantAssumption
  <2>2. row \in OrderRow
    <3>1. order[o] \in OrderRow /\ "In Kitchen" \in OrderStatus /\ Current(o) \in [Rows -> Shots]
      BY CurrentTyped DEF OrdersTyped, OrderStatus
    <3> QED
      BY <2>1, <3>1 DEF OrderRow
  <2>3. order' = [order EXCEPT ![o] = row]
    BY <1>1 DEF SyncKitchen, OrdersTyped
  <2>4. \A r \in Rows : new(r) \in ItemRow
    <3>1. "Sent" \in ItemStatus /\ \A r \in Rows : item[o][r] \in ItemRow
      BY DEF ItemsTyped, ItemStatus
    <3> QED
      BY <3>1, ItemUpdates
  <2>5. item' = [item EXCEPT ![o] = [r \in Rows |-> new(r)]]
    BY <1>1 DEF SyncKitchen, ItemsTyped
  <2>6. SetTable(o, "In Kitchen") /\ "In Kitchen" \in TableStates
    BY <1>1 DEF SyncKitchen, TableStates
  <2>7. table' \in [Tables -> TableRow]
    BY <2>6, SetTableTyped
  <2>8. UNCHANGED <<session, cluster, booking, split, alerts>> /\ Saved(o)
    BY <1>1 DEF SyncKitchen
  <2> HIDE DEF row, new
  <2>9. OrdersTyped' /\ ItemsTyped'
    BY <2>2, <2>3, <2>4, <2>5 DEF OrdersTyped, ItemsTyped
  <2>10. FloorTyped'
    BY <2>7, <2>8 DEF FloorTyped
  <2> QED
    BY <2>8, <2>9, <2>10, SplitsKept, CopiesKept, CopiesDropped
<1>2. ASSUME NEW o \in Orders, SyncSilent(o) PROVE RowsTyped'
  <2>1. [order[o] EXCEPT !.snapshot = Current(o)] \in OrderRow
    BY CurrentTyped, OrderUpdates DEF OrdersTyped
  <2>2. order' = [order EXCEPT ![o] = [order[o] EXCEPT !.snapshot = Current(o)]]
    BY <1>2 DEF SyncSilent, OrdersTyped
  <2>3. OrdersTyped'
    BY <2>1, <2>2 DEF OrdersTyped
  <2> QED
    BY <1>2, <2>3, ItemsKept, FloorKept, SplitsKept, CopiesKept, CopiesDropped DEF SyncSilent
<1>3. ASSUME NEW o \in Orders, NEW k \in ticket[o],
             AcceptTicket(o, k) \/ StartTicket(o, k) \/ RecallTicket(o, k)
      PROVE  RowsTyped'
  <2>1. UNCHANGED <<session, order, item, table, cluster, booking, split, alerts, aside>>
    BY <1>3 DEF AcceptTicket, StartTicket, RecallTicket
  <2> QED
    BY <2>1, OrdersKept, ItemsKept, FloorKept, SplitsKept, CopiesKept, CopiesDropped
<1>4. ASSUME NEW o \in Orders, NEW k \in ticket[o], NEW r \in DOMAIN k.items,
             NEW s \in {"Cooking", "Ready", "Served", "Cancelled"}, UpdateItem(o, k, r, s)
      PROVE  RowsTyped'
  <2> DEFINE x == IF s = "Cooking" THEN "Preparing" ELSE s
             rows == IF item[o][r].status = "none" THEN item[o]
                     ELSE [item[o] EXCEPT ![r].status = x]
             live == {rows[q].status : q \in Rows} \ {"none", "Cancelled"}
  <2>1. PICK w \in Loaded(o) :
           /\ order' = [order EXCEPT ![o].status = Served(w.status, live), ![o].stock = w.stock]
           /\ SetTable(o, TableStatus(Served(w.status, live)))
    BY <1>4 DEF UpdateItem
  <2>7. /\ item' = [item EXCEPT ![o] = rows]
        /\ UNCHANGED <<session, cluster, booking, split, alerts>> /\ Saved(o)
    BY <1>4 DEF UpdateItem
  <2>2. rows \in [Rows -> ItemRow]
    <3>1. x \in ItemStatus /\ item[o] \in [Rows -> ItemRow]
      BY DEF ItemStatus, ItemsTyped
    <3>2. \A q \in Rows : item[o][q] \in ItemRow /\ [item[o][q] EXCEPT !.status = x] \in ItemRow
      BY <3>1, ItemUpdates
    <3> HIDE DEF x
    <3>3. CASE item[o][r].status = "none"
      BY <3>1, <3>3
    <3>4. CASE item[o][r].status # "none"
      <4>1. rows = [q \in Rows |-> IF q = r THEN [item[o][q] EXCEPT !.status = x] ELSE item[o][q]]
        BY <3>1, <3>4
      <4> QED
        BY <3>2, <4>1
    <3> QED
      BY <3>3, <3>4
  <2> HIDE DEF rows
  <2>3. ItemsTyped'
    BY <2>7, <2>2 DEF ItemsTyped
  <2> HIDE DEF live
  <2>4. Served(w.status, live) \in OrderStatus /\ w.stock \in {"Not Required", "Pending", "Reconciled"}
    BY ServedTyped, LoadedTyped DEF CopyRow
  <2>5. OrdersTyped'
    BY <2>1, <2>4, WrittenTyped
  <2>6. FloorTyped'
    BY <2>1, <2>7, SetTableTyped, TableStatusTyped DEF FloorTyped
  <2> QED
    BY <2>7, <2>3, <2>5, <2>6, SplitsKept, CopiesKept, CopiesDropped
<1> QED
  BY <1>1, <1>2, <1>3, <1>4 DEF KitchenNext

LEMMA StockStepTyped ==
    ASSUME OrdersTyped, NEW o \in Orders, NEW x \in {"Not Required", "Pending", "Reconciled"},
           order' = [order EXCEPT ![o].stock = x]
    PROVE  OrdersTyped'
<1>1. [order[o] EXCEPT !.stock = x] \in OrderRow
  BY OrderUpdates DEF OrdersTyped
<1>2. order' = [order EXCEPT ![o] = [order[o] EXCEPT !.stock = x]]
  BY DEF OrdersTyped
<1> QED
  BY <1>1, <1>2 DEF OrdersTyped

LEMMA RecipeKeepsRows ==
  ASSUME RowsTyped, RecipeNext PROVE RowsTyped'
<1> USE DEF RowsTyped
<1>1. ASSUME NEW o \in Orders, NEW k, NEW new, NEW refresh, StockStep(o, k, new, refresh)
      PROVE  RowsTyped'
  <2> DEFINE x == IF refresh THEN Stock((ticket[o] \ {k}) \cup {new}) ELSE order[o].stock
  <2>1. x \in {"Not Required", "Pending", "Reconciled"}
    BY DEF OrdersTyped, OrderRow, Stock
  <2>2. order' = [order EXCEPT ![o].stock = x]
    BY <1>1 DEF StockStep, OrdersTyped
  <2> HIDE DEF x
  <2>3. OrdersTyped'
    BY <2>1, <2>2, StockStepTyped
  <2> QED
    BY <1>1, <2>3, ItemsKept, FloorKept, SplitsKept, CopiesKept, CopiesDropped DEF StockStep
<1>2. ASSUME NEW o \in Orders, NEW k, EntryCancelled(o, k) PROVE RowsTyped'
  <2>1. OrdersTyped'
    BY <1>2, StockStepTyped DEF EntryCancelled
  <2> QED
    BY <1>2, <2>1, ItemsKept, FloorKept, SplitsKept, CopiesKept, CopiesDropped DEF EntryCancelled
<1> QED
  BY <1>1, <1>2, Zenon
     DEF RecipeNext, PostRecipe, PostRecipeFails, SubmitRecipeFails, LoseRecipeJob, EntrySubmitted

LEMMA NewSplitTyped ==
    /\ NoSplit \in SplitRow
    /\ \A x \in {"Cash", "Room Posting", "Complimentary"}, y \in [Rows -> 0 .. MaxQty] :
         [NoSplit EXCEPT !.state = "Draft", !.type = x, !.lines = y] \in SplitRow
<1> DEFINE zero == [r \in Rows |-> 0]
<1>1. zero \in [Rows -> 0 .. MaxQty]
  BY RestaurantAssumption
<1>2. NoSplit = [state |-> "none", type |-> "Cash", lines |-> zero, doc |-> "none", row |-> "none"]
  BY DEF NoSplit
<1> HIDE DEF zero
<1> QED
  BY <1>1, <1>2 DEF SplitRow

LEMMA SplitTyped ==
    ASSUME SplitsTyped, NEW o \in Orders, NEW s \in Splits, NEW x \in SplitRow,
           split' = [split EXCEPT ![o][s] = x]
    PROVE  SplitsTyped'
BY DEF SplitsTyped

LEMMA BillKeepsRows ==
  ASSUME RowsTyped, BillNext PROVE RowsTyped'
<1> USE DEF RowsTyped
<1>1. ASSUME NEW o \in Orders, NEW S \in (SUBSET Splits) \ {{}},
             NEW types \in [S -> {"Cash", "Room Posting", "Complimentary"}], CreateSplits(o, types, S)
      PROVE  RowsTyped'
  <2>1. PICK lines \in Shares(o, S) : split' = [split EXCEPT ![o] = [s \in Splits |->
       IF s \in S THEN [NoSplit EXCEPT !.state = "Draft", !.type = types[s], !.lines = lines[s]]
       ELSE NoSplit]]
    BY <1>1 DEF CreateSplits
  <2>2. NoSplit \in SplitRow
    BY NewSplitTyped
  <2>3. lines \in [S -> [Rows -> 0 .. MaxQty]]
    BY DEF Shares
  <2>4. ASSUME NEW s \in S
        PROVE  [NoSplit EXCEPT !.state = "Draft", !.type = types[s], !.lines = lines[s]] \in SplitRow
    <3>1. types[s] \in {"Cash", "Room Posting", "Complimentary"} /\ lines[s] \in [Rows -> 0 .. MaxQty]
      BY <2>3
    <3> QED
      BY <3>1, NewSplitTyped
  <2>5. SplitsTyped'
    BY <2>1, <2>2, <2>4 DEF SplitsTyped
  <2> QED
    BY <1>1, <2>5, ItemsKept, FloorKept, OrdersKept, CopiesKept DEF CreateSplits
<1>2. ASSUME NEW o \in Orders, NEW s \in Splits, NEW submit \in BOOLEAN, CreateInvoice(o, s, submit)
      PROVE  RowsTyped'
  <2>1. SplitsTyped'
    <3> DEFINE x == [split[o][s] EXCEPT !.doc = IF submit THEN "Submitted" ELSE "Draft",
                  !.state = IF submit THEN "Submitted" ELSE "Invoice Draft Created",
                  !.row = IF split[o][s].type = "Room Posting" /\ @ = "none" THEN "invoice" ELSE @]
    <3>1. x \in SplitRow
      <4>1. split[o][s] \in SplitRow
        BY DEF SplitsTyped
      <4> QED
        BY <4>1 DEF SplitRow
    <3>2. split' = [split EXCEPT ![o][s] = x]
      BY <1>2 DEF CreateInvoice, SplitsTyped
    <3> HIDE DEF x
    <3> QED
      BY <3>1, <3>2, SplitTyped
  <2> QED
    BY <1>2, <2>1, ItemsKept, FloorKept, OrdersKept, CopiesKept DEF CreateInvoice
<1>3. ASSUME NEW o \in Orders, NEW s \in Splits, SettleComplimentary(o, s) PROVE RowsTyped'
  <2>1. SplitsTyped'
    <3> DEFINE x == [split[o][s] EXCEPT !.state = "Submitted"]
    <3>1. x \in SplitRow
      <4>1. split[o][s] \in SplitRow
        BY DEF SplitsTyped
      <4> QED
        BY <4>1 DEF SplitRow
    <3>2. split' = [split EXCEPT ![o][s] = x]
      BY <1>3 DEF SettleComplimentary, SplitsTyped
    <3> HIDE DEF x
    <3> QED
      BY <3>1, <3>2, SplitTyped
  <2> QED
    BY <1>3, <2>1, ItemsKept, FloorKept, OrdersKept, CopiesKept DEF SettleComplimentary
<1>4. ASSUME NEW o \in Orders, NEW s \in Splits, SubmitInvoice(o, s) PROVE RowsTyped'
  <2>1. SplitsTyped'
    <3> DEFINE x == [split[o][s] EXCEPT !.doc = "Submitted", !.state = "Submitted"]
    <3>1. x \in SplitRow
      <4>1. split[o][s] \in SplitRow
        BY DEF SplitsTyped
      <4> QED
        BY <4>1 DEF SplitRow
    <3>2. split' = [split EXCEPT ![o][s] = x]
      BY <1>4 DEF SubmitInvoice, SplitsTyped
    <3> HIDE DEF x
    <3> QED
      BY <3>1, <3>2, SplitTyped
  <2> QED
    BY <1>4, <2>1, ItemsKept, FloorKept, OrdersKept, CopiesKept DEF SubmitInvoice
<1>5. ASSUME NEW o \in Orders, NEW s \in Splits, CancelInvoice(o, s) PROVE RowsTyped'
  <2> DEFINE st == IF voiding[o][s] = "Billed" THEN "Bill Requested" ELSE order[o].status
  <2>1. SplitsTyped'
    <3> DEFINE x == [split[o][s] EXCEPT !.doc = "Cancelled", !.state = "Draft",
                                      !.row = IF @ = "invoice" THEN "open" ELSE @]
    <3>1. x \in SplitRow
      <4>1. split[o][s] \in SplitRow
        BY DEF SplitsTyped
      <4> QED
        BY <4>1 DEF SplitRow
    <3>2. split' = [split EXCEPT ![o][s] = x]
      BY <1>5 DEF CancelInvoice, SplitsTyped
    <3> HIDE DEF x
    <3> QED
      BY <3>1, <3>2, SplitTyped
  <2>2. st \in OrderStatus
    BY DEF OrdersTyped, OrderRow, OrderStatus
  <2>3. order' = [order EXCEPT ![o].status = st]
    BY <1>5 DEF CancelInvoice, OrdersTyped
  <2> HIDE DEF st
  <2>4. OrdersTyped'
    BY <2>2, <2>3, StatusTyped
  <2>5. CopiesTyped'
    BY <1>5 DEF CancelInvoice, CopiesTyped
  <2> QED
    BY <1>5, <2>1, <2>4, <2>5, ItemsKept, FloorKept DEF CancelInvoice
<1>6. ASSUME NEW o \in Orders, NEW s \in Splits, FolioBillsRow(o, s) PROVE RowsTyped'
  <2>1. SplitsTyped'
    <3> DEFINE x == [split[o][s] EXCEPT !.row = "folio"]
    <3>1. x \in SplitRow
      <4>1. split[o][s] \in SplitRow
        BY DEF SplitsTyped
      <4> QED
        BY <4>1 DEF SplitRow
    <3>2. split' = [split EXCEPT ![o][s] = x]
      BY <1>6 DEF FolioBillsRow, SplitsTyped
    <3> HIDE DEF x
    <3> QED
      BY <3>1, <3>2, SplitTyped
  <2> QED
    BY <1>6, <2>1, ItemsKept, FloorKept, OrdersKept, CopiesKept DEF FolioBillsRow
<1>7. ASSUME NEW o \in Orders, CompleteOrder(o) PROVE RowsTyped'
  <2> DEFINE row == [order[o] EXCEPT !.status = "Billed",
                                     !.stock = IF RecipePosting THEN "Reconciled" ELSE "Not Required"]
  <2>1. row \in OrderRow
    BY DEF OrdersTyped, OrderRow, OrderStatus
  <2>2. order' = [order EXCEPT ![o] = row]
    BY <1>7 DEF CompleteOrder, OrdersTyped
  <2> HIDE DEF row
  <2>3. OrdersTyped'
    BY <2>1, <2>2 DEF OrdersTyped
  <2>4. table' \in [Tables -> TableRow]
    BY <1>7, LeftTyped DEF CompleteOrder, TableStates
  <2>5. FloorTyped'
    BY <1>7, <2>4 DEF CompleteOrder, FloorTyped
  <2> QED
    BY <1>7, <2>3, <2>5, ItemsKept, SplitsKept, CopiesKept, CopiesDropped DEF CompleteOrder
<1>8. ASSUME NEW o \in Orders, NEW s \in Splits, AskForCancel(o, s) PROVE RowsTyped'
  <2>1. order[o].status \in OrderStatus
    BY DEF OrdersTyped, OrderRow
  <2>2. CopiesTyped'
    BY <1>8, <2>1 DEF AskForCancel, CopiesTyped
  <2> QED
    BY <1>8, <2>2, ItemsKept, FloorKept, OrdersKept, SplitsKept DEF AskForCancel
<1>9. ASSUME NEW o \in Orders, NEW s \in Splits,
             NEW type \in {"Cash", "Room Posting", "Complimentary"}, EditSplit(o, s, type)
      PROVE  RowsTyped'
  <2>1. SplitsTyped'
    <3> DEFINE x == [split[o][s] EXCEPT !.type = type]
    <3>1. x \in SplitRow
      <4>1. split[o][s] \in SplitRow
        BY DEF SplitsTyped
      <4> QED
        BY <4>1 DEF SplitRow
    <3>2. split' = [split EXCEPT ![o][s] = x]
      BY <1>9 DEF EditSplit, SplitsTyped
    <3> HIDE DEF x
    <3> QED
      BY <3>1, <3>2, SplitTyped
  <2> QED
    BY <1>9, <2>1, ItemsKept, FloorKept, OrdersKept, CopiesKept DEF EditSplit
<1> QED
  BY <1>1, <1>2, <1>3, <1>4, <1>5, <1>6, <1>7, <1>8, <1>9 DEF BillNext

LEMMA RowsStep == RowsTyped /\ [RestaurantNext]_restaurantVars => RowsTyped'
<1>1. ASSUME RowsTyped, Monitor PROVE RowsTyped'
  BY <1>1, OrdersKept, ItemsKept, FloorKept, SplitsKept, CopiesKept DEF Monitor, RowsTyped
<1>2. ASSUME RowsTyped, UNCHANGED restaurantVars PROVE RowsTyped'
  BY <1>2, OrdersKept, ItemsKept, FloorKept, SplitsKept, CopiesKept DEF restaurantVars, aside, RowsTyped
<1> QED
  BY <1>1, <1>2, SessionKeepsRows, FloorKeepsRows, TableKeepsRows, KitchenKeepsRows, RecipeKeepsRows,
     BillKeepsRows DEF RestaurantNext

(***************************************************************************)
(* Bills.                                                                  *)
(***************************************************************************)

(* Only complete_restaurant_order and an old copy of a billed order make an order billed. *)
LEMMA HowToBill ==
    ASSUME RowsTyped, [RestaurantNext]_restaurantVars, NEW o \in Orders, order'[o].status = "Billed"
    PROVE  order[o].status = "Billed" \/ CompleteOrder(o) \/ OldCopySaved(o)
<1>0. order \in [Orders -> OrderRow]
  BY DEF RowsTyped, OrdersTyped
<1>1. ASSUME NEW p \in Orders, NEW x, x # "Billed",
             \/ order' = [order EXCEPT ![p].status = x]
             \/ order' = order
      PROVE  order[o].status = "Billed"
  BY <1>0, <1>1 DEF OrderRow
<1>w. ASSUME NEW p \in Orders, NEW c \in Loaded(p), NEW x \in {c.status, "Served", "Ready"},
             order' = [order EXCEPT ![p].status = x, ![p].stock = c.stock]
      PROVE  order[o].status = "Billed" \/ OldCopySaved(o)
  <2>1. CASE p # o
    BY <1>0, <1>w, <2>1
  <2>2. CASE p = o
    <3>1. x = "Billed" /\ c.status = "Billed"
      BY <1>0, <1>w, <2>2 DEF OrderRow
    <3>2. c = [status |-> order[o].status, stock |-> order[o].stock] \/ c = copy[o]
      BY <2>2 DEF Loaded
    <3> QED
      BY <3>1, <3>2 DEF OldCopySaved
  <2> QED
    BY <2>1, <2>2
<1>2. ASSUME SessionNext \/ TableNext \/ Monitor \/ UNCHANGED restaurantVars
      PROVE  order' = order
  BY <1>2 DEF SessionNext, OpenShift, LinkPosOpening, LinkPosClosing, TableNext, MergeTables,
              ReleaseCluster, CleanTable, BookTable, UpdateBooking, Monitor, restaurantVars
<1>3. ASSUME FloorNext PROVE order[o].status = "Billed" \/ OldCopySaved(o)
  <2>1. ASSUME NEW p \in Orders, NEW t \in Tables, NEW x \in {"Confirmed", "Pending Confirmation"},
               NEW c \in BOOLEAN, CreateOrder(p, t, x, c)
        PROVE  order[o].status = "Billed"
    BY <1>0, <2>1 DEF CreateOrder, OrderRow
  <2>2. ASSUME NEW p \in Orders, NEW t \in Tables, DraftOrder(p, t)
        PROVE  order[o].status = "Billed"
    BY <1>0, <2>2 DEF DraftOrder, OrderRow
  <2>3. ASSUME NEW p \in Orders, ConfirmOrder(p) \/ RequestBill(p) \/ CancelOrder(p) \/ LoadOrder(p)
        PROVE  order[o].status = "Billed"
    BY <1>1, <2>3 DEF ConfirmOrder, RequestBill, CancelOrder, LoadOrder
  <2>4. ASSUME NEW p \in Orders, NEW r \in Rows, EditItem(p, r)
        PROVE  order[o].status = "Billed" \/ OldCopySaved(o)
    <3>1. PICK c \in Loaded(p) : order' = [order EXCEPT ![p].status = c.status, ![p].stock = c.stock]
      BY <2>4 DEF EditItem
    <3> QED
      BY <1>w, <3>1
  <2> QED
    BY <1>3, <2>1, <2>2, <2>3, <2>4 DEF FloorNext
<1>4. ASSUME KitchenNext PROVE order[o].status = "Billed" \/ OldCopySaved(o)
  <2>1. ASSUME NEW p \in Orders, SyncKitchen(p) \/ SyncSilent(p) PROVE order[o].status = "Billed"
    BY <1>0, <2>1 DEF SyncKitchen, SyncSilent, OrderRow
  <2>2. ASSUME NEW p \in Orders, NEW k, AcceptTicket(p, k) \/ StartTicket(p, k) \/ RecallTicket(p, k)
        PROVE  order' = order
    BY <2>2 DEF AcceptTicket, StartTicket, RecallTicket
  <2>3. ASSUME NEW p \in Orders, NEW k, NEW r, NEW x, UpdateItem(p, k, r, x)
        PROVE  order[o].status = "Billed" \/ OldCopySaved(o)
    <3>1. \E c \in Loaded(p) : \E live :
            order' = [order EXCEPT ![p].status = Served(c.status, live), ![p].stock = c.stock]
      BY <2>3 DEF UpdateItem
    <3>2. PICK c \in Loaded(p) : \E live :
            order' = [order EXCEPT ![p].status = Served(c.status, live), ![p].stock = c.stock]
      BY <3>1
    <3>3. PICK live : order' = [order EXCEPT ![p].status = Served(c.status, live), ![p].stock = c.stock]
      BY <3>2
    <3>4. Served(c.status, live) \in {c.status, "Served", "Ready"}
      BY DEF Served
    <3> QED
      BY <1>w, <3>3, <3>4
  <2> QED
    BY <1>4, <2>1, <2>2, <2>3 DEF KitchenNext
<1>5. ASSUME RecipeNext PROVE order[o].status = "Billed"
  <2>1. ASSUME NEW p \in Orders, NEW x, order' = [order EXCEPT ![p].stock = x]
        PROVE  order[o].status = "Billed"
    BY <1>0, <2>1 DEF OrderRow
  <2>2. ASSUME NEW p \in Orders, NEW k, NEW new, NEW refresh, StockStep(p, k, new, refresh)
        PROVE  order[o].status = "Billed"
    <3>1. \E x : order' = [order EXCEPT ![p].stock = x]
      BY <2>2 DEF StockStep
    <3> QED
      BY <2>1, <3>1
  <2>3. ASSUME NEW p \in Orders, NEW k, EntryCancelled(p, k) PROVE order[o].status = "Billed"
    BY <2>1, <2>3 DEF EntryCancelled
  <2> QED
    BY <1>5, <2>2, <2>3, Zenon
       DEF RecipeNext, PostRecipe, PostRecipeFails, SubmitRecipeFails, LoseRecipeJob, EntrySubmitted
<1>6. ASSUME BillNext, ~ CompleteOrder(o) PROVE order[o].status = "Billed"
  <2>1. ASSUME NEW p \in Orders, NEW S, NEW types, CreateSplits(p, types, S)
        PROVE  order' = order
    BY <2>1 DEF CreateSplits
  <2>2. ASSUME NEW p \in Orders, NEW z \in Splits,
               \/ \E submit \in BOOLEAN : CreateInvoice(p, z, submit)
               \/ SettleComplimentary(p, z) \/ SubmitInvoice(p, z) \/ FolioBillsRow(p, z)
               \/ AskForCancel(p, z) \/ \E type : EditSplit(p, z, type)
        PROVE  order' = order
    BY <2>2 DEF CreateInvoice, SettleComplimentary, SubmitInvoice, FolioBillsRow, AskForCancel, EditSplit
  <2>3. ASSUME NEW p \in Orders, NEW z \in Splits, CancelInvoice(p, z)
        PROVE  order[o].status = "Billed"
    BY <1>0, <2>3 DEF CancelInvoice, OrderRow
  <2>4. ASSUME NEW p \in Orders, CompleteOrder(p) PROVE order[o].status = "Billed"
    <3>1. p # o
      BY <1>6, <2>4
    <3> QED
      BY <1>0, <2>4, <3>1 DEF CompleteOrder
  <2> QED
    BY <1>6, <2>1, <2>2, <2>3, <2>4 DEF BillNext
<1> QED
  BY <1>2, <1>3, <1>4, <1>5, <1>6 DEF RestaurantNext

(* What is paid stays paid as long as the order stays billed, but for a cancellation that
   did not find it billed and a change of the kind of settlement. *)
LEMMA PaidKept ==
    ASSUME RowsTyped, [RestaurantNext]_restaurantVars, NEW o \in Orders, Paid(o),
           order[o].status = "Billed", order'[o].status = "Billed"
    PROVE  Paid(o)' \/ CancelledUnseen(o) \/ SettledAnew(o)
<1>0. /\ split \in [Orders -> [Splits -> SplitRow]] /\ order \in [Orders -> OrderRow]
      /\ voiding \in [Orders -> [Splits -> OrderStatus \cup {"no"}]]
  BY DEF RowsTyped, OrdersTyped, SplitsTyped, CopiesTyped
<1>1. ASSUME split'[o] = split[o] PROVE Paid(o)'
  BY <1>1 DEF Paid, ActiveSplits
<1>2. ASSUME ~ BillNext PROVE split' = split
  <2>1. CASE SessionNext \/ Monitor \/ UNCHANGED restaurantVars
    BY <2>1 DEF SessionNext, OpenShift, LinkPosOpening, LinkPosClosing, Monitor, restaurantVars
  <2>2. CASE TableNext
    <3>1. ASSUME NEW p, NEW T, MergeTables(p, T) \/ ReleaseCluster(p) PROVE split' = split
      BY <3>1 DEF MergeTables, ReleaseCluster
    <3>2. ASSUME NEW b, NEW t, NEW x, CleanTable(t) \/ BookTable(b, t) \/ UpdateBooking(b, x)
          PROVE  split' = split
      BY <3>2 DEF CleanTable, BookTable, UpdateBooking
    <3> QED
      BY <2>2, <3>1, <3>2 DEF TableNext
  <2>3. CASE FloorNext
    <3>1. ASSUME NEW p, NEW t, NEW x, NEW c, CreateOrder(p, t, x, c) \/ DraftOrder(p, t)
          PROVE  split' = split
      BY <3>1 DEF CreateOrder, DraftOrder
    <3>2. ASSUME NEW p, NEW r,
                 \/ ConfirmOrder(p) \/ RequestBill(p) \/ CancelOrder(p) \/ LoadOrder(p)
                 \/ EditItem(p, r)
          PROVE  split' = split
      BY <3>2 DEF ConfirmOrder, RequestBill, CancelOrder, LoadOrder, EditItem
    <3> QED
      BY <2>3, <3>1, <3>2 DEF FloorNext
  <2>4. CASE KitchenNext
    <3>1. ASSUME NEW p \in Orders, NEW k, NEW r, NEW x,
                 \/ SyncKitchen(p) \/ SyncSilent(p) \/ AcceptTicket(p, k) \/ StartTicket(p, k)
                 \/ RecallTicket(p, k) \/ UpdateItem(p, k, r, x)
          PROVE  split' = split
      BY <3>1 DEF SyncKitchen, SyncSilent, AcceptTicket, StartTicket, RecallTicket, UpdateItem
    <3> QED
      BY <2>4, <3>1 DEF KitchenNext
  <2>5. CASE RecipeNext
    <3>1. ASSUME NEW p, NEW k, NEW new, NEW refresh, StockStep(p, k, new, refresh) PROVE split' = split
      BY <3>1 DEF StockStep
    <3>2. ASSUME NEW p, NEW k, EntryCancelled(p, k) PROVE split' = split
      BY <3>2 DEF EntryCancelled
    <3> QED
      BY <2>5, <3>1, <3>2, Zenon
         DEF RecipeNext, PostRecipe, PostRecipeFails, SubmitRecipeFails, LoseRecipeJob, EntrySubmitted
  <2> QED
    BY <1>2, <2>1, <2>2, <2>3, <2>4, <2>5 DEF RestaurantNext
<1>5. ASSUME BillNext PROVE Paid(o)' \/ CancelledUnseen(o) \/ SettledAnew(o)
  <2>1. ASSUME NEW p \in Orders, NEW S, NEW types, CreateSplits(p, types, S) PROVE Paid(o)'
    <3>1. p # o
      BY <2>1 DEF CreateSplits
    <3>2. split'[o] = split[o]
      BY <1>0, <2>1, <3>1 DEF CreateSplits
    <3> QED
      BY <1>1, <3>2
  <2>2. ASSUME NEW p \in Orders, NEW z \in Splits, NEW submit \in BOOLEAN, CreateInvoice(p, z, submit)
        PROVE  Paid(o)'
    <3>1. p # o
      BY <2>2 DEF CreateInvoice, Paid, ActiveSplits
    <3>2. split'[o] = split[o]
      BY <1>0, <2>2, <3>1 DEF CreateInvoice
    <3> QED
      BY <1>1, <3>2
  <2>3. ASSUME NEW p \in Orders, NEW z \in Splits, NEW row,
               split' = [split EXCEPT ![p][z] = row], row.type = split[p][z].type,
               split[p][z].state # "none" => row.state # "none",
               row.state # "none" =>
                 row.doc = "Submitted" \/ (row.doc = split[p][z].doc /\ split[p][z].state # "none")
        PROVE  Paid(o)'
    <3>1. \A s \in Splits :
            /\ split[o][s].state # "none" => split'[o][s].state # "none"
            /\ split'[o][s].type = split[o][s].type
            /\ split'[o][s].state # "none" =>
                 \/ split'[o][s].doc = "Submitted"
                 \/ split'[o][s].doc = split[o][s].doc /\ split[o][s].state # "none"
      BY <1>0, <2>3
    <3> QED
      BY <3>1 DEF Paid, ActiveSplits
  <2>4. ASSUME NEW p \in Orders, NEW z \in Splits, SettleComplimentary(p, z) PROVE Paid(o)'
    <3> DEFINE row == [split[p][z] EXCEPT !.state = "Submitted"]
    <3>1. split[p][z] \in SplitRow
      BY <1>0
    <3>2. /\ row.type = split[p][z].type /\ row.state # "none"
          /\ row.doc = split[p][z].doc /\ split[p][z].state # "none"
      BY <2>4, <3>1 DEF SettleComplimentary, SplitRow
    <3>3. split' = [split EXCEPT ![p][z] = row]
      BY <1>0, <2>4 DEF SettleComplimentary
    <3> HIDE DEF row
    <3> QED
      BY <2>3, <3>2, <3>3
  <2>5. ASSUME NEW p \in Orders, NEW z \in Splits, SubmitInvoice(p, z) PROVE Paid(o)'
    <3> DEFINE row == [split[p][z] EXCEPT !.doc = "Submitted", !.state = "Submitted"]
    <3>1. split[p][z] \in SplitRow
      BY <1>0
    <3>2. row.type = split[p][z].type /\ row.state # "none" /\ row.doc = "Submitted"
      BY <3>1 DEF SplitRow
    <3>3. split' = [split EXCEPT ![p][z] = row]
      BY <1>0, <2>5 DEF SubmitInvoice
    <3> HIDE DEF row
    <3> QED
      BY <2>3, <3>2, <3>3
  <2>6. ASSUME NEW p \in Orders, NEW z \in Splits, FolioBillsRow(p, z) PROVE Paid(o)'
    <3> DEFINE row == [split[p][z] EXCEPT !.row = "folio"]
    <3>1. split[p][z] \in SplitRow
      BY <1>0
    <3>2. /\ row.type = split[p][z].type /\ row.state = split[p][z].state
          /\ row.doc = split[p][z].doc
      BY <3>1 DEF SplitRow
    <3>3. split' = [split EXCEPT ![p][z] = row]
      BY <1>0, <2>6 DEF FolioBillsRow
    <3> HIDE DEF row
    <3> QED
      BY <2>3, <3>2, <3>3
  <2>7. ASSUME NEW p \in Orders, NEW z \in Splits, CancelInvoice(p, z)
        PROVE  Paid(o)' \/ CancelledUnseen(o)
    <3>1. CASE p # o
      <4>1. split'[o] = split[o]
        BY <1>0, <2>7, <3>1 DEF CancelInvoice
      <4> QED
        BY <1>1, <4>1
    <3>2. CASE p = o
      <4>1. voiding[o][z] # "no" /\ voiding'[o][z] = "no"
        BY <1>0, <2>7, <3>2 DEF CancelInvoice
      <4>2. voiding[o][z] # "Billed"
        BY <1>0, <2>7, <3>2 DEF CancelInvoice, OrderRow
      <4> QED
        BY <4>1, <4>2 DEF CancelledUnseen
    <3> QED
      BY <3>1, <3>2
  <2>8. ASSUME NEW p \in Orders, NEW z, CompleteOrder(p) \/ AskForCancel(p, z) PROVE split' = split
    BY <2>8 DEF CompleteOrder, AskForCancel
  <2>9. ASSUME NEW p \in Orders, NEW z \in Splits, NEW type, EditSplit(p, z, type)
        PROVE  Paid(o)' \/ SettledAnew(o)
    <3>1. CASE p # o
      <4>1. split'[o] = split[o]
        BY <1>0, <2>9, <3>1 DEF EditSplit
      <4> QED
        BY <1>1, <4>1
    <3>2. CASE p = o
      <4>1. split[o][z].type # type /\ split' = [split EXCEPT ![o][z].type = type]
        BY <2>9, <3>2 DEF EditSplit
      <4>2. split'[o][z] = [split[o][z] EXCEPT !.type = type] /\ split[o][z] \in SplitRow
        BY <1>0, <4>1
      <4>3. split'[o][z].type = type
        BY <4>2 DEF SplitRow
      <4> QED
        BY <4>1, <4>3 DEF SettledAnew
    <3> QED
      BY <3>1, <3>2
  <2> QED
    BY <1>1, <1>5, <2>1, <2>2, <2>4, <2>5, <2>6, <2>7, <2>8, <2>9 DEF BillNext
<1> QED
  BY <1>1, <1>2, <1>5

\* A billed order with a split that is neither complimentary nor invoiced comes about in
\* three ways only: an old copy of the order is saved, an invoice is cancelled by somebody
\* who did not find the order billed, or the kind of settlement of a split is changed
\* (complete_restaurant_order, sync_restaurant_billing_document).
THEOREM BillsArePaid == RestaurantSpec => BillsStayPaid
<1> DEFINE A == \A o \in Orders : ~ Unpaid(o) /\ Unpaid(o)' =>
                  OldCopySaved(o) \/ CancelledUnseen(o) \/ SettledAnew(o)
<1>1. RowsTyped /\ [RestaurantNext]_restaurantVars => A
  <2> SUFFICES ASSUME RowsTyped, [RestaurantNext]_restaurantVars, NEW o \in Orders,
                      ~ Unpaid(o), Unpaid(o)'
               PROVE  OldCopySaved(o) \/ CancelledUnseen(o) \/ SettledAnew(o)
    OBVIOUS
  <2>1. order'[o].status = "Billed" /\ ~ Paid(o)'
    BY DEF Unpaid
  <2>2. CASE order[o].status = "Billed"
    BY <2>1, <2>2, PaidKept DEF Unpaid
  <2>3. CASE CompleteOrder(o)
    BY <2>1, <2>3 DEF CompleteOrder, Paid, ActiveSplits
  <2> QED
    BY <2>1, <2>2, <2>3, HowToBill
<1>2. RowsTyped /\ [RestaurantNext]_restaurantVars => [A]_restaurantVars
  BY <1>1
<1>3. RestaurantSpec => []RowsTyped
  BY OrdersInit, RowsStep, PTL DEF RestaurantSpec
<1> QED
  BY <1>2, <1>3, PTL DEF RestaurantSpec, BillsStayPaid

(***************************************************************************)
(* Kitchen tickets.  Revision, unit and action are the key of a ticket of  *)
(* an order; no step after its making changes them or its quantities.      *)
(***************************************************************************)

Actions == {"Add", "Reduce", "Modify"}
TicketStatus == TicketItemStatus \cup {"Partially Ready"}
Quantities == UNION {[R -> 0 .. MaxQty] : R \in SUBSET Rows}
ItemStates == UNION {[R -> TicketItemStatus] : R \in SUBSET Rows}
EntryStates == {"none", "Draft", "Submitted", "Cancelled"}

TicketRow == [revision : Nat, unit : Units, action : Actions, status : TicketStatus,
              qty : Quantities, items : ItemStates, stock : StockStatus, job : BOOLEAN,
              entry : EntryStates]

\* A ticket has its type, and its stock status is not ahead of its stock entry.
Sound(k) ==
  /\ k \in TicketRow /\ DOMAIN k.qty = DOMAIN k.items
  /\ RecipePosting /\ k.action = "Add" =>
       k.stock # "Not Required" /\ (k.stock = "Submitted" => k.entry = "Submitted")

SameKey(k, n) == n.revision = k.revision /\ n.unit = k.unit /\ n.action = k.action

\* The tickets K of an order at revision rev.
TicketBook(K, rev) ==
  /\ IsFiniteSet(K)
  /\ \A k \in K : Sound(k) /\ k.revision \in 1 .. rev
  /\ \A k, n \in K : SameKey(k, n) => k = n

\* L is K with some statuses changed.
Restates(K, L) ==
  \E g \in [K -> TicketRow] :
    /\ L = {g[k] : k \in K}
    /\ \A k \in K : SameKey(k, g[k]) /\ g[k].qty = k.qty /\ Sound(g[k])

LEMMA RestatedBook ==
    ASSUME NEW K, NEW rev, TicketBook(K, rev), NEW L, Restates(K, L)
    PROVE  TicketBook(L, rev)
<1>1. PICK g \in [K -> TicketRow] :
        /\ L = {g[k] : k \in K}
        /\ \A k \in K : SameKey(k, g[k]) /\ g[k].qty = k.qty /\ Sound(g[k])
  BY DEF Restates
<1>2. IsFiniteSet(L)
  BY <1>1, FiniteImage DEF TicketBook
<1>3. ASSUME NEW n \in L PROVE Sound(n) /\ n.revision \in 1 .. rev
  BY <1>1 DEF TicketBook, SameKey
<1>4. ASSUME NEW m \in L, NEW n \in L, SameKey(m, n) PROVE m = n
  <2>1. PICK a \in K, b \in K : m = g[a] /\ n = g[b]
    BY <1>1
  <2>2. SameKey(a, b)
    BY <1>1, <1>4, <2>1 DEF SameKey
  <2> QED
    BY <2>1, <2>2 DEF TicketBook
<1> QED
  BY <1>2, <1>3, <1>4 DEF TicketBook

LEMMA RestatedTold ==
    ASSUME NEW K, NEW rev, TicketBook(K, rev), NEW L, Restates(K, L), NEW r, NEW act
    PROVE  ToldBy(L, r, act) = ToldBy(K, r, act)
<1>1. PICK g \in [K -> TicketRow] :
        /\ L = {g[k] : k \in K}
        /\ \A k \in K : SameKey(k, g[k]) /\ g[k].qty = k.qty /\ Sound(g[k])
  BY DEF Restates
<1> DEFINE S == Telling(K, r, act)
           f == [k \in S |-> k.qty[r]]
           h == [k \in Telling(L, r, act) |-> k.qty[r]]
<1>2. S \subseteq K /\ IsFiniteSet(S)
  BY FS_Subset DEF TicketBook, Telling
<1>3. Telling(L, r, act) = {g[k] : k \in S}
  BY <1>1 DEF Telling, SameKey
<1>4. \A k \in S : f[k] \in Int
  <2>1. \A k \in S : k.qty \in Quantities /\ r \in DOMAIN k.qty
    BY DEF Telling, TicketBook, Sound, TicketRow
  <2>2. \A q \in Quantities : r \in DOMAIN q => q[r] \in Int
    BY RestaurantAssumption DEF Quantities
  <2> QED
    BY <2>1, <2>2
<1>5. \A x, y \in S : g[x] = g[y] => x = y
  BY <1>1, <1>2 DEF TicketBook, SameKey
<1>6. \A x \in S : h[g[x]] = f[x]
  BY <1>1, <1>2, <1>3
<1>7. SumFunctionOnSet(h, {g[x] : x \in S}) = SumFunctionOnSet(f, S)
  <2> HIDE DEF S, f, h
  <2> QED
    BY <1>2, <1>4, <1>5, <1>6, SumRenamed
<1> QED
  BY <1>3, <1>7 DEF ToldBy

LEMMA SameBook ==
  ASSUME NEW K, NEW rev, TicketBook(K, rev) PROVE Restates(K, K)
<1> DEFINE g == [k \in K |-> k]
<1>1. g \in [K -> TicketRow]
  BY DEF TicketBook, Sound
<1>2. K = {g[k] : k \in K}
  OBVIOUS
<1>3. \A k \in K : SameKey(k, g[k]) /\ g[k].qty = k.qty /\ Sound(g[k])
  BY DEF TicketBook, SameKey
<1> HIDE DEF g
<1> QED
  BY <1>1, <1>2, <1>3 DEF Restates

LEMMA OneTicketChanged ==
    ASSUME NEW K, NEW rev, TicketBook(K, rev), NEW k \in K, NEW new,
           SameKey(k, new), new.qty = k.qty, Sound(new)
    PROVE  Restates(K, (K \ {k}) \cup {new})
<1> DEFINE g == [x \in K |-> IF x = k THEN new ELSE x]
<1>1. g \in [K -> TicketRow]
  BY DEF TicketBook, Sound
<1>2. (K \ {k}) \cup {new} = {g[x] : x \in K}
  OBVIOUS
<1>3. \A x \in K : SameKey(x, g[x]) /\ g[x].qty = x.qty /\ Sound(g[x])
  BY DEF TicketBook, SameKey
<1> HIDE DEF g
<1> QED
  BY <1>1, <1>2, <1>3 DEF Restates

(* What the handlers write into a ticket. *)
LEMMA StatusWritten ==
    ASSUME NEW k, Sound(k), NEW x \in ItemStates, DOMAIN x = DOMAIN k.items, NEW y \in TicketStatus,
           NEW new, new = [k EXCEPT !.items = x, !.status = y]
    PROVE  SameKey(k, new) /\ new.qty = k.qty /\ Sound(new)
<1>1. k \in TicketRow
  BY DEF Sound
<1>2. new \in TicketRow /\ new.items = x /\ new.stock = k.stock /\ new.entry = k.entry
  BY <1>1 DEF TicketRow
<1>3. SameKey(k, new) /\ new.qty = k.qty
  BY <1>1 DEF TicketRow, SameKey
<1> QED
  BY <1>2, <1>3 DEF Sound, SameKey

LEMMA StockWritten ==
    ASSUME NEW k, Sound(k), NEW new \in TicketRow,
           new.revision = k.revision, new.unit = k.unit, new.action = k.action,
           new.qty = k.qty, new.items = k.items,
           RecipePosting /\ k.action = "Add" =>
             new.stock # "Not Required" /\ (new.stock = "Submitted" => new.entry = "Submitted")
    PROVE  SameKey(k, new) /\ new.qty = k.qty /\ Sound(new)
BY DEF Sound, SameKey

LEMMA KdsStatusTyped == \A S : KdsStatus(S) \in TicketStatus
BY DEF KdsStatus, TicketStatus, TicketItemStatus

LEMMA ItemsOf ==
  ASSUME NEW k, Sound(k)
                 PROVE  /\ DOMAIN k.items \subseteq Rows
                        /\ k.items \in [DOMAIN k.items -> TicketItemStatus]
BY DEF Sound, TicketRow, ItemStates

LEMMA ItemStatesAre ==
    ASSUME NEW R \in SUBSET Rows, NEW x \in [R -> TicketItemStatus]
    PROVE  x \in ItemStates
BY DEF ItemStates

LEMMA MovedSound ==
    ASSUME NEW k, Sound(k), NEW S, NEW s \in TicketItemStatus
    PROVE  SameKey(k, Moved(k, S, s)) /\ Moved(k, S, s).qty = k.qty /\ Sound(Moved(k, S, s))
<1> DEFINE x == [r \in DOMAIN k.items |-> IF k.items[r] \in S THEN s ELSE k.items[r]]
<1>1. x \in [DOMAIN k.items -> TicketItemStatus] /\ DOMAIN x = DOMAIN k.items
  BY ItemsOf
<1>2. Moved(k, S, s) = [k EXCEPT !.items = x, !.status = KdsStatus(Statuses(x))]
  BY DEF Moved
<1> HIDE DEF x
<1>3. x \in ItemStates
  BY <1>1, ItemsOf, ItemStatesAre
<1> QED
  BY <1>1, <1>2, <1>3, KdsStatusTyped, StatusWritten

LEMMA RecalledSound ==
    ASSUME NEW k, Sound(k),
           NEW new, new = [k EXCEPT !.status = "Recalled",
             !.items = [r \in DOMAIN k.items |-> IF k.items[r] \in {"Ready", "Served"} THEN "Recalled"
                                                 ELSE k.items[r]]]
    PROVE  SameKey(k, new) /\ new.qty = k.qty /\ Sound(new)
<1> DEFINE x == [r \in DOMAIN k.items |-> IF k.items[r] \in {"Ready", "Served"} THEN "Recalled"
                                          ELSE k.items[r]]
<1>1. x \in [DOMAIN k.items -> TicketItemStatus] /\ DOMAIN x = DOMAIN k.items
  BY ItemsOf DEF TicketItemStatus
<1>2. new = [k EXCEPT !.status = "Recalled", !.items = x]
  OBVIOUS
<1> HIDE DEF x
<1>3. x \in ItemStates /\ "Recalled" \in TicketStatus
  BY <1>1, ItemsOf, ItemStatesAre DEF TicketStatus, TicketItemStatus
<1>4. new = [k EXCEPT !.items = x, !.status = "Recalled"]
  BY <1>2 DEF Sound, TicketRow
<1> QED
  BY <1>1, <1>3, <1>4, StatusWritten

LEMMA ItemSound ==
    ASSUME NEW k, Sound(k), NEW r \in DOMAIN k.items, NEW s \in TicketItemStatus,
           NEW items, items = [k.items EXCEPT ![r] = s],
           NEW new, new = [k EXCEPT !.items = items, !.status = KdsStatus(Statuses(items))]
    PROVE  SameKey(k, new) /\ new.qty = k.qty /\ Sound(new)
<1>1. items \in [DOMAIN k.items -> TicketItemStatus] /\ DOMAIN items = DOMAIN k.items
  BY ItemsOf
<1>2. items \in ItemStates
  BY <1>1, ItemsOf, ItemStatesAre
<1> DEFINE y == KdsStatus(Statuses(items))
<1>3. y \in TicketStatus
  BY KdsStatusTyped
<1>4. new = [k EXCEPT !.items = items, !.status = y]
  OBVIOUS
<1> HIDE DEF y
<1>5. k \in TicketRow
  BY DEF Sound
<1>6. new \in TicketRow /\ new.items = items /\ new.stock = k.stock /\ new.entry = k.entry
  BY <1>2, <1>3, <1>4, <1>5 DEF TicketRow
<1>7. SameKey(k, new) /\ new.qty = k.qty
  BY <1>4, <1>5 DEF TicketRow, SameKey
<1> QED
  BY <1>1, <1>6, <1>7 DEF Sound, SameKey

LEMMA CancelledBook ==
    ASSUME NEW K, NEW rev, TicketBook(K, rev)
    PROVE  Restates(K, {[k EXCEPT !.status = "Cancelled"] : k \in K})
<1> DEFINE g == [k \in K |-> [k EXCEPT !.status = "Cancelled"]]
<1>1. ASSUME NEW k \in K
      PROVE  SameKey(k, g[k]) /\ g[k].qty = k.qty /\ Sound(g[k])
  <2>1. Sound(k) /\ k \in TicketRow
    BY DEF TicketBook, Sound
  <2>2. g[k] = [k EXCEPT !.status = "Cancelled"] /\ "Cancelled" \in TicketStatus
    BY DEF TicketStatus, TicketItemStatus
  <2> HIDE DEF g
  <2>3. g[k] \in TicketRow /\ g[k].items = k.items /\ g[k].stock = k.stock /\ g[k].entry = k.entry
    BY <2>1, <2>2 DEF TicketRow
  <2>4. SameKey(k, g[k]) /\ g[k].qty = k.qty
    BY <2>1, <2>2 DEF TicketRow, SameKey
  <2> QED
    BY <2>1, <2>3, <2>4 DEF Sound, SameKey
<1>2. g \in [K -> TicketRow]
  BY <1>1 DEF Sound
<1>3. {[k EXCEPT !.status = "Cancelled"] : k \in K} = {g[k] : k \in K}
  OBVIOUS
<1> HIDE DEF g
<1> QED
  BY <1>1, <1>2, <1>3 DEF Restates

TicketsTyped == ticket \in [Orders -> SUBSET TicketRow]
Booked == \A o \in Orders : TicketBook(ticket[o], order[o].revision)

(* One ticket of one order is written. *)
LEMMA WrittenTicket ==
    ASSUME TicketsTyped, Booked, NEW p \in Orders, NEW k \in ticket[p], NEW new,
           SameKey(k, new), new.qty = k.qty, Sound(new),
           ticket' = [ticket EXCEPT ![p] = (ticket[p] \ {k}) \cup {new}]
    PROVE  \A o \in Orders : Restates(ticket[o], ticket'[o])
<1> TAKE o \in Orders
<1>1. TicketBook(ticket[o], order[o].revision)
  BY DEF Booked
<1>2. CASE o = p
  BY <1>1, <1>2, OneTicketChanged DEF TicketsTyped
<1>3. CASE o # p
  BY <1>1, <1>3, SameBook DEF TicketsTyped
<1> QED
  BY <1>2, <1>3

LEMMA KeptTickets ==
  ASSUME Booked, ticket' = ticket PROVE \A o \in Orders : Restates(ticket[o], ticket'[o])
BY SameBook DEF Booked

(* What the kitchen does with a ticket, and what becomes of its stock entry. *)
LEMMA KitchenRestates ==
    ASSUME TicketsTyped, Booked, NEW p \in Orders, NEW k \in ticket[p],
           \/ AcceptTicket(p, k) \/ StartTicket(p, k) \/ RecallTicket(p, k)
           \/ \E r \in DOMAIN k.items, s \in {"Cooking", "Ready", "Served", "Cancelled"} :
                UpdateItem(p, k, r, s)
    PROVE  \A o \in Orders : Restates(ticket[o], ticket'[o])
<1>1. Sound(k)
  BY DEF Booked, TicketBook
<1>2. "Accepted" \in TicketItemStatus /\ "Cooking" \in TicketItemStatus
  BY DEF TicketItemStatus
<1>3. CASE AcceptTicket(p, k)
  BY <1>1, <1>2, <1>3, MovedSound, WrittenTicket DEF AcceptTicket, SetTicket
<1>4. CASE StartTicket(p, k)
  <2> DEFINE accepted == IF k.status \in {"New", "Recalled"}
                         THEN Moved(k, {"New", "Recalled"}, "Accepted") ELSE k
             new == Moved(accepted, {"Accepted"}, "Cooking")
  <2>1. ticket' = [ticket EXCEPT ![p] = (ticket[p] \ {k}) \cup {new}]
    BY <1>4 DEF StartTicket, SetTicket
  <2>2. SameKey(k, accepted) /\ accepted.qty = k.qty /\ Sound(accepted)
    BY <1>1, <1>2, MovedSound DEF SameKey
  <2> HIDE DEF accepted
  <2>3. SameKey(accepted, new) /\ new.qty = accepted.qty /\ Sound(new)
    BY <1>2, <2>2, MovedSound
  <2> HIDE DEF new
  <2>4. SameKey(k, new) /\ new.qty = k.qty
    BY <2>2, <2>3 DEF SameKey
  <2> QED
    BY <2>1, <2>3, <2>4, WrittenTicket
<1>5. CASE RecallTicket(p, k)
  <2> DEFINE new == [k EXCEPT !.status = "Recalled",
               !.items = [r \in DOMAIN k.items |-> IF k.items[r] \in {"Ready", "Served"} THEN "Recalled"
                                                   ELSE k.items[r]]]
  <2>1. ticket' = [ticket EXCEPT ![p] = (ticket[p] \ {k}) \cup {new}]
    <3>1. k \in TicketRow
      BY <1>1 DEF Sound
    <3>2. new = [k EXCEPT !.status = "Recalled",
            !.items = [r \in DOMAIN k.items |-> IF @[r] \in {"Ready", "Served"} THEN "Recalled" ELSE @[r]]]
      BY <3>1 DEF TicketRow
    <3> QED
      BY <1>5, <3>2 DEF RecallTicket, SetTicket
  <2>2. SameKey(k, new) /\ new.qty = k.qty /\ Sound(new)
    BY <1>1, RecalledSound
  <2> HIDE DEF new
  <2> QED
    BY <2>1, <2>2, WrittenTicket
<1>6. ASSUME NEW r \in DOMAIN k.items, NEW s \in {"Cooking", "Ready", "Served", "Cancelled"},
             UpdateItem(p, k, r, s)
      PROVE  \A o \in Orders : Restates(ticket[o], ticket'[o])
  <2> DEFINE items == [k.items EXCEPT ![r] = s]
             new == [k EXCEPT !.items = items, !.status = KdsStatus(Statuses(items))]
  <2>1. ticket' = [ticket EXCEPT ![p] = (ticket[p] \ {k}) \cup {new}]
    BY <1>6 DEF UpdateItem, SetTicket
  <2>2. s \in TicketItemStatus
    BY DEF TicketItemStatus
  <2>3. SameKey(k, new) /\ new.qty = k.qty /\ Sound(new)
    BY <1>1, <2>2, ItemSound
  <2> HIDE DEF new
  <2> QED
    BY <2>1, <2>3, WrittenTicket
<1> QED
  BY <1>3, <1>4, <1>5, <1>6

LEMMA StockRestates ==
    ASSUME TicketsTyped, Booked, NEW p \in Orders, NEW k \in ticket[p], NEW new \in TicketRow, NEW refresh,
           StockStep(p, k, new, refresh) \/ SetTicket(p, k, new),
           new.revision = k.revision, new.unit = k.unit, new.action = k.action,
           new.qty = k.qty, new.items = k.items,
           RecipePosting /\ k.action = "Add" =>
             new.stock # "Not Required" /\ (new.stock = "Submitted" => new.entry = "Submitted")
    PROVE  \A o \in Orders : Restates(ticket[o], ticket'[o])
<1>1. Sound(k)
  BY DEF Booked, TicketBook
<1>2. SameKey(k, new) /\ new.qty = k.qty /\ Sound(new)
  BY <1>1, StockWritten
<1>3. ticket' = [ticket EXCEPT ![p] = (ticket[p] \ {k}) \cup {new}]
  BY DEF StockStep, SetTicket
<1> QED
  BY <1>2, <1>3, WrittenTicket

LEMMA RecipeRestates ==
    ASSUME TicketsTyped, Booked, RecipeNext
    PROVE  \A o \in Orders : Restates(ticket[o], ticket'[o])
<1> DEFINE Goal == \A o \in Orders : Restates(ticket[o], ticket'[o])
<1>0. ASSUME NEW p \in Orders, NEW k \in ticket[p]
      PROVE  k \in TicketRow /\ Sound(k)
  BY <1>0 DEF Booked, TicketBook, Sound
<1>1. ASSUME NEW p \in Orders, NEW k \in ticket[p], NEW submit \in BOOLEAN, PostRecipe(p, k, submit)
      PROVE  Goal
  <2> DEFINE entry == IF k.entry \in {"none", "Cancelled"} THEN "Draft" ELSE k.entry
             final == IF submit THEN "Submitted" ELSE entry
             stock == IF final = "Submitted" THEN "Submitted" ELSE "Draft Created"
  <2>1. final \in EntryStates /\ stock \in StockStatus /\ stock # "Not Required"
        /\ (stock = "Submitted" => final = "Submitted")
    BY <1>0 DEF TicketRow, EntryStates, StockStatus
  <2>2. CASE k.action = "Add"
    <3> DEFINE new == [k EXCEPT !.job = FALSE, !.entry = final, !.stock = stock]
    <3>1. StockStep(p, k, new, TRUE)
      BY <1>1, <2>2 DEF PostRecipe
    <3> HIDE DEF final, stock
    <3>2. /\ new \in TicketRow
          /\ new.revision = k.revision /\ new.unit = k.unit /\ new.action = k.action
          /\ new.qty = k.qty /\ new.items = k.items /\ new.entry = final /\ new.stock = stock
      BY <1>0, <2>1 DEF TicketRow
    <3> HIDE DEF new
    <3> QED
      BY <2>1, <3>1, <3>2, StockRestates
  <2>3. CASE k.action # "Add"
    <3> DEFINE new == [k EXCEPT !.job = FALSE, !.stock = "Not Required"]
    <3>1. StockStep(p, k, new, TRUE)
      BY <1>1, <2>3 DEF PostRecipe
    <3>2. /\ new \in TicketRow
          /\ new.revision = k.revision /\ new.unit = k.unit /\ new.action = k.action
          /\ new.qty = k.qty /\ new.items = k.items
      BY <1>0 DEF TicketRow, StockStatus
    <3> HIDE DEF new
    <3> QED
      BY <2>3, <3>1, <3>2, StockRestates
  <2> QED
    BY <2>2, <2>3
<1>2. ASSUME NEW p \in Orders, NEW k \in ticket[p], PostRecipeFails(p, k) PROVE Goal
  <2> DEFINE new == [k EXCEPT !.job = FALSE, !.stock = "Failed"]
  <2>1. StockStep(p, k, new, TRUE)
    BY <1>2 DEF PostRecipeFails
  <2>2. /\ new \in TicketRow
        /\ new.revision = k.revision /\ new.unit = k.unit /\ new.action = k.action
        /\ new.qty = k.qty /\ new.items = k.items /\ new.stock = "Failed"
    BY <1>0 DEF TicketRow, StockStatus
  <2> HIDE DEF new
  <2> QED
    BY <2>1, <2>2, StockRestates
<1>3. ASSUME NEW p \in Orders, NEW k \in ticket[p], SubmitRecipeFails(p, k) PROVE Goal
  <2>0. PICK e \in {"Draft", "Submitted"} :
          StockStep(p, k, [k EXCEPT !.job = FALSE, !.entry = e, !.stock = "Failed"], FALSE)
    BY <1>3 DEF SubmitRecipeFails
  <2> DEFINE new == [k EXCEPT !.job = FALSE, !.entry = e, !.stock = "Failed"]
  <2>1. StockStep(p, k, new, FALSE)
    BY <2>0
  <2>2. /\ new \in TicketRow
        /\ new.revision = k.revision /\ new.unit = k.unit /\ new.action = k.action
        /\ new.qty = k.qty /\ new.items = k.items /\ new.stock = "Failed"
    BY <1>0 DEF TicketRow, StockStatus, EntryStates
  <2> HIDE DEF new
  <2> QED
    BY <2>1, <2>2, StockRestates
<1>4. ASSUME NEW p \in Orders, NEW k \in ticket[p], LoseRecipeJob(p, k) PROVE Goal
  <2> DEFINE new == [k EXCEPT !.job = FALSE]
  <2>1. StockStep(p, k, new, FALSE)
    BY <1>4 DEF LoseRecipeJob
  <2>2. /\ new \in TicketRow
        /\ new.revision = k.revision /\ new.unit = k.unit /\ new.action = k.action
        /\ new.qty = k.qty /\ new.items = k.items /\ new.stock = k.stock /\ new.entry = k.entry
    BY <1>0 DEF TicketRow
  <2> HIDE DEF new
  <2>3. RecipePosting /\ k.action = "Add" =>
          new.stock # "Not Required" /\ (new.stock = "Submitted" => new.entry = "Submitted")
    BY <1>0, <2>2 DEF Sound
  <2> QED
    BY <2>1, <2>2, <2>3, StockRestates
<1>5. ASSUME NEW p \in Orders, NEW k \in ticket[p], EntrySubmitted(p, k) PROVE Goal
  <2> DEFINE new == [k EXCEPT !.entry = "Submitted", !.stock = "Submitted"]
  <2>1. StockStep(p, k, new, TRUE)
    BY <1>5 DEF EntrySubmitted
  <2>2. /\ new \in TicketRow
        /\ new.revision = k.revision /\ new.unit = k.unit /\ new.action = k.action
        /\ new.qty = k.qty /\ new.items = k.items /\ new.stock = "Submitted" /\ new.entry = "Submitted"
    BY <1>0 DEF TicketRow, StockStatus, EntryStates
  <2> HIDE DEF new
  <2> QED
    BY <2>1, <2>2, StockRestates
<1>6. ASSUME NEW p \in Orders, NEW k \in ticket[p], EntryCancelled(p, k) PROVE Goal
  <2> DEFINE new == [k EXCEPT !.entry = "Cancelled", !.stock = "Cancelled"]
  <2>1. SetTicket(p, k, new)
    BY <1>6 DEF EntryCancelled
  <2>2. /\ new \in TicketRow
        /\ new.revision = k.revision /\ new.unit = k.unit /\ new.action = k.action
        /\ new.qty = k.qty /\ new.items = k.items /\ new.stock = "Cancelled"
    BY <1>0 DEF TicketRow, StockStatus, EntryStates
  <2> HIDE DEF new
  <2> QED
    BY <2>1, <2>2, StockRestates
<1> QED
  BY <1>1, <1>2, <1>3, <1>4, <1>5, <1>6 DEF RecipeNext

(* Only a synchronization makes tickets. *)
LEMMA TicketsRestated ==
    ASSUME TicketsTyped, Booked, [RestaurantNext]_restaurantVars,
           \A p \in Orders : ~ SyncKitchen(p)
    PROVE  \A o \in Orders : Restates(ticket[o], ticket'[o])
<1> DEFINE Goal == \A o \in Orders : Restates(ticket[o], ticket'[o])
<1>1. CASE SessionNext \/ Monitor \/ UNCHANGED restaurantVars
  BY <1>1, KeptTickets DEF SessionNext, OpenShift, LinkPosOpening, LinkPosClosing, Monitor, restaurantVars
<1>2. CASE TableNext
  <2>1. ASSUME NEW p, NEW T, MergeTables(p, T) \/ ReleaseCluster(p) PROVE ticket' = ticket
    BY <2>1 DEF MergeTables, ReleaseCluster
  <2>2. ASSUME NEW b, NEW t, NEW x, CleanTable(t) \/ BookTable(b, t) \/ UpdateBooking(b, x)
        PROVE  ticket' = ticket
    BY <2>2 DEF CleanTable, BookTable, UpdateBooking
  <2> QED
    BY <1>2, <2>1, <2>2, KeptTickets DEF TableNext
<1>3. CASE FloorNext
  <2>1. ASSUME NEW p, NEW t, NEW x, NEW c, CreateOrder(p, t, x, c) \/ DraftOrder(p, t)
        PROVE  ticket' = ticket
    BY <2>1 DEF CreateOrder, DraftOrder
  <2>2. ASSUME NEW p, NEW r, ConfirmOrder(p) \/ RequestBill(p) \/ LoadOrder(p) \/ EditItem(p, r)
        PROVE  ticket' = ticket
    BY <2>2 DEF ConfirmOrder, RequestBill, LoadOrder, EditItem
  <2>3. ASSUME NEW p \in Orders, CancelOrder(p), NEW o \in Orders
        PROVE  Restates(ticket[o], ticket'[o])
    <3>1. ticket' = [ticket EXCEPT ![p] = {[k EXCEPT !.status = "Cancelled"] : k \in ticket[p]}]
      BY <2>3 DEF CancelOrder
    <3>2. CASE o = p
      BY <3>1, <3>2, CancelledBook DEF TicketsTyped, Booked
    <3>3. CASE o # p
      BY <3>1, <3>3, SameBook DEF TicketsTyped, Booked
    <3> QED
      BY <3>2, <3>3
  <2> QED
    BY <1>3, <2>1, <2>2, <2>3, KeptTickets DEF FloorNext
<1>4. CASE KitchenNext
  <2>1. ASSUME NEW p, SyncSilent(p) PROVE ticket' = ticket
    BY <2>1 DEF SyncSilent
  <2> QED
    BY <1>4, <2>1, KeptTickets, KitchenRestates DEF KitchenNext
<1>5. CASE RecipeNext
  BY <1>5, RecipeRestates
<1>6. CASE BillNext
  <2>1. ASSUME NEW p, NEW S, NEW types, CreateSplits(p, types, S) PROVE ticket' = ticket
    BY <2>1 DEF CreateSplits
  <2>2. ASSUME NEW p, NEW z, NEW x,
               \/ CreateInvoice(p, z, x) \/ SettleComplimentary(p, z) \/ SubmitInvoice(p, z)
               \/ AskForCancel(p, z) \/ CancelInvoice(p, z) \/ FolioBillsRow(p, z)
               \/ EditSplit(p, z, x) \/ CompleteOrder(p)
        PROVE  ticket' = ticket
    BY <2>2 DEF CreateInvoice, SettleComplimentary, SubmitInvoice, AskForCancel, CancelInvoice,
                FolioBillsRow, EditSplit, CompleteOrder
  <2> QED
    BY <1>6, <2>1, <2>2, KeptTickets DEF BillNext
<1> QED
  BY <1>1, <1>2, <1>3, <1>4, <1>5, <1>6 DEF RestaurantNext

(* Only a synchronization moves the snapshot, and only one with tickets the revision. *)
LEMMA SnapshotKept ==
    ASSUME RowsTyped, [RestaurantNext]_restaurantVars, NEW o \in Orders, ~ SyncKitchen(o)
    PROVE  /\ order'[o].revision = order[o].revision
           /\ ~ SyncSilent(o) => order'[o].snapshot = order[o].snapshot
<1> DEFINE Goal == order'[o].revision = order[o].revision /\ order'[o].snapshot = order[o].snapshot
<1>0. order \in [Orders -> OrderRow]
  BY DEF RowsTyped, OrdersTyped
<1>1. ASSUME NEW p \in Orders, NEW x,
             \/ order' = [order EXCEPT ![p].status = x] \/ order' = [order EXCEPT ![p].stock = x]
             \/ order' = order
      PROVE  Goal
  <2>1. CASE order' = [order EXCEPT ![p].status = x]
    BY <1>0, <2>1 DEF OrderRow
  <2>2. CASE order' = [order EXCEPT ![p].stock = x]
    BY <1>0, <2>2 DEF OrderRow
  <2> QED
    BY <1>1, <2>1, <2>2
<1>w. ASSUME NEW p \in Orders, NEW x, NEW y,
             order' = [order EXCEPT ![p].status = x, ![p].stock = y]
      PROVE  Goal
  BY <1>0, <1>w DEF OrderRow
<1>2. CASE SessionNext \/ Monitor \/ UNCHANGED restaurantVars
  BY <1>2 DEF SessionNext, OpenShift, LinkPosOpening, LinkPosClosing, Monitor, restaurantVars
<1>3. CASE TableNext
  <2>1. ASSUME NEW p, NEW T, MergeTables(p, T) \/ ReleaseCluster(p) PROVE order' = order
    BY <2>1 DEF MergeTables, ReleaseCluster
  <2>2. ASSUME NEW b, NEW t, NEW x, CleanTable(t) \/ BookTable(b, t) \/ UpdateBooking(b, x)
        PROVE  order' = order
    BY <2>2 DEF CleanTable, BookTable, UpdateBooking
  <2> QED
    BY <1>3, <2>1, <2>2 DEF TableNext
<1>4. CASE FloorNext
  <2>1. ASSUME NEW p \in Orders, NEW t, NEW x, NEW c, CreateOrder(p, t, x, c) PROVE Goal
    BY <1>0, <2>1 DEF CreateOrder, OrderRow
  <2>2. ASSUME NEW p \in Orders, NEW t, DraftOrder(p, t) PROVE Goal
    BY <1>0, <2>2 DEF DraftOrder, OrderRow
  <2>3. ASSUME NEW p \in Orders, ConfirmOrder(p) \/ RequestBill(p) \/ CancelOrder(p) \/ LoadOrder(p)
        PROVE  Goal
    BY <1>1, <2>3 DEF ConfirmOrder, RequestBill, CancelOrder, LoadOrder
  <2>4. ASSUME NEW p \in Orders, NEW r, EditItem(p, r) PROVE Goal
    <3>1. PICK c \in Loaded(p) : order' = [order EXCEPT ![p].status = c.status, ![p].stock = c.stock]
      BY <2>4 DEF EditItem
    <3> QED
      BY <1>w, <3>1
  <2> QED
    BY <1>4, <2>1, <2>2, <2>3, <2>4 DEF FloorNext
<1>5. CASE KitchenNext
  <2>1. ASSUME NEW p \in Orders, SyncKitchen(p) PROVE Goal
    <3>1. p # o
      BY <2>1
    <3>2. PICK x : order' = [order EXCEPT ![p] = x]
      <4>1. order' = [order EXCEPT ![p] = order'[p]]
        BY <1>0, <2>1 DEF SyncKitchen
      <4> QED
        BY <4>1
    <3>3. order'[o] = order[o]
      BY <1>0, <3>1, <3>2
    <3> QED
      BY <3>3
  <2>2. ASSUME NEW p \in Orders, SyncSilent(p)
        PROVE  /\ order'[o].revision = order[o].revision
               /\ ~ SyncSilent(o) => order'[o].snapshot = order[o].snapshot
    <3>1. CASE p = o
      BY <1>0, <2>2, <3>1 DEF SyncSilent, OrderRow
    <3>2. CASE p # o
      BY <1>0, <2>2, <3>2 DEF SyncSilent, OrderRow
    <3> QED
      BY <3>1, <3>2
  <2>3. ASSUME NEW p \in Orders, NEW k, AcceptTicket(p, k) \/ StartTicket(p, k) \/ RecallTicket(p, k)
        PROVE  order' = order
    BY <2>3 DEF AcceptTicket, StartTicket, RecallTicket
  <2>4. ASSUME NEW p \in Orders, NEW k, NEW r, NEW x, UpdateItem(p, k, r, x) PROVE Goal
    <3>1. \E c, live : order' = [order EXCEPT ![p].status = Served(c.status, live), ![p].stock = c.stock]
      BY <2>4 DEF UpdateItem
    <3> QED
      BY <1>w, <3>1
  <2> QED
    BY <1>5, <2>1, <2>2, <2>3, <2>4 DEF KitchenNext
<1>6. CASE RecipeNext
  <2>1. ASSUME NEW p \in Orders, NEW k, NEW new, NEW refresh, StockStep(p, k, new, refresh) PROVE Goal
    <3>1. PICK x : order' = [order EXCEPT ![p].stock = x]
      BY <2>1 DEF StockStep
    <3> QED
      BY <1>1, <3>1
  <2>2. ASSUME NEW p \in Orders, NEW k, EntryCancelled(p, k) PROVE Goal
    BY <1>1, <2>2 DEF EntryCancelled
  <2> HIDE DEF Goal
  <2>3. Goal
    BY <1>6, <2>1, <2>2, Zenon
       DEF RecipeNext, PostRecipe, PostRecipeFails, SubmitRecipeFails, LoseRecipeJob, EntrySubmitted
  <2> QED
    BY <2>3 DEF Goal
<1>7. CASE BillNext
  <2>1. ASSUME NEW p, NEW S, NEW types, CreateSplits(p, types, S) PROVE order' = order
    BY <2>1 DEF CreateSplits
  <2>2. ASSUME NEW p, NEW z, NEW submit,
               \/ CreateInvoice(p, z, submit) \/ SettleComplimentary(p, z) \/ SubmitInvoice(p, z)
               \/ FolioBillsRow(p, z) \/ AskForCancel(p, z) \/ EditSplit(p, z, submit)
        PROVE  order' = order
    BY <2>2 DEF CreateInvoice, SettleComplimentary, SubmitInvoice, FolioBillsRow, AskForCancel, EditSplit
  <2>3. ASSUME NEW p \in Orders, NEW z, CancelInvoice(p, z) PROVE Goal
    BY <1>0, <2>3 DEF CancelInvoice, OrderRow
  <2>4. ASSUME NEW p \in Orders, CompleteOrder(p) PROVE Goal
    BY <1>0, <2>4 DEF CompleteOrder, OrderRow
  <2> QED
    BY <1>7, <2>1, <2>2, <2>3, <2>4 DEF BillNext
<1> QED
  BY <1>2, <1>3, <1>4, <1>5, <1>6, <1>7 DEF RestaurantNext

(* What the kitchen is to be told of one row. *)
DeltaRow == [row : Rows, action : Actions, qty : 0 .. MaxQty, unit : Units]

Gain(ds, r, act) ==
  IF \E e \in ds : e.row = r /\ e.action = act
  THEN (CHOOSE e \in ds : e.row = r /\ e.action = act).qty ELSE 0

\* A shot with a quantity has a unit that makes it.
Made(shot) == shot.qty > 0 => shot.unit \in Units

LEMMA RowDeltasAre ==
    ASSUME NEW r \in Rows, NEW before \in Shots, NEW now \in Shots, Made(before),
           now # NoRow => now.unit \in Units
    PROVE  /\ \A d \in RowDeltas(r, before, now) : d \in DeltaRow /\ d.row = r
           /\ \A d, e \in RowDeltas(r, before, now) : d.action = e.action => d = e
           /\ Gain(RowDeltas(r, before, now), r, "Add") - Gain(RowDeltas(r, before, now), r, "Reduce")
              = now.qty - before.qty
<1> DEFINE here == before # NoRow /\ now # NoRow
           moves == here /\ before.unit # now.unit /\ before.qty > 0 /\ now.qty > 0
           ds == RowDeltas(r, before, now)
<1>0. /\ before.qty \in 0 .. MaxQty /\ now.qty \in 0 .. MaxQty
      /\ now = NoRow => now.qty = 0
  BY DEF Shots, NoRow
<1>m. /\ before.qty \in Nat /\ now.qty \in Nat /\ MaxQty \in Nat
      /\ before.qty <= MaxQty /\ now.qty <= MaxQty
  BY <1>0, RestaurantAssumption
<1>u. /\ before.qty > 0 => before.unit \in Units
      /\ now.qty > 0 => now.unit \in Units
  <2>1. now.qty > 0 => now # NoRow
    BY <1>0, <1>m
  <2>2. before.qty > 0 => before.unit \in Units
    BY Zenon DEF Made
  <2> QED
    BY <2>1, <2>2
<1> DEFINE b == before.qty
           n == now.qty
<1>1. CASE moves
  <2>1. ds = {Delta(r, "Reduce", before.qty, before.unit), Delta(r, "Add", now.qty, now.unit)}
    BY <1>1 DEF RowDeltas
  <2>2. now.unit \in Units /\ before.unit \in Units
    BY <1>1, <1>u
  <2>3. /\ \A d \in ds : d \in DeltaRow /\ d.row = r
        /\ \A d, e \in ds : d.action = e.action => d = e
    BY <1>0, <2>1, <2>2 DEF Delta, DeltaRow, Actions
  <2>4. /\ Delta(r, "Add", now.qty, now.unit) \in ds
        /\ \A e \in ds : e.row = r /\ e.action = "Add" => e = Delta(r, "Add", now.qty, now.unit)
        /\ Delta(r, "Reduce", before.qty, before.unit) \in ds
        /\ \A e \in ds : e.row = r /\ e.action = "Reduce" => e = Delta(r, "Reduce", before.qty, before.unit)
    BY <2>1 DEF Delta
  <2> HIDE DEF ds
  <2>5. Gain(ds, r, "Add") = now.qty /\ Gain(ds, r, "Reduce") = before.qty
    BY <2>4 DEF Gain, Delta
  <2> QED
    BY <2>3, <2>5 DEF ds
<1>2. CASE ~ moves /\ now.qty > before.qty
  <2>1. ds = {Delta(r, "Add", now.qty - before.qty, now.unit)}
    BY <1>0, <1>2 DEF RowDeltas
  <2>2. now.unit \in Units /\ now.qty - before.qty \in 0 .. MaxQty
    <3>1. b \in Nat /\ n \in Nat /\ b <= MaxQty /\ n <= MaxQty /\ n > b
      BY <1>m, <1>2
    <3> HIDE DEF b, n
    <3>2. n > 0 /\ n - b \in 0 .. MaxQty
      BY <3>1, <1>m
    <3> QED
      BY <3>2, <1>u DEF b, n
  <2>3. /\ \A d \in ds : d \in DeltaRow /\ d.row = r
        /\ \A d, e \in ds : d.action = e.action => d = e
    BY <2>1, <2>2 DEF Delta, DeltaRow, Actions
  <2>4. /\ Delta(r, "Add", now.qty - before.qty, now.unit) \in ds
        /\ \A e \in ds : e.action = "Add" /\ e = Delta(r, "Add", now.qty - before.qty, now.unit)
    BY <2>1 DEF Delta
  <2> HIDE DEF ds
  <2>5. Gain(ds, r, "Add") = now.qty - before.qty /\ Gain(ds, r, "Reduce") = 0
    BY <2>4 DEF Gain, Delta
  <2> QED
    BY <1>0, <2>3, <2>5 DEF ds
<1>3. CASE ~ moves /\ now.qty < before.qty
  <2>1. ds = {Delta(r, "Reduce", before.qty - now.qty, before.unit)}
    BY <1>0, <1>3 DEF RowDeltas
  <2>2. before.unit \in Units /\ before.qty - now.qty \in 0 .. MaxQty
    <3>1. b \in Nat /\ n \in Nat /\ b <= MaxQty /\ n <= MaxQty /\ n < b
      BY <1>m, <1>3
    <3> HIDE DEF b, n
    <3>2. b > 0 /\ b - n \in 0 .. MaxQty
      BY <3>1, <1>m
    <3> QED
      BY <3>2, <1>u DEF b, n
  <2>3. /\ \A d \in ds : d \in DeltaRow /\ d.row = r
        /\ \A d, e \in ds : d.action = e.action => d = e
    BY <2>1, <2>2 DEF Delta, DeltaRow, Actions
  <2>4. /\ Delta(r, "Reduce", before.qty - now.qty, before.unit) \in ds
        /\ \A e \in ds : e.action = "Reduce" /\ e = Delta(r, "Reduce", before.qty - now.qty, before.unit)
    BY <2>1 DEF Delta
  <2> HIDE DEF ds
  <2>5. Gain(ds, r, "Reduce") = before.qty - now.qty /\ Gain(ds, r, "Add") = 0
    BY <2>4 DEF Gain, Delta
  <2> QED
    BY <1>0, <1>m, <2>3, <2>5 DEF ds
<1>4. CASE ~ moves /\ now.qty = before.qty
  <2>1. ds \subseteq {Delta(r, "Modify", now.qty, now.unit)} /\ (ds # {} => now # NoRow)
    BY <1>0, <1>4 DEF RowDeltas
  <2>2. /\ \A d \in ds : d \in DeltaRow /\ d.row = r
        /\ \A d, e \in ds : d.action = e.action => d = e
    BY <1>0, <2>1 DEF Delta, DeltaRow, Actions
  <2>3. \A e \in ds : e.action = "Modify"
    BY <2>1 DEF Delta
  <2> HIDE DEF ds
  <2>4. Gain(ds, r, "Reduce") = 0 /\ Gain(ds, r, "Add") = 0
    BY <2>3 DEF Gain
  <2> QED
    BY <1>0, <1>4, <2>2, <2>4 DEF ds
<1> QED
  BY <1>0, <1>1, <1>2, <1>3, <1>4

(***************************************************************************)
(* Every item has the unit that makes it, and so has every snapshot.       *)
(***************************************************************************)

ItemsHaveUnits == \A o \in Orders, r \in Rows : item[o][r].status # "none" => item[o][r].unit \in Units
ShotsHaveUnits == \A o \in Orders, r \in Rows : Made(order[o].snapshot[r])

LEMMA OneOrderItems ==
    ASSUME ItemsTyped, ItemsHaveUnits, NEW o \in Orders, NEW rows, item' = [item EXCEPT ![o] = rows],
           \A r \in Rows : rows[r].status # "none" => rows[r].unit \in Units
    PROVE  ItemsHaveUnits'
BY DEF ItemsTyped, ItemsHaveUnits

LEMMA ItemsKeepUnits ==
    ASSUME RowsTyped, ItemsHaveUnits, [RestaurantNext]_restaurantVars
    PROVE  ItemsHaveUnits'
<1>0. ItemsTyped /\ \A o \in Orders, r \in Rows : item[o][r] \in ItemRow
  BY DEF RowsTyped, ItemsTyped
<1>k. ASSUME item' = item PROVE ItemsHaveUnits'
  BY <1>k DEF ItemsHaveUnits
<1>1. CASE SessionNext \/ Monitor \/ UNCHANGED restaurantVars
  BY <1>1, <1>k DEF SessionNext, OpenShift, LinkPosOpening, LinkPosClosing, Monitor, restaurantVars
<1>2. CASE TableNext
  <2>1. ASSUME NEW p, NEW T, MergeTables(p, T) \/ ReleaseCluster(p) PROVE item' = item
    BY <2>1 DEF MergeTables, ReleaseCluster
  <2>2. ASSUME NEW b, NEW t, NEW x, CleanTable(t) \/ BookTable(b, t) \/ UpdateBooking(b, x)
        PROVE  item' = item
    BY <2>2 DEF CleanTable, BookTable, UpdateBooking
  <2> QED
    BY <1>2, <1>k, <2>1, <2>2 DEF TableNext
<1>3. CASE FloorNext
  <2>1. ASSUME NEW o \in Orders, NEW n \in NewItems, item' = [item EXCEPT ![o] = n] PROVE ItemsHaveUnits'
    <3>1. \A r \in Rows : n[r].status # "none" => n[r].unit \in Units
      BY <2>1 DEF NewItems, NoItem
    <3> QED
      BY <1>0, <2>1, <3>1, OneOrderItems
  <2>2. ASSUME NEW o \in Orders, NEW t, NEW x, NEW c, CreateOrder(o, t, x, c) \/ DraftOrder(o, t)
        PROVE  ItemsHaveUnits'
    BY <2>1, <2>2 DEF CreateOrder, DraftOrder
  <2>3. ASSUME NEW o \in Orders, ConfirmOrder(o) \/ RequestBill(o) \/ LoadOrder(o) PROVE item' = item
    BY <2>3 DEF ConfirmOrder, RequestBill, LoadOrder
  <2>4. ASSUME NEW o \in Orders, CancelOrder(o) PROVE ItemsHaveUnits'
    <3> DEFINE rows == [r \in Rows |-> IF item[o][r].status = "none" THEN item[o][r]
                                       ELSE [item[o][r] EXCEPT !.status = "Cancelled"]]
    <3>1. item' = [item EXCEPT ![o] = rows]
      BY <1>0, <2>4 DEF CancelOrder, ItemsTyped
    <3>2. \A r \in Rows : rows[r].status # "none" => rows[r].unit \in Units
      BY <1>0 DEF ItemsHaveUnits, ItemRow
    <3> HIDE DEF rows
    <3> QED
      BY <1>0, <3>1, <3>2, OneOrderItems
  <2>5. ASSUME NEW o \in Orders, NEW r \in Rows, EditItem(o, r) PROVE ItemsHaveUnits'
    <3>1. PICK q \in 0 .. MaxQty, u \in Units, n \in 0 .. 1 :
            item' = [item EXCEPT ![o][r] =
              IF q = 0 THEN NoItem
              ELSE [qty |-> q, unit |-> u, note |-> n,
                    status |-> IF item[o][r].status = "none" THEN "Ordered" ELSE item[o][r].status]]
      BY <1>0, <2>5 DEF EditItem, ItemsTyped
    <3> DEFINE new == IF q = 0 THEN NoItem
                      ELSE [qty |-> q, unit |-> u, note |-> n,
                            status |-> IF item[o][r].status = "none" THEN "Ordered" ELSE item[o][r].status]
               rows == [item[o] EXCEPT ![r] = new]
    <3>2. new.status # "none" => new.unit \in Units
      BY DEF NoItem
    <3>3. item' = [item EXCEPT ![o] = rows]
      BY <1>0, <3>1 DEF ItemsTyped
    <3> HIDE DEF new
    <3>4. \A i \in Rows : rows[i].status # "none" => rows[i].unit \in Units
      BY <1>0, <3>2 DEF ItemsHaveUnits, ItemsTyped
    <3> HIDE DEF rows
    <3> QED
      BY <1>0, <3>3, <3>4, OneOrderItems
  <2> QED
    BY <1>3, <1>k, <2>2, <2>3, <2>4, <2>5 DEF FloorNext
<1>4. CASE KitchenNext
  <2>1. ASSUME NEW o \in Orders, SyncKitchen(o) PROVE ItemsHaveUnits'
    <3> DEFINE rows == [r \in Rows |-> IF item[o][r].status = "Ordered" /\ item[o][r].qty > 0
                                       THEN [item[o][r] EXCEPT !.status = "Sent"] ELSE item[o][r]]
    <3>1. item' = [item EXCEPT ![o] = rows]
      BY <1>0, <2>1 DEF SyncKitchen, ItemsTyped
    <3>2. \A r \in Rows : rows[r].status # "none" => rows[r].unit \in Units
      BY <1>0 DEF ItemsHaveUnits, ItemRow
    <3> HIDE DEF rows
    <3> QED
      BY <1>0, <3>1, <3>2, OneOrderItems
  <2>2. ASSUME NEW o \in Orders, SyncSilent(o) PROVE item' = item
    BY <2>2 DEF SyncSilent
  <2>3. ASSUME NEW o \in Orders, NEW k, AcceptTicket(o, k) \/ StartTicket(o, k) \/ RecallTicket(o, k)
        PROVE  item' = item
    BY <2>3 DEF AcceptTicket, StartTicket, RecallTicket
  <2>4. ASSUME NEW o \in Orders, NEW k, NEW r, NEW x, UpdateItem(o, k, r, x) PROVE ItemsHaveUnits'
    <3> DEFINE rows == IF item[o][r].status = "none" THEN item[o]
                       ELSE [item[o] EXCEPT ![r].status = IF x = "Cooking" THEN "Preparing" ELSE x]
    <3>1. item' = [item EXCEPT ![o] = rows]
      BY <2>4 DEF UpdateItem
    <3>2. \A q \in Rows : rows[q].status # "none" => rows[q].unit \in Units
      <4>1. CASE item[o][r].status = "none"
        BY <4>1 DEF ItemsHaveUnits
      <4>2. CASE item[o][r].status # "none"
        <5>1. \A q \in Rows : rows[q].unit = item[o][q].unit
          BY <1>0, <4>2 DEF ItemsTyped, ItemRow
        <5>2. \A q \in Rows : q # r => rows[q] = item[o][q]
          BY <1>0, <4>2 DEF ItemsTyped
        <5> HIDE DEF rows
        <5> QED
          BY <4>2, <5>1, <5>2 DEF ItemsHaveUnits
      <4> QED
        BY <4>1, <4>2
    <3> HIDE DEF rows
    <3> QED
      BY <1>0, <3>1, <3>2, OneOrderItems
  <2> QED
    BY <1>4, <1>k, <2>1, <2>2, <2>3, <2>4 DEF KitchenNext
<1>5. CASE RecipeNext
  <2>1. ASSUME NEW p, NEW k, NEW new, NEW refresh, StockStep(p, k, new, refresh) PROVE item' = item
    BY <2>1 DEF StockStep
  <2>2. ASSUME NEW p, NEW k, EntryCancelled(p, k) PROVE item' = item
    BY <2>2 DEF EntryCancelled
  <2>3. item' = item
    BY <1>5, <2>1, <2>2, Zenon
       DEF RecipeNext, PostRecipe, PostRecipeFails, SubmitRecipeFails, LoseRecipeJob, EntrySubmitted
  <2> QED
    BY <1>k, <2>3
<1>6. CASE BillNext
  <2>1. ASSUME NEW p, NEW S, NEW types, CreateSplits(p, types, S) PROVE item' = item
    BY <2>1 DEF CreateSplits
  <2>2. ASSUME NEW p, NEW z, NEW x,
               \/ CreateInvoice(p, z, x) \/ SettleComplimentary(p, z) \/ SubmitInvoice(p, z)
               \/ AskForCancel(p, z) \/ CancelInvoice(p, z) \/ FolioBillsRow(p, z)
               \/ EditSplit(p, z, x) \/ CompleteOrder(p)
        PROVE  item' = item
    BY <2>2 DEF CreateInvoice, SettleComplimentary, SubmitInvoice, AskForCancel, CancelInvoice,
                FolioBillsRow, EditSplit, CompleteOrder
  <2> QED
    BY <1>6, <1>k, <2>1, <2>2 DEF BillNext
<1> QED
  BY <1>1, <1>2, <1>3, <1>4, <1>5, <1>6 DEF RestaurantNext

(* What a synchronization tells of a row has a unit. *)
LEMMA CurrentHasUnits ==
    ASSUME RowsTyped, ItemsHaveUnits, NEW o \in Orders, NEW r \in Rows
    PROVE  /\ Current(o)[r] \in Shots /\ Made(Current(o)[r])
           /\ Current(o)[r] # NoRow => Current(o)[r].unit \in Units
<1>1. Current(o)[r] = Shot(item[o][r])
  BY DEF Current
<1>2. Current(o)[r] \in Shots
  BY CurrentTyped DEF RowsTyped
<1>3. CASE item[o][r].status = "none"
  BY <1>1, <1>2, <1>3 DEF Shot, Made, NoRow
<1>4. CASE item[o][r].status # "none"
  <2>1. Current(o)[r].unit \in Units
    BY <1>1, <1>4 DEF Shot, ItemsHaveUnits
  <2> QED
    BY <1>2, <2>1 DEF Made
<1> QED
  BY <1>3, <1>4

LEMMA ShotsKeepUnits ==
    ASSUME RowsTyped, ItemsHaveUnits, ShotsHaveUnits, [RestaurantNext]_restaurantVars
    PROVE  ShotsHaveUnits'
<1>1. SUFFICES ASSUME NEW o \in Orders, NEW r \in Rows
               PROVE  order'[o].snapshot[r].qty > 0 => order'[o].snapshot[r].unit \in Units
  BY DEF ShotsHaveUnits, Made
<1>2. \/ order'[o].snapshot = order[o].snapshot
      \/ order'[o].snapshot = Current(o)
  <2>1. CASE SyncKitchen(o)
    BY <2>1 DEF SyncKitchen, RowsTyped, OrdersTyped, OrderRow
  <2>2. CASE SyncSilent(o)
    BY <2>2 DEF SyncSilent, RowsTyped, OrdersTyped, OrderRow
  <2>3. CASE ~ SyncKitchen(o) /\ ~ SyncSilent(o)
    BY <2>3, SnapshotKept
  <2> QED
    BY <2>1, <2>2, <2>3
<1>3. Made(order[o].snapshot[r]) /\ Made(Current(o)[r])
  BY CurrentHasUnits DEF ShotsHaveUnits
<1> QED
  BY <1>2, <1>3 DEF Made

(***************************************************************************)
(* The tickets of one synchronization.                                     *)
(***************************************************************************)

\* A row is told of at most once in each way.
OneDeltaEach(ds) == /\ ds \subseteq DeltaRow
                    /\ \A d, e \in ds : d.row = e.row /\ d.action = e.action => d = e

Alike(ds, d) == {e \in ds : e.unit = d.unit /\ e.action = d.action}
NewTickets(rev, ds) == {NewTicket(rev, Alike(ds, d)) : d \in ds}

LEMMA GainIs ==
    ASSUME NEW ds, OneDeltaEach(ds), NEW e \in ds
    PROVE  Gain(ds, e.row, e.action) = e.qty
<1>1. \A d \in ds : d.row = e.row /\ d.action = e.action => d = e
  BY DEF OneDeltaEach
<1> QED
  BY <1>1 DEF Gain

LEMMA DeltasFinite ==
  ASSUME NEW ds, OneDeltaEach(ds) PROVE IsFiniteSet(ds)
<1> DEFINE X == Rows \X Actions
           h == [x \in X |-> CHOOSE e \in ds : e.row = x[1] /\ e.action = x[2]]
<1>1. IsFiniteSet(Actions)
  <2>1. Actions = ({"Add"} \cup {"Reduce"}) \cup {"Modify"}
    BY DEF Actions
  <2> QED
    BY <2>1, FS_Singleton, FS_AddElement
<1>2. IsFiniteSet(X)
  BY <1>1, RestaurantAssumption, FS_Product
<1>3. IsFiniteSet({h[x] : x \in X})
  <2> HIDE DEF X, h
  <2> QED
    BY <1>2, FiniteImage
<1>4. ASSUME NEW e \in ds PROVE e \in {h[x] : x \in X}
  <2>1. <<e.row, e.action>> \in X
    BY DEF OneDeltaEach, DeltaRow
  <2>2. \A d \in ds : d.row = e.row /\ d.action = e.action => d = e
    BY DEF OneDeltaEach
  <2>3. h[<<e.row, e.action>>] = e
    BY <2>1, <2>2
  <2> QED
    BY <2>1, <2>3
<1> QED
  BY <1>3, <1>4, FS_Subset

LEMMA NewTicketIs ==
    ASSUME NEW ds, OneDeltaEach(ds), NEW d \in ds, NEW rev \in Nat
    PROVE  LET t == NewTicket(rev, Alike(ds, d)) IN
           /\ Sound(t) /\ t.revision = rev /\ t.unit = d.unit /\ t.action = d.action
           /\ DOMAIN t.qty = {e.row : e \in Alike(ds, d)}
           /\ \A e \in Alike(ds, d) : t.qty[e.row] = e.qty
<1> DEFINE G == Alike(ds, d)
           c == CHOOSE e \in G : TRUE
           rows == {e.row : e \in G}
           q == [r \in rows |-> (CHOOSE e \in G : e.row = r).qty]
           i == [r \in rows |-> IF c.action = "Reduce" THEN "Cancelled" ELSE "New"]
           add == c.action = "Add"
           t == [revision |-> rev, unit |-> c.unit, action |-> c.action, status |-> "New",
                 qty |-> q, items |-> i,
                 stock |-> IF add /\ RecipePosting THEN "Queued" ELSE "Not Required",
                 job |-> add /\ RecipePosting, entry |-> "none"]
<1>1. t = NewTicket(rev, G)
  BY DEF NewTicket
<1>2. d \in G /\ c \in G
  BY DEF Alike
<1>3. c.unit = d.unit /\ c.action = d.action /\ c.unit \in Units /\ c.action \in Actions
  BY <1>2 DEF Alike, OneDeltaEach, DeltaRow
<1>4. rows \subseteq Rows
  BY DEF Alike, OneDeltaEach, DeltaRow
<1>5. \A e \in G : q[e.row] = e.qty
  <2>1. \A e, f \in G : e.row = f.row => e = f
    BY DEF Alike, OneDeltaEach
  <2> QED
    BY <2>1
<1>6. q \in [rows -> 0 .. MaxQty]
  <2>1. \A e \in G : e.qty \in 0 .. MaxQty
    BY DEF Alike, OneDeltaEach, DeltaRow
  <2>2. \A r \in rows : q[r] \in 0 .. MaxQty
    BY <1>5, <2>1
  <2>3. q = [r \in rows |-> q[r]]
    OBVIOUS
  <2> HIDE DEF q, rows
  <2> QED
    BY <2>2, <2>3
<1>7. i \in [rows -> TicketItemStatus]
  BY DEF TicketItemStatus
<1>8. DOMAIN q = rows /\ DOMAIN i = rows
  OBVIOUS
<1>9. RecipePosting \in BOOLEAN
  BY RestaurantAssumption
<1> HIDE DEF q, i, rows, G, c
<1>10. q \in Quantities /\ i \in ItemStates
  BY <1>4, <1>6, <1>7 DEF Quantities, ItemStates
<1>11. t \in TicketRow
  BY <1>3, <1>9, <1>10 DEF TicketRow, TicketStatus, TicketItemStatus, StockStatus, EntryStates
<1>12. Sound(t)
  BY <1>8, <1>11 DEF Sound
<1>13. t.revision = rev /\ t.unit = d.unit /\ t.action = d.action /\ t.qty = q
  BY <1>3
<1> HIDE DEF t
<1> QED
  BY <1>1, <1>5, <1>8, <1>12, <1>13 DEF rows, G

LEMMA NewBook ==
    ASSUME NEW K, NEW rev \in Nat, TicketBook(K, rev), NEW ds, OneDeltaEach(ds)
    PROVE  TicketBook(K \cup NewTickets(rev + 1, ds), rev + 1)
<1> DEFINE h == [d \in ds |-> NewTicket(rev + 1, Alike(ds, d))]
           N == NewTickets(rev + 1, ds)
<1>1. IsFiniteSet(N)
  <2>1. N = {h[d] : d \in ds}
    BY DEF NewTickets
  <2> HIDE DEF N, h
  <2> QED
    BY <2>1, DeltasFinite, FiniteImage
<1>2. IsFiniteSet(K \cup N)
  BY <1>1, FS_Union DEF TicketBook
<1>3. \A d \in ds : LET t == NewTicket(rev + 1, Alike(ds, d)) IN
        Sound(t) /\ t.revision = rev + 1 /\ t.unit = d.unit /\ t.action = d.action
  BY NewTicketIs
<1>4. \A n \in N : Sound(n) /\ n.revision = rev + 1
  BY <1>3 DEF NewTickets
<1>5. \A k \in K : Sound(k) /\ k.revision \in 1 .. rev
  BY DEF TicketBook
<1>6. ASSUME NEW m \in N, NEW n \in N, SameKey(m, n) PROVE m = n
  <2>1. PICK a \in ds, b \in ds : m = NewTicket(rev + 1, Alike(ds, a)) /\ n = NewTicket(rev + 1, Alike(ds, b))
    BY DEF NewTickets
  <2>2. a.unit = b.unit /\ a.action = b.action
    BY <1>3, <1>6, <2>1 DEF SameKey
  <2>3. Alike(ds, a) = Alike(ds, b)
    BY <2>2 DEF Alike
  <2> QED
    BY <2>1, <2>3
<1>7. ASSUME NEW k \in K, NEW n \in N PROVE ~ SameKey(k, n) /\ ~ SameKey(n, k)
  BY <1>4, <1>5 DEF SameKey
<1> HIDE DEF N
<1>8. \A k \in K \cup N : Sound(k) /\ k.revision \in 1 .. rev + 1
  BY <1>4, <1>5
<1>9. \A k, n \in K \cup N : SameKey(k, n) => k = n
  BY <1>6, <1>7 DEF TicketBook
<1> QED
  BY <1>2, <1>8, <1>9 DEF TicketBook, N

LEMMA TicketTells ==
    ASSUME NEW k, Sound(k), NEW r \in DOMAIN k.qty
    PROVE  k.qty[r] \in Int
<1>1. k.qty \in Quantities
  BY DEF Sound, TicketRow
<1> QED
  BY <1>1, RestaurantAssumption DEF Quantities

(* What the tickets tell grows by what the differences are. *)
LEMMA NewTold ==
    ASSUME NEW K, NEW rev \in Nat, TicketBook(K, rev), NEW ds, OneDeltaEach(ds),
           NEW r, NEW act
    PROVE  ToldBy(K \cup NewTickets(rev + 1, ds), r, act) = ToldBy(K, r, act) + Gain(ds, r, act)
<1> DEFINE N == NewTickets(rev + 1, ds)
           S == Telling(K, r, act)
           f == [k \in S |-> k.qty[r]]
<1>1. IsFiniteSet(S) /\ \A k \in S : Sound(k) /\ r \in DOMAIN k.qty /\ k.revision <= rev
  BY FS_Subset DEF Telling, TicketBook
<1>2. \A k \in S : f[k] \in Int
  BY <1>1, TicketTells
<1>3. Telling(K \cup N, r, act) = S \cup Telling(N, r, act)
  BY DEF Telling
<1>4. \A d \in ds : LET t == NewTicket(rev + 1, Alike(ds, d)) IN
        /\ Sound(t) /\ t.revision = rev + 1 /\ t.action = d.action
        /\ DOMAIN t.qty = {e.row : e \in Alike(ds, d)}
        /\ \A e \in Alike(ds, d) : t.qty[e.row] = e.qty
  BY NewTicketIs
<1>5. ToldBy(K, r, act) = SumFunctionOnSet(f, S) /\ SumFunctionOnSet(f, S) \in Int
  <2>1. SumFunctionOnSet(f, S) \in Int
    <3> HIDE DEF S, f
    <3> QED
      BY <1>1, <1>2, SumInteger
  <2> QED
    BY <2>1 DEF ToldBy
<1>6. ASSUME NEW n \in Telling(N, r, act)
      PROVE  \E e \in ds : e.row = r /\ e.action = act /\ n = NewTicket(rev + 1, Alike(ds, e))
  <2>1. PICK d \in ds : n = NewTicket(rev + 1, Alike(ds, d))
    BY DEF Telling, NewTickets
  <2>2. n.action = act /\ r \in DOMAIN n.qty
    BY DEF Telling
  <2>3. PICK e \in Alike(ds, d) : e.row = r
    BY <1>4, <2>1, <2>2
  <2>4. e \in ds /\ e.action = act /\ Alike(ds, e) = Alike(ds, d)
    BY <1>4, <2>1, <2>2, <2>3 DEF Alike
  <2> QED
    BY <2>1, <2>3, <2>4
<1>7. CASE \E e \in ds : e.row = r /\ e.action = act
  <2>1. PICK e \in ds : e.row = r /\ e.action = act
    BY <1>7
  <2> DEFINE t == NewTicket(rev + 1, Alike(ds, e))
             h == [k \in S \cup {t} |-> k.qty[r]]
  <2>2. e \in Alike(ds, e)
    BY DEF Alike
  <2>3. Sound(t) /\ t.revision = rev + 1 /\ t.action = act /\ r \in DOMAIN t.qty /\ t.qty[r] = e.qty
    BY <1>4, <2>1, <2>2
  <2>4. \A c \in ds : c.row = r /\ c.action = act => c = e
    BY <2>1 DEF OneDeltaEach
  <2>5. Telling(N, r, act) = {t}
    <3>1. t \in N
      BY DEF NewTickets
    <3>2. t \in Telling(N, r, act)
      BY <2>3, <3>1 DEF Telling
    <3>3. \A n \in Telling(N, r, act) : n = t
      BY <1>6, <2>4
    <3> QED
      BY <3>2, <3>3
  <2>6. t \notin S
    BY <1>1, <2>3
  <2>7. t.qty[r] \in Int
    BY <2>3, TicketTells
  <2>8. Gain(ds, r, act) = t.qty[r]
    BY <2>1, <2>3, GainIs
  <2>9. ToldBy(K \cup N, r, act) = SumFunctionOnSet(h, S \cup {t})
    BY <1>3, <2>5 DEF ToldBy
  <2>10. h[t] = t.qty[r] /\ \A k \in S : h[k] = f[k]
    OBVIOUS
  <2> HIDE DEF S, f, t, h, N
  <2>11. \A y \in S \cup {t} : h[y] \in Int
    BY <1>2, <2>7, <2>10
  <2>12. SumFunctionOnSet(h, S \cup {t}) = h[t] + SumFunctionOnSet(h, S)
    BY <1>1, <2>6, <2>11, SumPutIn
  <2>13. SumFunctionOnSet(h, S) = SumFunctionOnSet(f, S)
    BY <1>1, <1>2, <2>10, SumSame
  <2>14. ToldBy(K \cup N, r, act) = ToldBy(K, r, act) + Gain(ds, r, act)
    BY <1>5, <2>7, <2>8, <2>9, <2>10, <2>12, <2>13
  <2> QED
    BY <2>14 DEF N
<1>8. CASE ~ \E e \in ds : e.row = r /\ e.action = act
  <2>1. Telling(N, r, act) = {}
    BY <1>6, <1>8
  <2>2. Telling(K \cup N, r, act) = S
    BY <1>3, <2>1
  <2>3. ToldBy(K \cup N, r, act) = ToldBy(K, r, act)
    BY <2>2 DEF ToldBy
  <2>4. Gain(ds, r, act) = 0
    BY <1>8 DEF Gain
  <2> HIDE DEF N, S, f
  <2>5. ToldBy(K \cup N, r, act) = ToldBy(K, r, act) + Gain(ds, r, act)
    BY <1>5, <2>3, <2>4
  <2> QED
    BY <2>5 DEF N
<1> QED
  BY <1>7, <1>8

LEMMA GainInteger ==
  ASSUME NEW ds, OneDeltaEach(ds), NEW r, NEW act PROVE Gain(ds, r, act) \in Int
<1>1. CASE \E e \in ds : e.row = r /\ e.action = act
  <2>1. PICK e \in ds : e.row = r /\ e.action = act
    BY <1>1
  <2>2. e.qty \in 0 .. MaxQty
    BY DEF OneDeltaEach, DeltaRow
  <2> QED
    BY <2>1, <2>2, GainIs, RestaurantAssumption
<1>2. CASE ~ \E e \in ds : e.row = r /\ e.action = act
  BY <1>2 DEF Gain
<1> QED
  BY <1>1, <1>2

LEMMA ToldInteger ==
  ASSUME NEW K, NEW rev, TicketBook(K, rev), NEW r, NEW act PROVE ToldBy(K, r, act) \in Int
<1> DEFINE S == Telling(K, r, act)
           f == [k \in S |-> k.qty[r]]
<1>1. IsFiniteSet(S) /\ \A k \in S : Sound(k) /\ r \in DOMAIN k.qty
  BY FS_Subset DEF Telling, TicketBook
<1>2. \A k \in S : f[k] \in Int
  BY <1>1, TicketTells
<1>3. SumFunctionOnSet(f, S) \in Int
  <2> HIDE DEF S, f
  <2> QED
    BY <1>1, <1>2, SumInteger
<1> QED
  BY <1>3 DEF ToldBy

(* The differences of an order are those of its rows. *)
LEMMA DeltasAre ==
    ASSUME RowsTyped, ItemsHaveUnits, ShotsHaveUnits, NEW o \in Orders
    PROVE  /\ OneDeltaEach(Deltas(o))
           /\ \A r \in Rows : Gain(Deltas(o), r, "Add") - Gain(Deltas(o), r, "Reduce")
                              = Current(o)[r].qty - order[o].snapshot[r].qty
<1> DEFINE ds == Deltas(o)
           of(r) == RowDeltas(r, order[o].snapshot[r], Current(o)[r])
<1>1. ASSUME NEW r \in Rows
      PROVE  /\ \A d \in of(r) : d \in DeltaRow /\ d.row = r
             /\ \A d, e \in of(r) : d.action = e.action => d = e
             /\ Gain(of(r), r, "Add") - Gain(of(r), r, "Reduce") = Current(o)[r].qty - order[o].snapshot[r].qty
  <2>1. order[o].snapshot[r] \in Shots /\ Made(order[o].snapshot[r])
    BY DEF RowsTyped, OrdersTyped, OrderRow, ShotsHaveUnits
  <2>2. Current(o)[r] \in Shots /\ (Current(o)[r] # NoRow => Current(o)[r].unit \in Units)
    BY CurrentHasUnits
  <2> QED
    BY <2>1, <2>2, RowDeltasAre
<1>2. ds = UNION {of(r) : r \in Rows}
  BY DEF Deltas
<1> HIDE DEF ds, of
<1>3. \A d \in ds : d \in DeltaRow /\ d \in of(d.row)
  BY <1>1, <1>2
<1>4. \A r \in Rows : of(r) \subseteq ds
  BY <1>2
<1>5. OneDeltaEach(ds)
  <2>1. ASSUME NEW d \in ds, NEW e \in ds, d.row = e.row, d.action = e.action PROVE d = e
    <3>1. d.row \in Rows /\ d \in of(d.row) /\ e \in of(d.row)
      BY <1>3, <2>1 DEF DeltaRow
    <3> QED
      BY <1>1, <2>1, <3>1
  <2> QED
    BY <1>3, <2>1 DEF OneDeltaEach
<1>6. ASSUME NEW r \in Rows, NEW act PROVE Gain(ds, r, act) = Gain(of(r), r, act)
  <2>1. OneDeltaEach(of(r))
    BY <1>1 DEF OneDeltaEach
  <2>2. CASE \E e \in of(r) : e.row = r /\ e.action = act
    <3>1. PICK e \in of(r) : e.row = r /\ e.action = act
      BY <2>2
    <3>2. e \in ds
      BY <1>4
    <3> QED
      BY <1>5, <2>1, <3>1, <3>2, GainIs
  <2>3. CASE ~ \E e \in of(r) : e.row = r /\ e.action = act
    <3>1. ~ \E e \in ds : e.row = r /\ e.action = act
      BY <1>3, <2>3
    <3> QED
      BY <2>3, <3>1 DEF Gain
  <2> QED
    BY <2>2, <2>3
<1>7. \A r \in Rows : Gain(ds, r, "Add") - Gain(ds, r, "Reduce")
                      = Current(o)[r].qty - order[o].snapshot[r].qty
  BY <1>1, <1>6
<1> QED
  BY <1>5, <1>7 DEF ds

(* A step changes the tickets of one order. *)
LEMMA TicketsChangeInPlace ==
    ASSUME [RestaurantNext]_restaurantVars
    PROVE  ticket' = ticket \/ \E p \in Orders : \E K : ticket' = [ticket EXCEPT ![p] = K]
<1> DEFINE Goal == ticket' = ticket \/ \E p \in Orders : \E K : ticket' = [ticket EXCEPT ![p] = K]
<1>0. ASSUME NEW p \in Orders, NEW K, ticket' = [ticket EXCEPT ![p] = K] PROVE Goal
  BY <1>0
<1>s. ASSUME NEW p \in Orders, NEW k, NEW new, SetTicket(p, k, new) PROVE Goal
  BY <1>s, <1>0 DEF SetTicket
<1>1. CASE SessionNext \/ Monitor \/ UNCHANGED restaurantVars
  BY <1>1 DEF SessionNext, OpenShift, LinkPosOpening, LinkPosClosing, Monitor, restaurantVars
<1>2. CASE TableNext
  <2>1. ASSUME NEW p, NEW T, MergeTables(p, T) \/ ReleaseCluster(p) PROVE ticket' = ticket
    BY <2>1 DEF MergeTables, ReleaseCluster
  <2>2. ASSUME NEW b, NEW t, NEW x, CleanTable(t) \/ BookTable(b, t) \/ UpdateBooking(b, x)
        PROVE  ticket' = ticket
    BY <2>2 DEF CleanTable, BookTable, UpdateBooking
  <2> QED
    BY <1>2, <2>1, <2>2 DEF TableNext
<1>3. CASE FloorNext
  <2>1. ASSUME NEW p, NEW t, NEW x, NEW c, CreateOrder(p, t, x, c) \/ DraftOrder(p, t)
        PROVE  ticket' = ticket
    BY <2>1 DEF CreateOrder, DraftOrder
  <2>2. ASSUME NEW p, NEW r, ConfirmOrder(p) \/ RequestBill(p) \/ LoadOrder(p) \/ EditItem(p, r)
        PROVE  ticket' = ticket
    BY <2>2 DEF ConfirmOrder, RequestBill, LoadOrder, EditItem
  <2>3. ASSUME NEW p \in Orders, CancelOrder(p) PROVE Goal
    BY <2>3, <1>0 DEF CancelOrder
  <2> QED
    BY <1>3, <2>1, <2>2, <2>3 DEF FloorNext
<1>4. CASE KitchenNext
  <2>1. ASSUME NEW p, SyncSilent(p) PROVE ticket' = ticket
    BY <2>1 DEF SyncSilent
  <2>2. ASSUME NEW p \in Orders, SyncKitchen(p) PROVE Goal
    BY <2>2, <1>0 DEF SyncKitchen
  <2>3. ASSUME NEW p \in Orders, NEW k, AcceptTicket(p, k) \/ StartTicket(p, k) \/ RecallTicket(p, k)
        PROVE  Goal
    BY <2>3, <1>s, Zenon DEF AcceptTicket, StartTicket, RecallTicket
  <2>4. ASSUME NEW p \in Orders, NEW k, NEW r, NEW x, UpdateItem(p, k, r, x) PROVE Goal
    BY <2>4, <1>s, Zenon DEF UpdateItem
  <2> QED
    BY <1>4, <2>1, <2>2, <2>3, <2>4 DEF KitchenNext
<1>5. CASE RecipeNext
  <2>1. ASSUME NEW p \in Orders, NEW k, NEW new, NEW refresh, StockStep(p, k, new, refresh) PROVE Goal
    BY <2>1, <1>0 DEF StockStep
  <2>2. ASSUME NEW p \in Orders, NEW k, EntryCancelled(p, k) PROVE Goal
    BY <2>2, <1>s, Zenon DEF EntryCancelled
  <2> HIDE DEF Goal
  <2>3. Goal
    BY <1>5, <2>1, <2>2, Zenon
       DEF RecipeNext, PostRecipe, PostRecipeFails, SubmitRecipeFails, LoseRecipeJob, EntrySubmitted
  <2> QED
    BY <2>3 DEF Goal
<1>6. CASE BillNext
  <2>1. ASSUME NEW p, NEW S, NEW types, CreateSplits(p, types, S) PROVE ticket' = ticket
    BY <2>1 DEF CreateSplits
  <2>2. ASSUME NEW p, NEW z, NEW x,
               \/ CreateInvoice(p, z, x) \/ SettleComplimentary(p, z) \/ SubmitInvoice(p, z)
               \/ AskForCancel(p, z) \/ CancelInvoice(p, z) \/ FolioBillsRow(p, z)
               \/ EditSplit(p, z, x) \/ CompleteOrder(p)
        PROVE  ticket' = ticket
    BY <2>2 DEF CreateInvoice, SettleComplimentary, SubmitInvoice, AskForCancel, CancelInvoice,
                FolioBillsRow, EditSplit, CompleteOrder
  <2> QED
    BY <1>6, <2>1, <2>2 DEF BillNext
<1> QED
  BY <1>1, <1>2, <1>3, <1>4, <1>5, <1>6 DEF RestaurantNext

\* The tickets of o and what the kitchen knows after a step.
Follow(K, rev, snapshot) ==
  /\ TicketBook(K, rev)
  /\ \A r \in Rows : ToldBy(K, r, "Add") - ToldBy(K, r, "Reduce") = snapshot[r].qty

KitchenInv ==
  /\ RowsTyped /\ ItemsHaveUnits /\ ShotsHaveUnits /\ TicketsTyped
  /\ \A o \in Orders : Follow(ticket[o], order[o].revision, order[o].snapshot)

LEMMA FollowStep ==
    ASSUME KitchenInv, [RestaurantNext]_restaurantVars, NEW o \in Orders
    PROVE  Follow(ticket'[o], order'[o].revision, order'[o].snapshot)
<1> DEFINE K == ticket[o]
           rev == order[o].revision
           ds == Deltas(o)
<1>0. /\ RowsTyped /\ TicketsTyped /\ Booked
      /\ TicketBook(K, rev) /\ rev \in Nat /\ order \in [Orders -> OrderRow]
      /\ \A r \in Rows : ToldBy(K, r, "Add") - ToldBy(K, r, "Reduce") = order[o].snapshot[r].qty
  <2>1. order \in [Orders -> OrderRow] /\ \A p \in Orders : TicketBook(ticket[p], order[p].revision)
    BY DEF KitchenInv, RowsTyped, OrdersTyped, Follow
  <2>2. rev \in Nat
    <3>1. rev \in 0 .. MaxRevision /\ MaxRevision \in Nat
      BY <2>1, RestaurantAssumption DEF OrderRow
    <3> HIDE DEF rev
    <3> QED
      BY <3>1
  <2> QED
    BY <2>1, <2>2 DEF KitchenInv, Follow, Booked
<1>1. /\ OneDeltaEach(ds)
      /\ \A r \in Rows : Gain(ds, r, "Add") - Gain(ds, r, "Reduce")
                         = Current(o)[r].qty - order[o].snapshot[r].qty
  BY DeltasAre DEF KitchenInv
<1>2. \A r \in Rows : order[o].snapshot[r].qty \in Int /\ Current(o)[r].qty \in Int
  <2>1. \A r \in Rows : order[o].snapshot[r] \in Shots /\ Current(o)[r] \in Shots
    BY <1>0, CurrentTyped DEF RowsTyped, OrderRow
  <2> QED
    BY <2>1, RestaurantAssumption DEF Shots
<1>3. \A r, act : ToldBy(K, r, act) \in Int /\ Gain(ds, r, act) \in Int
  BY <1>0, <1>1, ToldInteger, GainInteger
<1>4. CASE SyncKitchen(o)
  <2>1. ticket'[o] = K \cup NewTickets(rev + 1, ds)
    <3> DEFINE groups == {Alike(ds, d) : d \in ds}
    <3>1. groups = {{e \in ds : e.unit = d.unit /\ e.action = d.action} : d \in ds}
      BY DEF Alike
    <3>2. ticket' = [ticket EXCEPT ![o] = K \cup {NewTicket(rev + 1, g) :
              g \in {{e \in ds : e.unit = d.unit /\ e.action = d.action} : d \in ds}}]
      BY <1>4 DEF SyncKitchen
    <3>3. {NewTicket(rev + 1, g) : g \in groups} = NewTickets(rev + 1, ds)
      <4> HIDE DEF ds, rev
      <4> QED
        BY DEF NewTickets
    <3>4. ticket'[o] = K \cup {NewTicket(rev + 1, g) :
              g \in {{e \in ds : e.unit = d.unit /\ e.action = d.action} : d \in ds}}
      <4> HIDE DEF ds, rev, K
      <4> QED
        BY <1>0, <3>2 DEF TicketsTyped
    <3> HIDE DEF groups, ds, rev, K
    <3> QED
      BY <3>1, <3>3, <3>4
  <2>2. order'[o].revision = rev + 1 /\ order'[o].snapshot = Current(o)
    BY <1>0, <1>4 DEF SyncKitchen, OrderRow
  <2> HIDE DEF K, rev, ds
  <2>3. TicketBook(ticket'[o], rev + 1)
    BY <1>0, <1>1, <2>1, NewBook
  <2>4. ASSUME NEW r \in Rows
        PROVE  ToldBy(ticket'[o], r, "Add") - ToldBy(ticket'[o], r, "Reduce") = Current(o)[r].qty
    <3>1. /\ ToldBy(ticket'[o], r, "Add") = ToldBy(K, r, "Add") + Gain(ds, r, "Add")
          /\ ToldBy(ticket'[o], r, "Reduce") = ToldBy(K, r, "Reduce") + Gain(ds, r, "Reduce")
      BY <1>0, <1>1, <2>1, NewTold
    <3> QED
      BY <1>0, <1>1, <1>2, <1>3, <3>1
  <2> QED
    BY <2>2, <2>3, <2>4 DEF Follow
<1>5. ASSUME NEW p \in Orders, p # o, SyncKitchen(p)
      PROVE  Follow(ticket'[o], order'[o].revision, order'[o].snapshot)
  <2>1. ticket'[o] = K
    BY <1>0, <1>5 DEF SyncKitchen, TicketsTyped
  <2>2. order'[o] = order[o]
    <3>1. PICK x : order' = [order EXCEPT ![p] = x]
      <4>1. order' = [order EXCEPT ![p] = order'[p]]
        BY <1>0, <1>5 DEF SyncKitchen
      <4> QED
        BY <4>1
    <3> QED
      BY <1>0, <1>5, <3>1
  <2> QED
    BY <2>1, <2>2 DEF KitchenInv
<1>6. CASE \A p \in Orders : ~ SyncKitchen(p)
  <2>1. Restates(K, ticket'[o])
    BY <1>0, <1>6, TicketsRestated
  <2>2. order'[o].revision = rev
    BY <1>0, <1>6, SnapshotKept
  <2>3. \A r \in Rows : order'[o].snapshot[r].qty = order[o].snapshot[r].qty
    <3>1. CASE ~ SyncSilent(o)
      BY <1>0, <1>6, <3>1, SnapshotKept
    <3>2. CASE SyncSilent(o)
      <4>1. ds = {} /\ order'[o].snapshot = Current(o)
        BY <1>0, <3>2 DEF SyncSilent, OrderRow
      <4>2. \A r \in Rows : Gain(ds, r, "Add") = 0 /\ Gain(ds, r, "Reduce") = 0
        BY <4>1 DEF Gain
      <4>3. \A r \in Rows : Current(o)[r].qty - order[o].snapshot[r].qty = 0
        <5> HIDE DEF ds
        <5> QED
          BY <1>1, <4>2
      <4>4. ASSUME NEW r \in Rows PROVE Current(o)[r].qty = order[o].snapshot[r].qty
        BY <1>2, <4>3
      <4> QED
        BY <4>1, <4>4
    <3> QED
      BY <3>1, <3>2
  <2> HIDE DEF K, rev
  <2>4. TicketBook(ticket'[o], rev)
    BY <1>0, <2>1, RestatedBook
  <2>5. \A r, act : ToldBy(ticket'[o], r, act) = ToldBy(K, r, act)
    BY <1>0, <2>1, RestatedTold
  <2> QED
    BY <1>0, <2>2, <2>3, <2>4, <2>5 DEF Follow
<1> QED
  BY <1>4, <1>5, <1>6

LEMMA KitchenInit == RestaurantInit => KitchenInv
<1> SUFFICES ASSUME RestaurantInit PROVE KitchenInv
  OBVIOUS
<1>1. RowsTyped
  BY OrdersInit
<1>2. ItemsHaveUnits
  BY DEF RestaurantInit, ItemsHaveUnits, NoItem
<1>3. \A o \in Orders : order[o].revision = 0 /\ ticket[o] = {} /\ \A r \in Rows : order[o].snapshot[r] = NoRow
  BY DEF RestaurantInit
<1>4. ShotsHaveUnits
  BY <1>3 DEF ShotsHaveUnits, Made, NoRow
<1>5. TicketsTyped
  BY DEF RestaurantInit, TicketsTyped
<1>6. \A r, act : ToldBy({}, r, act) = 0
  <2> TAKE r, act
  <2>1. Telling({}, r, act) = {}
    BY DEF Telling
  <2> QED
    BY <2>1, SumEmpty DEF ToldBy
<1>7. TicketBook({}, 0)
  BY FS_EmptySet DEF TicketBook
<1>8. \A o \in Orders : Follow(ticket[o], order[o].revision, order[o].snapshot)
  BY <1>3, <1>6, <1>7 DEF Follow, NoRow
<1> QED
  BY <1>1, <1>2, <1>4, <1>5, <1>8 DEF KitchenInv

LEMMA KitchenStep == KitchenInv /\ [RestaurantNext]_restaurantVars => KitchenInv'
<1> SUFFICES ASSUME KitchenInv, [RestaurantNext]_restaurantVars PROVE KitchenInv'
  OBVIOUS
<1>1. RowsTyped' /\ ItemsHaveUnits' /\ ShotsHaveUnits'
  BY RowsStep, ItemsKeepUnits, ShotsKeepUnits DEF KitchenInv
<1>2. \A o \in Orders : Follow(ticket'[o], order'[o].revision, order'[o].snapshot)
  BY FollowStep
<1>3. \A o \in Orders : ticket'[o] \subseteq TicketRow
  BY <1>2 DEF Follow, TicketBook, Sound
<1>4. TicketsTyped'
  <2>1. CASE ticket' = ticket
    BY <2>1 DEF KitchenInv, TicketsTyped
  <2>2. ASSUME NEW p \in Orders, NEW K, ticket' = [ticket EXCEPT ![p] = K] PROVE TicketsTyped'
    <3>1. K = ticket'[p]
      BY <2>2 DEF KitchenInv, TicketsTyped
    <3>2. K \in SUBSET TicketRow
      BY <1>3, <3>1
    <3> QED
      BY <2>2, <3>2 DEF KitchenInv, TicketsTyped
  <2> QED
    BY <2>1, <2>2, TicketsChangeInPlace
<1> QED
  BY <1>1, <1>2, <1>4 DEF KitchenInv

LEMMA KitchenAlways == RestaurantSpec => []KitchenInv
BY KitchenInit, KitchenStep, PTL DEF RestaurantSpec

(***************************************************************************)
(* Theorems.                                                               *)
(***************************************************************************)

\* What all the tickets of an order add and take off is what the kitchen was last told,
\* row by row, however often rows are changed, moved to another unit, cancelled or
\* removed and tickets accepted, recalled or served in between (sync_order_to_kitchen).
THEOREM KitchenIsTold == RestaurantSpec => []KitchenKnowsTheOrder
<1>1. KitchenInv => KitchenKnowsTheOrder
  BY DEF KitchenInv, Follow, KitchenKnowsTheOrder, Told
<1> QED
  BY <1>1, KitchenAlways, PTL

\* An order is completed only when the food of its live tickets has left the stock: the
\* stock status of a ticket is never ahead of its entry (complete_restaurant_order,
\* on_stock_entry_cancel).  An old copy of a billed order completes nothing.
THEOREM FoodIsIssued == RestaurantSpec => BilledFoodIsIssued
<1> DEFINE A == \A o \in Orders :
             order[o].status # "Billed" /\ order'[o].status = "Billed" /\ RecipePosting
             /\ ~ OldCopySaved(o) =>
               \A k \in ticket[o] : k.action = "Add" /\ k.status # "Cancelled" => k.entry = "Submitted"
<1>1. KitchenInv /\ [RestaurantNext]_restaurantVars => A
  <2> SUFFICES ASSUME KitchenInv, [RestaurantNext]_restaurantVars, NEW o \in Orders,
                      order[o].status # "Billed", order'[o].status = "Billed", RecipePosting,
                      ~ OldCopySaved(o), NEW k \in ticket[o], k.action = "Add", k.status # "Cancelled"
               PROVE  k.entry = "Submitted"
    OBVIOUS
  <2>1. CompleteOrder(o)
    BY HowToBill DEF KitchenInv
  <2>2. Posted(k)
    BY <2>1 DEF CompleteOrder, StockIncomplete
  <2>3. Sound(k)
    BY DEF KitchenInv, Follow, TicketBook
  <2> QED
    BY <2>2, <2>3 DEF Posted, Sound
<1>2. KitchenInv /\ [RestaurantNext]_restaurantVars => [A]_restaurantVars
  BY <1>1
<1> QED
  BY <1>2, KitchenAlways, PTL DEF RestaurantSpec, BilledFoodIsIssued

\* Every variable has its type, the tickets with the revision they were made at.
THEOREM RestaurantTyped == RestaurantSpec => []RestaurantTypeOK
<1>1. KitchenInv => RestaurantTypeOK
  <2> SUFFICES ASSUME KitchenInv PROVE RestaurantTypeOK
    OBVIOUS
  <2>1. ASSUME NEW o \in Orders, NEW k \in ticket[o]
        PROVE  /\ k.revision \in 1 .. order[o].revision /\ k.unit \in Units
               /\ k.action \in {"Add", "Reduce", "Modify"}
               /\ DOMAIN k.qty = DOMAIN k.items /\ DOMAIN k.qty \subseteq Rows
               /\ \A r \in DOMAIN k.qty : k.qty[r] \in 0 .. MaxQty /\ k.items[r] \in TicketItemStatus
               /\ k.status \in TicketItemStatus \cup {"Partially Ready"}
               /\ k.stock \in StockStatus /\ k.job \in BOOLEAN
               /\ k.entry \in {"none", "Draft", "Submitted", "Cancelled"}
    <3>1. k.revision \in 1 .. order[o].revision /\ k \in TicketRow /\ DOMAIN k.qty = DOMAIN k.items
      BY DEF KitchenInv, Follow, TicketBook, Sound
    <3>2. k.qty \in Quantities /\ k.items \in ItemStates
      BY <3>1 DEF TicketRow
    <3>3. DOMAIN k.qty \subseteq Rows /\ \A r \in DOMAIN k.qty : k.qty[r] \in 0 .. MaxQty
      BY <3>2 DEF Quantities
    <3>4. \A r \in DOMAIN k.items : k.items[r] \in TicketItemStatus
      BY <3>2 DEF ItemStates
    <3>5. /\ k.unit \in Units /\ k.action \in Actions /\ k.status \in TicketStatus
          /\ k.stock \in StockStatus /\ k.job \in BOOLEAN /\ k.entry \in EntryStates
      BY <3>1 DEF TicketRow
    <3> QED
      BY <3>1, <3>3, <3>4, <3>5 DEF Actions, TicketStatus, EntryStates
  <2>2. RowsTyped
    BY DEF KitchenInv
  <2> QED
    BY <2>1, <2>2
       DEF RestaurantTypeOK, RowsTyped, OrdersTyped, ItemsTyped, FloorTyped, SplitsTyped, OrderRow,
           ItemRow, TableRow, TableStates, BookingRow, SplitRow, CopiesTyped, CopyRow
<1> QED
  BY <1>1, KitchenAlways, PTL

=============================================================================
