----------------------------- MODULE Restaurant -----------------------------
(***************************************************************************)
(* Restaurant orders from the table to the bill (services.py,              *)
(* restaurant_controls.py, fnb_inventory.py): tables and table clusters,   *)
(* orders and their items, kitchen tickets made of the difference between  *)
(* the order and what the kitchen was last told, recipe stock entries,     *)
(* bill splits and their ERPNext invoices.                                 *)
(*                                                                         *)
(* An operation locks the row it is about and is one step.  The cashier's  *)
(* session, forms, stock entries and invoices change between the steps.    *)
(* Not locked are the order that a form or update_kitchen_item has loaded  *)
(* and saves later, and the order whose status is asked for when one of    *)
(* its invoices is cancelled.                                              *)
(***************************************************************************)
EXTENDS Integers, FiniteSets, FiniteSetsExt

CONSTANTS
  Orders, Tables, Bookings,   \* restaurant orders, tables, table reservations
  Rows, Units,                \* item rows of an order, kitchen production units
  Splits,                     \* bill splits of an order
  MaxQty, MaxRevision,        \* bounds: quantity of a row, kitchen revisions
  RequireOpening,             \* require_pos_opening_entry of the outlet
  RecipePosting,              \* the outlet posts recipes as material issues
  NoOrder

ASSUME RestaurantAssumption ==
  /\ MaxQty \in Nat \ {0} /\ MaxRevision \in Nat \ {0}
  /\ RequireOpening \in BOOLEAN /\ RecipePosting \in BOOLEAN
  /\ NoOrder \notin Orders /\ Tables # {} /\ IsFiniteSet(Rows)

VARIABLES
  session,   \* the cashier shift and its POS Opening Entry
  order,     \* tabHotel Restaurant Order
  item,      \* its item rows
  ticket,    \* kitchen tickets of an order
  table,     \* tabHotel Restaurant Table
  cluster,   \* tables of the active cluster of an order
  booking,   \* tabHotel Table Reservation: table and status
  split,     \* bill splits of an order, with invoice and mirrored folio row
  alerts,    \* orders with an open Kitchen Sync Required alert
  copy,      \* status and stock of an order as loaded by somebody who may save it
  voiding    \* status of the order as read by the cancellation of an invoice

restaurantVars == <<session, order, item, ticket, table, cluster, booking, split, alerts,
                    copy, voiding>>
aside == <<copy, voiding>>

OrderStatus == {"none", "Draft", "Pending Confirmation", "Confirmed", "In Kitchen",
                "Ready", "Served", "Bill Requested", "Billed", "Cancelled"}
ItemStatus == {"none", "Ordered", "Sent", "Preparing", "Ready", "Served", "Cancelled"}
TicketItemStatus == {"New", "Accepted", "Cooking", "Ready", "Served", "Recalled", "Cancelled"}
StockStatus == {"Not Required", "Queued", "Draft Created", "Submitted", "Failed", "Cancelled"}
Shots == [qty : 0 .. MaxQty, unit : Units \cup {"none"}, note : 0 .. 1]
NoRow == [qty |-> 0, unit |-> "none", note |-> 0]
NoItem == [qty |-> 0, unit |-> "none", note |-> 0, status |-> "none"]
NoSplit == [state |-> "none", type |-> "Cash", lines |-> [r \in Rows |-> 0],
            doc |-> "none", row |-> "none"]

NoCopy == [status |-> "none", stock |-> "Not Required"]

Closed(o) == order[o].status \in {"Billed", "Cancelled"}

\* Every variable has its type.
RestaurantTypeOK ==
  /\ session \in {"none", "shift", "open", "closed"}
  /\ order \in [Orders -> [status : OrderStatus, table : Tables, complimentary : BOOLEAN,
                           snapshot : [Rows -> Shots], revision : 0 .. MaxRevision,
                           stock : {"Not Required", "Pending", "Reconciled"}]]
  /\ item \in [Orders -> [Rows -> [qty : 0 .. MaxQty, unit : Units \cup {"none"},
                                   note : 0 .. 1, status : ItemStatus]]]
  /\ \A o \in Orders : \A k \in ticket[o] :
       /\ k.revision \in 1 .. order[o].revision /\ k.unit \in Units
       /\ k.action \in {"Add", "Reduce", "Modify"}
       /\ DOMAIN k.qty = DOMAIN k.items /\ DOMAIN k.qty \subseteq Rows
       /\ \A r \in DOMAIN k.qty : k.qty[r] \in 0 .. MaxQty /\ k.items[r] \in TicketItemStatus
       /\ k.status \in TicketItemStatus \cup {"Partially Ready"}
       /\ k.stock \in StockStatus /\ k.job \in BOOLEAN
       /\ k.entry \in {"none", "Draft", "Submitted", "Cancelled"}
  /\ table \in [Tables -> [active : Orders \cup {NoOrder}, cluster : Orders \cup {NoOrder},
                           status : {"Available", "Reserved", "Occupied", "In Kitchen",
                                     "Bill Requested", "Cleaning"}]]
  /\ cluster \in [Orders -> SUBSET Tables]
  /\ booking \in [Bookings -> [table : Tables, status : {"none", "Confirmed", "Seated",
                                        "Completed", "No Show", "Cancelled"}]]
  /\ split \in [Orders -> [Splits ->
       [state : {"none", "Draft", "Invoice Draft Created", "Submitted"},
        type : {"Cash", "Room Posting", "Complimentary"}, lines : [Rows -> 0 .. MaxQty],
        doc : {"none", "Draft", "Submitted", "Cancelled"},
        row : {"none", "invoice", "open", "folio"}]]]
  /\ alerts \subseteq Orders
  /\ copy \in [Orders -> [status : OrderStatus, stock : {"Not Required", "Pending", "Reconciled"}]]
  /\ voiding \in [Orders -> [Splits -> OrderStatus \cup {"no"}]]

RestaurantInit ==
  /\ session = "none"
  /\ order = [o \in Orders |-> [status |-> "none", table |-> CHOOSE t \in Tables : TRUE,
                                complimentary |-> FALSE, snapshot |-> [r \in Rows |-> NoRow],
                                revision |-> 0, stock |-> "Not Required"]]
  /\ item = [o \in Orders |-> [r \in Rows |-> NoItem]]
  /\ ticket = [o \in Orders |-> {}]
  /\ table = [t \in Tables |-> [active |-> NoOrder, cluster |-> NoOrder, status |-> "Available"]]
  /\ cluster = [o \in Orders |-> {}]
  /\ booking = [b \in Bookings |-> [table |-> CHOOSE t \in Tables : TRUE, status |-> "none"]]
  /\ split = [o \in Orders |-> [s \in Splits |-> NoSplit]]
  /\ alerts = {}
  /\ copy = [o \in Orders |-> NoCopy]
  /\ voiding = [o \in Orders |-> [s \in Splits |-> "no"]]

-----------------------------------------------------------------------------
(* The cashier's session: a shift is opened, a submitted POS Opening Entry *)
(* is linked to it, and the POS session ends.                              *)

OpenShift ==
  /\ session \in {"none", "closed"} /\ session' = "shift"
  /\ UNCHANGED <<order, item, ticket, table, cluster, booking, split, alerts, aside>>

LinkPosOpening ==
  /\ session = "shift" /\ session' = "open"
  /\ UNCHANGED <<order, item, ticket, table, cluster, booking, split, alerts, aside>>

\* The POS Closing Entry is submitted, which ends the opening entry, and linked.
LinkPosClosing ==
  /\ session = "open" /\ session' = "closed"
  /\ UNCHANGED <<order, item, ticket, table, cluster, booking, split, alerts, aside>>

SessionAllowed == RequireOpening => session = "open"

-----------------------------------------------------------------------------
(* Tables and orders.                                                      *)

\* Mutant: the table gets the status of the order as it is.
MutTableStatusPlain(s) == s

TableStatus(s) == CASE s \in {"In Kitchen", "Ready"} -> "In Kitchen"
                    [] s = "Bill Requested" -> "Bill Requested"
                    [] s = "Billed" -> "Cleaning"
                    [] s = "Cancelled" -> "Available"
                    [] OTHER -> "Occupied"

Taken(t, o) == table[t].active \notin {NoOrder, o} /\ ~ Closed(table[t].active)

\* validate of an order, at every save: no other open order has its table.
MaySave(o) == ~ Taken(order[o].table, o)

\* A save moves the modified time of the order, and whoever loaded it before cannot
\* save it any more (check_if_latest).  Hooks write fields and leave that time alone.
Saved(o) == copy' = [copy EXCEPT ![o] = NoCopy] /\ UNCHANGED voiding

\* What a save may write back: the order as it is, or as it was when loaded.
Loaded(o) == {[status |-> order[o].status, stock |-> order[o].stock]} \cup
             IF copy[o] = NoCopy THEN {} ELSE {copy[o]}

\* The order is shown in its form, or loaded by update_kitchen_item.
LoadOrder(o) ==
  /\ order[o].status # "none"
  /\ copy' = [copy EXCEPT ![o] = [status |-> order[o].status, stock |-> order[o].stock]]
  /\ UNCHANGED <<session, order, item, ticket, table, cluster, booking, split, alerts, voiding>>

SetTable(o, s) ==
  table' = [table EXCEPT ![order[o].table].active = o, ![order[o].table].status = s]

\* The items of a new order: at least one row, all to one unit.
NewItems == {[r \in Rows |-> IF q[r] = 0 THEN NoItem
                             ELSE [qty |-> q[r], unit |-> u, note |-> 0, status |-> "Ordered"]] :
              q \in {f \in [Rows -> 0 .. MaxQty] : \E r \in Rows : f[r] > 0}, u \in Units}

\* create_restaurant_order and submit_qr_order: the table is locked and asked for.
CreateOrder(o, t, s, c) ==
  /\ order[o].status = "none"
  /\ s = "Confirmed" => SessionAllowed
  /\ ~ Taken(t, o)
  /\ order' = [order EXCEPT ![o].status = s, ![o].table = t, ![o].complimentary = c]
  /\ \E n \in NewItems : item' = [item EXCEPT ![o] = n]
  /\ table' = [table EXCEPT ![t].active = o, ![t].status = "Occupied"]
  /\ UNCHANGED <<session, ticket, cluster, booking, split, alerts, aside>>

\* The form of a new order: the table is checked and not taken.
DraftOrder(o, t) ==
  /\ order[o].status = "none" /\ ~ Taken(t, o)
  /\ order' = [order EXCEPT ![o].status = "Draft", ![o].table = t]
  /\ \E n \in NewItems : item' = [item EXCEPT ![o] = n]
  /\ UNCHANGED <<session, ticket, table, cluster, booking, split, alerts, aside>>

ConfirmOrder(o) ==
  /\ order[o].status \in {"Draft", "Pending Confirmation"} /\ SessionAllowed /\ MaySave(o)
  /\ order' = [order EXCEPT ![o].status = "Confirmed"]
  /\ SetTable(o, TableStatus("Confirmed"))
  /\ Saved(o)
  /\ UNCHANGED <<session, item, ticket, cluster, booking, split, alerts>>

\* The form of an order, whatever its status: a row is added, changed or removed, or
\* what was loaded is written as it is.
EditItem(o, r) ==
  /\ order[o].status # "none" /\ MaySave(o)
  /\ \E c \in Loaded(o) :
       order' = [order EXCEPT ![o].status = c.status, ![o].stock = c.stock]
  /\ \E q \in 0 .. MaxQty, u \in Units, n \in 0 .. 1 :
       /\ q = 0 \/ item[o][r].status # "none" \/ \A k \in ticket[o] : r \notin DOMAIN k.items
       /\ item' = [item EXCEPT ![o][r] =
            IF q = 0 THEN NoItem
            ELSE [qty |-> q, unit |-> u, note |-> n,
                  status |-> IF @.status = "none" THEN "Ordered" ELSE @.status]]
       /\ item' # item \/ order' # order
  /\ Saved(o)
  /\ UNCHANGED <<session, ticket, table, cluster, booking, split, alerts>>

RequestBill(o) ==
  /\ order[o].status \in {"Ready", "Served", "In Kitchen", "Confirmed"} /\ MaySave(o)
  /\ order' = [order EXCEPT ![o].status = "Bill Requested"]
  /\ SetTable(o, "Bill Requested")
  /\ Saved(o)
  /\ UNCHANGED <<session, item, ticket, cluster, booking, split, alerts>>

\* merge_restaurant_tables; the status of the order is not asked for.
MergeTables(o, T) ==
  LET members == T \cup {order[o].table} IN
  /\ order[o].status # "none" /\ cluster[o] = {}
  /\ Cardinality(members) >= 2
  /\ \A t \in members : table[t].active \in {NoOrder, o} /\ table[t].status # "Cleaning"
  /\ cluster' = [cluster EXCEPT ![o] = members]
  /\ table' = [t \in Tables |-> IF t \in members
                 THEN [active |-> o, cluster |-> o, status |-> "Occupied"] ELSE table[t]]
  /\ UNCHANGED <<session, order, item, ticket, booking, split, alerts, aside>>

\* Tables once the cluster of o, if any, is released; tt is the table before that.
Released(o, tt) ==
  [t \in Tables |-> IF t \in cluster[o] /\ tt[t].cluster = o
                    THEN [active |-> NoOrder, cluster |-> NoOrder, status |-> "Cleaning"]
                    ELSE tt[t]]

ReleaseCluster(o) ==
  /\ cluster[o] # {}
  /\ table' = Released(o, table)
  /\ cluster' = [cluster EXCEPT ![o] = {}]
  /\ UNCHANGED <<session, order, item, ticket, booking, split, alerts, aside>>

\* A table is marked clean on its form.
CleanTable(t) ==
  /\ table[t].status = "Cleaning"
  /\ table' = [table EXCEPT ![t].status = "Available"]
  /\ UNCHANGED <<session, order, item, ticket, cluster, booking, split, alerts, aside>>

ActiveBooking(b) == booking[b].status \in {"Confirmed", "Seated"}

\* A table reservation is saved: no other one has the table at that time.
BookTable(b, t) ==
  /\ booking[b].status = "none"
  /\ \A c \in Bookings \ {b} : booking[c].table = t => ~ ActiveBooking(c)
  /\ booking' = [booking EXCEPT ![b] = [table |-> t, status |-> "Confirmed"]]
  /\ UNCHANGED <<session, order, item, ticket, table, cluster, split, alerts, aside>>

\* update_table_reservation: any status to any other.
UpdateBooking(b, s) ==
  LET t == booking[b].table IN
  /\ booking[b].status # "none"
  /\ \A c \in Bookings \ {b} : booking[c].table = t => ~ ActiveBooking(c)
  /\ s = "Seated" => ~ Taken(t, NoOrder)
  /\ booking' = [booking EXCEPT ![b].status = s]
  /\ table' = [table EXCEPT ![t].status =
       CASE s = "Seated" -> "Occupied"
         [] s \in {"Completed", "No Show", "Cancelled"} /\ table[t].active = NoOrder -> "Available"
         [] OTHER -> "Reserved"]
  /\ UNCHANGED <<session, order, item, ticket, cluster, split, alerts, aside>>

-----------------------------------------------------------------------------
(* The kitchen: what the order says now, what the kitchen was told last,   *)
(* and one ticket per production unit and kind of difference.              *)

Shot(i) == IF i.status = "none" THEN NoRow
           ELSE [qty |-> IF i.status = "Cancelled" THEN 0 ELSE i.qty, unit |-> i.unit, note |-> i.note]

Current(o) == [r \in Rows |-> Shot(item[o][r])]

Delta(r, act, q, u) == [row |-> r, action |-> act, qty |-> q, unit |-> u]

\* Mutant: a row that moves to another unit is added there and not taken off here.
MutRowDeltasMove(r, before, now) ==
  LET moves == before.unit # now.unit /\ before.qty > 0 /\ now.qty > 0 IN
  CASE moves -> {Delta(r, "Add", now.qty, now.unit)}
    [] ~ moves /\ now.qty > before.qty -> {Delta(r, "Add", now.qty - before.qty, now.unit)}
    [] ~ moves /\ now.qty < before.qty -> {Delta(r, "Reduce", before.qty - now.qty, before.unit)}
    [] OTHER -> {}

\* diff_kitchen_snapshots, for one row.
RowDeltas(r, before, now) ==
  LET here == before # NoRow /\ now # NoRow
      moves == here /\ before.unit # now.unit /\ before.qty > 0 /\ now.qty > 0 IN
  CASE moves ->
         {Delta(r, "Reduce", before.qty, before.unit), Delta(r, "Add", now.qty, now.unit)}
    [] ~ moves /\ now.qty > before.qty -> {Delta(r, "Add", now.qty - before.qty, now.unit)}
    [] ~ moves /\ now.qty < before.qty -> {Delta(r, "Reduce", before.qty - now.qty, before.unit)}
    [] ~ moves /\ now.qty = before.qty /\ here /\ before.note # now.note ->
         {Delta(r, "Modify", now.qty, now.unit)}
    [] OTHER -> {}

\* The units differ in one case above only: a row that moves without a quantity is silent.
Deltas(o) == UNION {RowDeltas(r, order[o].snapshot[r], Current(o)[r]) : r \in Rows}

\* The ticket of the deltas ds, all of one unit and one action.
NewTicket(rev, ds) ==
  LET d == CHOOSE e \in ds : TRUE
      rows == {e.row : e \in ds}
      add == d.action = "Add" IN
  [revision |-> rev, unit |-> d.unit, action |-> d.action, status |-> "New",
   qty |-> [r \in rows |-> (CHOOSE e \in ds : e.row = r).qty],
   items |-> [r \in rows |-> IF d.action = "Reduce" THEN "Cancelled" ELSE "New"],
   stock |-> IF add /\ RecipePosting THEN "Queued" ELSE "Not Required",
   job |-> add /\ RecipePosting, entry |-> "none"]

\* sync_order_to_kitchen: tickets for the difference, the snapshot moves on.
SyncKitchen(o) ==
  LET ds == Deltas(o)
      rev == order[o].revision + 1
      groups == {{e \in ds : e.unit = d.unit /\ e.action = d.action} : d \in ds} IN
  /\ order[o].status \in {"Confirmed", "In Kitchen", "Ready", "Served"} /\ SessionAllowed
  /\ MaySave(o) /\ ds # {} /\ rev <= MaxRevision
  /\ ticket' = [ticket EXCEPT ![o] = @ \cup {NewTicket(rev, g) : g \in groups}]
  /\ order' = [order EXCEPT ![o].status = "In Kitchen", ![o].revision = rev,
                            ![o].snapshot = Current(o)]
  /\ item' = [item EXCEPT ![o] = [r \in Rows |->
       IF @[r].status = "Ordered" /\ @[r].qty > 0 THEN [@[r] EXCEPT !.status = "Sent"] ELSE @[r]]]
  /\ SetTable(o, "In Kitchen")
  /\ Saved(o)
  /\ UNCHANGED <<session, cluster, booking, split, alerts>>

\* The same, with nothing to tell: the snapshot is saved, no ticket is made.
SyncSilent(o) ==
  /\ order[o].status \in {"Confirmed", "In Kitchen", "Ready", "Served"} /\ SessionAllowed
  /\ MaySave(o) /\ Deltas(o) = {} /\ order[o].snapshot # Current(o)
  /\ order' = [order EXCEPT ![o].snapshot = Current(o)]
  /\ Saved(o)
  /\ UNCHANGED <<session, item, ticket, table, cluster, booking, split, alerts>>

\* derive_kds_ticket_status of the statuses S of the items of a ticket.
KdsStatus(S) ==
  LET live == S \ {"Cancelled"}
      done == live \cap {"Ready", "Served"} IN
  CASE live = {} -> "Cancelled"
    [] live = {"Served"} -> "Served"
    [] live = done /\ "Ready" \in live -> "Ready"
    [] live # done /\ done # {} -> "Partially Ready"
    [] done = {} /\ "Cooking" \in live -> "Cooking"
    [] live = {"Accepted"} -> "Accepted"
    [] done = {} /\ "Cooking" \notin live /\ "Recalled" \in live -> "Recalled"
    [] OTHER -> "New"

Statuses(items) == {items[r] : r \in DOMAIN items}

\* The ticket with the statuses S of its items changed to s.
Moved(k, S, s) ==
  LET items == [r \in DOMAIN k.items |-> IF k.items[r] \in S THEN s ELSE k.items[r]] IN
  [k EXCEPT !.items = items, !.status = KdsStatus(Statuses(items))]

SetTicket(o, k, new) == ticket' = [ticket EXCEPT ![o] = (@ \ {k}) \cup {new}]

AcceptTicket(o, k) ==
  /\ k.status \in {"New", "Recalled"}
  /\ SetTicket(o, k, Moved(k, {"New", "Recalled"}, "Accepted"))
  /\ UNCHANGED <<session, order, item, table, cluster, booking, split, alerts, aside>>

\* start_kitchen_ticket accepts first; with no item to cook it throws.
StartTicket(o, k) ==
  LET accepted == IF k.status \in {"New", "Recalled"}
                  THEN Moved(k, {"New", "Recalled"}, "Accepted") ELSE k IN
  /\ accepted.status = "Accepted"
  /\ SetTicket(o, k, Moved(accepted, {"Accepted"}, "Cooking"))
  /\ UNCHANGED <<session, order, item, table, cluster, booking, split, alerts, aside>>

\* Status of an order that had s and whose rows have the statuses S.
Served(s, S) == CASE S = {"Served"} -> "Served"
                  [] "Ready" \in S /\ S \subseteq {"Ready", "Served"} -> "Ready"
                  [] OTHER -> s

\* update_kitchen_item: the status of one item of a ticket, whatever the ticket and
\* the order are, is carried to the row, the order as it was loaded, and its table.
UpdateItem(o, k, r, s) ==
  LET items == [k.items EXCEPT ![r] = s]
      rows == IF item[o][r].status = "none" THEN item[o]
              ELSE [item[o] EXCEPT ![r].status = IF s = "Cooking" THEN "Preparing" ELSE s]
      live == {rows[q].status : q \in Rows} \ {"none", "Cancelled"} IN
  /\ MaySave(o)
  /\ SetTicket(o, k, [k EXCEPT !.items = items, !.status = KdsStatus(Statuses(items))])
  /\ item' = [item EXCEPT ![o] = rows]
  /\ \E c \in Loaded(o) :
       /\ order' = [order EXCEPT ![o].status = Served(c.status, live), ![o].stock = c.stock]
       /\ SetTable(o, TableStatus(Served(c.status, live)))
  /\ Saved(o)
  /\ UNCHANGED <<session, cluster, booking, split, alerts>>

RecallTicket(o, k) ==
  /\ k.status # "Cancelled"
  /\ SetTicket(o, k, [k EXCEPT !.status = "Recalled",
       !.items = [r \in DOMAIN k.items |-> IF @[r] \in {"Ready", "Served"} THEN "Recalled" ELSE @[r]]])
  /\ UNCHANGED <<session, order, item, table, cluster, booking, split, alerts, aside>>

-----------------------------------------------------------------------------
(* Recipe stock entries of the tickets (fnb_inventory.py).                 *)

Posted(k) == k.stock \in {"Submitted", "Not Required"}

\* _refresh_order_reconciliation, over the tickets ks.
Stock(ks) == IF \A k \in ks : k.status # "Cancelled" => Posted(k) THEN "Reconciled" ELSE "Pending"

\* Ticket k becomes new, and the order is told when refresh.
StockStep(o, k, new, refresh) ==
  LET ks == (ticket[o] \ {k}) \cup {new} IN
  /\ ticket' = [ticket EXCEPT ![o] = ks]
  /\ order' = [order EXCEPT ![o].stock = IF refresh THEN Stock(ks) ELSE @]
  /\ UNCHANGED <<session, item, table, cluster, booking, split, alerts, aside>>

\* _post_ticket_recipe_consumption, by the job of the ticket or by a captain: the
\* entry of the ticket is found or made, and submitted if the outlet says so.
PostRecipe(o, k, submit) ==
  LET entry == IF k.entry \in {"none", "Cancelled"} THEN "Draft" ELSE k.entry
      final == IF submit THEN "Submitted" ELSE entry IN
  /\ RecipePosting
  /\ IF k.action = "Add"
     THEN StockStep(o, k, [k EXCEPT !.job = FALSE, !.entry = final,
            !.stock = IF final = "Submitted" THEN "Submitted" ELSE "Draft Created"], TRUE)
     ELSE StockStep(o, k, [k EXCEPT !.job = FALSE, !.stock = "Not Required"], TRUE)

\* The entry cannot be built: an ingredient or a warehouse is wrong.
PostRecipeFails(o, k) ==
  /\ RecipePosting /\ k.action = "Add"
  /\ StockStep(o, k, [k EXCEPT !.job = FALSE, !.stock = "Failed"], TRUE)

\* The entry is there and its submission fails.  Nothing is rolled back: if it fails
\* after the entry was written, the entry stays submitted.  The order is not told.
SubmitRecipeFails(o, k) ==
  /\ RecipePosting /\ k.action = "Add" /\ k.entry # "Submitted"
  /\ \E e \in {"Draft", "Submitted"} :
       StockStep(o, k, [k EXCEPT !.job = FALSE, !.entry = e, !.stock = "Failed"], FALSE)

\* The worker of the job dies.
LoseRecipeJob(o, k) == k.job /\ StockStep(o, k, [k EXCEPT !.job = FALSE], FALSE)

\* on_stock_entry_submit and on_stock_entry_cancel, by the storekeeper.
EntrySubmitted(o, k) ==
  /\ k.entry = "Draft"
  /\ StockStep(o, k, [k EXCEPT !.entry = "Submitted", !.stock = "Submitted"], TRUE)

\* Mutant: the cancelled entry leaves its ticket as it is.
MutEntryCancelledUnseen(o, k) ==
  k.entry = "Submitted" /\ StockStep(o, k, [k EXCEPT !.entry = "Cancelled"], TRUE)

EntryCancelled(o, k) ==
  LET new == [k EXCEPT !.entry = "Cancelled", !.stock = "Cancelled"] IN
  /\ k.entry = "Submitted"
  /\ SetTicket(o, k, new)
  /\ order' = [order EXCEPT ![o].stock = "Pending"]
  /\ UNCHANGED <<session, item, table, cluster, booking, split, alerts, aside>>

-----------------------------------------------------------------------------
(* Bill splits and their invoices.                                         *)

ItemQty(o, r) == Shot(item[o][r]).qty
Allocated(o, r) == MapThenSumSet(LAMBDA s : split[o][s].lines[r], Splits)
ActiveSplits(o) == {s \in Splits : split[o][s].state # "none"}

\* Lines of the splits S that allocate the items of the order exactly.
Shares(o, S) == {lines \in [S -> [Rows -> 0 .. MaxQty]] :
  \A r \in Rows : MapThenSumSet(LAMBDA s : lines[s][r], S) = ItemQty(o, r)}

\* create_bill_splits, once for an order.
CreateSplits(o, types, S) ==
  /\ order[o].status \in {"Bill Requested", "Served", "Ready"}
  /\ ActiveSplits(o) = {}
  /\ \E lines \in Shares(o, S) : split' = [split EXCEPT ![o] = [s \in Splits |->
       IF s \in S THEN [NoSplit EXCEPT !.state = "Draft", !.type = types[s], !.lines = lines[s]]
       ELSE NoSplit]]
  /\ UNCHANGED <<session, order, item, ticket, table, cluster, booking, alerts, aside>>

\* validate of a split, at every save: the rows are there and not exceeded.
Fits(o, s) == \A r \in Rows : split[o][s].lines[r] > 0 =>
  item[o][r].status \notin {"none", "Cancelled"} /\ Allocated(o, r) <= item[o][r].qty

Unsynced(o) == (\E r \in Rows : ItemQty(o, r) > 0) /\ Current(o) # order[o].snapshot

\* restaurant_prebill_context; failed kitchen prints, which block as well, are left out.
Prebill(o) ==
  /\ SessionAllowed /\ ~ Unsynced(o)
  /\ \A k \in ticket[o] : /\ k.status \in {"Ready", "Served", "Cancelled"}
                          /\ k.status = "Ready" => k.stock # "Failed"

\* create_split_invoice of a split without a live invoice.  The folio row of a room
\* posting is made once: a second invoice finds it and does not take it over.
CreateInvoice(o, s, submit) ==
  /\ split[o][s].state # "none" /\ split[o][s].type # "Complimentary"
  /\ split[o][s].doc \in {"none", "Cancelled"}
  /\ Fits(o, s) /\ Prebill(o)
  /\ split' = [split EXCEPT ![o][s].doc = IF submit THEN "Submitted" ELSE "Draft",
       ![o][s].state = IF submit THEN "Submitted" ELSE "Invoice Draft Created",
       ![o][s].row = IF split[o][s].type = "Room Posting" /\ @ = "none" THEN "invoice" ELSE @]
  /\ UNCHANGED <<session, order, item, ticket, table, cluster, booking, alerts, aside>>

SettleComplimentary(o, s) ==
  /\ split[o][s].state = "Draft" /\ split[o][s].type = "Complimentary"
  /\ order[o].complimentary /\ Fits(o, s) /\ Prebill(o)
  /\ split' = [split EXCEPT ![o][s].state = "Submitted"]
  /\ UNCHANGED <<session, order, item, ticket, table, cluster, booking, alerts, aside>>

\* The draft is submitted in ERPNext, whatever became of the order.
SubmitInvoice(o, s) ==
  /\ split[o][s].doc = "Draft"
  /\ split' = [split EXCEPT ![o][s].doc = "Submitted", ![o][s].state = "Submitted"]
  /\ UNCHANGED <<session, order, item, ticket, table, cluster, booking, alerts, aside>>

\* Its kind of settlement is changed in the form of a split.
EditSplit(o, s, type) ==
  /\ split[o][s].state # "none" /\ split[o][s].type # type /\ Fits(o, s)
  /\ split' = [split EXCEPT ![o][s].type = type]
  /\ UNCHANGED <<session, order, item, ticket, table, cluster, booking, alerts, aside>>

\* An invoice is cancelled in ERPNext.  sync_restaurant_billing_document asks for the
\* status of the order without a lock, and before the cancellation commits; an earlier
\* cancellation that did not commit is forgotten.
AskForCancel(o, s) ==
  /\ split[o][s].doc = "Submitted"
  /\ voiding' = [voiding EXCEPT ![o][s] = order[o].status]
  /\ UNCHANGED <<session, order, item, ticket, table, cluster, booking, split, alerts, copy>>

\* Mutant: the order of a cancelled invoice stays billed.
MutCancelInvoiceOnly(o, s) ==
  /\ voiding[o][s] # "no" /\ voiding' = [voiding EXCEPT ![o][s] = "no"]
  /\ split' = [split EXCEPT ![o][s].doc = "Cancelled", ![o][s].state = "Draft",
                            ![o][s].row = IF @ = "invoice" THEN "open" ELSE @]
  /\ UNCHANGED <<session, order, item, ticket, table, cluster, booking, alerts, copy>>

\* It commits: an order that was billed when asked for is opened again, and the folio
\* row of the invoice can be billed by the folio.
CancelInvoice(o, s) ==
  /\ voiding[o][s] # "no" /\ voiding' = [voiding EXCEPT ![o][s] = "no"]
  /\ split' = [split EXCEPT ![o][s].doc = "Cancelled", ![o][s].state = "Draft",
                            ![o][s].row = IF @ = "invoice" THEN "open" ELSE @]
  /\ order' = [order EXCEPT ![o].status = IF voiding[o][s] = "Billed" THEN "Bill Requested" ELSE @]
  /\ UNCHANGED <<session, item, ticket, table, cluster, booking, alerts, copy>>

\* The invoice of the guest's folio takes the open row.
FolioBillsRow(o, s) ==
  /\ split[o][s].row = "open"
  /\ split' = [split EXCEPT ![o][s].row = "folio"]
  /\ UNCHANGED <<session, order, item, ticket, table, cluster, booking, alerts, aside>>

\* The tables once o is closed: its own table gets status s, its cluster is released.
Left(o, s) ==
  Released(o, [table EXCEPT ![order[o].table].active = NoOrder, ![order[o].table].status = s])

StockIncomplete(o) == RecipePosting /\ \E k \in ticket[o] : k.status # "Cancelled" /\ ~ Posted(k)

\* complete_restaurant_order; the status of the order is not asked for.
CompleteOrder(o) ==
  /\ order[o].status # "none" /\ ActiveSplits(o) # {}
  /\ \A s \in ActiveSplits(o) : split[o][s].type = "Complimentary" \/ split[o][s].doc = "Submitted"
  /\ \A r \in Rows : item[o][r].status \notin {"none", "Cancelled"} => Allocated(o, r) = item[o][r].qty
  /\ ~ StockIncomplete(o) /\ MaySave(o)
  /\ order' = [order EXCEPT ![o].status = "Billed",
                            ![o].stock = IF RecipePosting THEN "Reconciled" ELSE "Not Required"]
  /\ table' = Left(o, "Cleaning")
  /\ cluster' = [cluster EXCEPT ![o] = {}]
  /\ Saved(o)
  /\ UNCHANGED <<session, item, ticket, booking, split, alerts>>

CancelOrder(o) ==
  /\ order[o].status \notin {"none", "Cancelled"}
  /\ \A s \in Splits : split[o][s].doc # "Submitted"
  /\ ~ StockIncomplete(o) /\ MaySave(o)
  /\ order' = [order EXCEPT ![o].status = "Cancelled"]
  /\ item' = [item EXCEPT ![o] = [r \in Rows |->
       IF @[r].status = "none" THEN @[r] ELSE [@[r] EXCEPT !.status = "Cancelled"]]]
  /\ ticket' = [ticket EXCEPT ![o] = {[k EXCEPT !.status = "Cancelled"] : k \in @}]
  /\ table' = Left(o, "Available")
  /\ cluster' = [cluster EXCEPT ![o] = {}]
  /\ Saved(o)
  /\ UNCHANGED <<session, booking, split, alerts>>

\* monitor_restaurant_operations, of which the alerts on unsynchronized orders.
Monitor ==
  LET seen == {o \in Orders : Unsynced(o) /\ order[o].status \in
                {"Confirmed", "In Kitchen", "Ready", "Served", "Bill Requested"}} IN
  /\ alerts # seen /\ alerts' = seen
  /\ UNCHANGED <<session, order, item, ticket, table, cluster, booking, split, aside>>

-----------------------------------------------------------------------------

SessionNext == OpenShift \/ LinkPosOpening \/ LinkPosClosing

FloorNext == \E o \in Orders :
  \/ \E t \in Tables, s \in {"Confirmed", "Pending Confirmation"}, c \in BOOLEAN : CreateOrder(o, t, s, c)
  \/ \E t \in Tables : DraftOrder(o, t)
  \/ ConfirmOrder(o) \/ RequestBill(o) \/ CancelOrder(o) \/ LoadOrder(o)
  \/ \E r \in Rows : EditItem(o, r)

TableNext ==
  \/ \E o \in Orders, T \in SUBSET Tables : MergeTables(o, T)
  \/ \E o \in Orders : ReleaseCluster(o)
  \/ \E t \in Tables : CleanTable(t)
  \/ \E b \in Bookings, t \in Tables : BookTable(b, t)
  \/ \E b \in Bookings, s \in {"Confirmed", "Seated", "Completed", "No Show", "Cancelled"} :
       UpdateBooking(b, s)

KitchenNext == \E o \in Orders :
  \/ SyncKitchen(o) \/ SyncSilent(o)
  \/ \E k \in ticket[o] :
       \/ AcceptTicket(o, k) \/ StartTicket(o, k) \/ RecallTicket(o, k)
       \/ \E r \in DOMAIN k.items, s \in {"Cooking", "Ready", "Served", "Cancelled"} : UpdateItem(o, k, r, s)

RecipeNext == \E o \in Orders : \E k \in ticket[o] :
  \/ \E submit \in BOOLEAN : PostRecipe(o, k, submit)
  \/ PostRecipeFails(o, k) \/ SubmitRecipeFails(o, k) \/ LoseRecipeJob(o, k)
  \/ EntrySubmitted(o, k) \/ EntryCancelled(o, k)

BillNext == \E o \in Orders :
  \/ \E S \in (SUBSET Splits) \ {{}} :
       \E types \in [S -> {"Cash", "Room Posting", "Complimentary"}] : CreateSplits(o, types, S)
  \/ \E s \in Splits : \/ \E submit \in BOOLEAN : CreateInvoice(o, s, submit)
                       \/ SettleComplimentary(o, s) \/ SubmitInvoice(o, s)
                       \/ AskForCancel(o, s) \/ CancelInvoice(o, s) \/ FolioBillsRow(o, s)
                       \/ \E type \in {"Cash", "Room Posting", "Complimentary"} : EditSplit(o, s, type)
  \/ CompleteOrder(o)

RestaurantNext ==
  SessionNext \/ FloorNext \/ TableNext \/ KitchenNext \/ RecipeNext \/ BillNext \/ Monitor

RestaurantSpec == RestaurantInit /\ [][RestaurantNext]_restaurantVars

-----------------------------------------------------------------------------

\* The tickets among K that add (or take off, or annotate) row r, and their quantity.
Telling(K, r, act) == {k \in K : k.action = act /\ r \in DOMAIN k.qty}
ToldBy(K, r, act) ==
  SumFunctionOnSet([k \in Telling(K, r, act) |-> k.qty[r]], Telling(K, r, act))
Told(o, r, act) == ToldBy(ticket[o], r, act)

\* What all the tickets of an order add and take off is what the kitchen was last told,
\* row by row: no revision sends a quantity twice or forgets one, rows that are moved to
\* another unit, cancelled or removed included (sync_order_to_kitchen).
KitchenKnowsTheOrder == \A o \in Orders, r \in Rows :
  Told(o, r, "Add") - Told(o, r, "Reduce") = order[o].snapshot[r].qty

Paid(o) ==
  /\ ActiveSplits(o) # {}
  /\ \A s \in ActiveSplits(o) : split[o][s].type = "Complimentary" \/ split[o][s].doc = "Submitted"

Unpaid(o) == order[o].status = "Billed" /\ ~ Paid(o)

\* An old copy of the order makes it billed, an invoice is cancelled by somebody who did
\* not find the order billed, or the kind of settlement of a split is changed.
OldCopySaved(o) == order[o].status # "Billed" /\ copy[o].status = "Billed"
CancelledUnseen(o) == \E s \in Splits :
  voiding[o][s] \notin {"no", "Billed"} /\ voiding'[o][s] = "no"
SettledAnew(o) == \E s \in Splits : split'[o][s].type # split[o][s].type

\* A billed order with a split that is neither complimentary nor invoiced comes about in
\* these three ways only: orders are completed when they are paid, and a cancellation that
\* finds the order billed opens it again, whatever is cancelled and made again before
\* (complete_restaurant_order, sync_restaurant_billing_document).
BillsStayPaid ==
  [][\A o \in Orders : ~ Unpaid(o) /\ Unpaid(o)' =>
       OldCopySaved(o) \/ CancelledUnseen(o) \/ SettledAnew(o)]_restaurantVars

\* An order is completed only when the food of its live tickets has a submitted entry:
\* the stock status of a ticket cannot outlive the entry it stands for.  An old copy of a
\* billed order that is written back completes nothing.
BilledFoodIsIssued ==
  [][\A o \in Orders : order[o].status # "Billed" /\ order'[o].status = "Billed" /\ RecipePosting
                       /\ ~ OldCopySaved(o) =>
       \A k \in ticket[o] : k.action = "Add" /\ k.status # "Cancelled" => k.entry = "Submitted"
    ]_restaurantVars

\* What a room posting is worth is charged once: by the invoice of its split or by the
\* folio.  The code breaks it.
RoomPostedOnce == \A o \in Orders, s \in Splits :
  ~ (split[o][s].doc = "Submitted" /\ split[o][s].row = "folio")
=============================================================================
