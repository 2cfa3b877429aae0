---------------------------- MODULE MCRestaurant ----------------------------
(***************************************************************************)
(* Small instances of Restaurant for TLC.  A behaviour is an evening on    *)
(* the floor, in the kitchen, in the store or at the till: the operations  *)
(* it is about have all their choices, of the others there is what it      *)
(* takes to bill an order.                                                 *)
(***************************************************************************)
EXTENDS Restaurant

CONSTANTS o1, r1, u1, s1, t1

VARIABLE evening

mcVars == <<restaurantVars, evening>>

MCInit ==
  /\ evening \in {"floor", "changes", "kitchen", "store", "till"}
  /\ RestaurantInit

Open == SessionNext /\ session # "open"

\* One row of one piece; no order but o1; no draft and no guest's order.
OnePiece(o) == \A r \in Rows : item[o][r] = NoItem \/
  (r = r1 /\ item[o][r].qty = 1 /\ item[o][r].unit = u1 /\ item[o][r].note = 0)
OneOrder == \A o \in Orders : order[o].table = t1 /\ (o # o1 => order[o].status = "none")
Ordered(o) == order[o].status \notin {"Draft", "Pending Confirmation"}

\* The kitchen as the others see it: items are served, recipes posted.
Serve == \E o \in Orders :
  \/ SyncKitchen(o)
  \/ \E k \in ticket[o] : \/ \E r \in DOMAIN k.items : UpdateItem(o, k, r, "Served")
                          \/ PostRecipe(o, k, TRUE)

\* Changes of the order as the kitchen sees them.
SyncNext == \E o \in Orders :
  \/ SyncKitchen(o) \/ SyncSilent(o)
  \/ \E k \in ticket[o] : \E r \in DOMAIN k.items, s \in {"Ready", "Cancelled"} : UpdateItem(o, k, r, s)

\* One bill, paid in cash.
PayCash == \E o \in Orders :
  \/ CreateSplits(o, [s \in {s1} |-> "Cash"], {s1})
  \/ CreateInvoice(o, s1, TRUE) \/ CompleteOrder(o)
  \/ AskForCancel(o, s1) \/ CancelInvoice(o, s1)

\* Copies are kept at the till only, where the order changes under them.
NoCopies == \A o \in Orders : copy[o] = NoCopy

\* The kind of settlement is changed of s1 when the order is billed.
KindsKept == \A s \in Splits :
  split[o1][s].state # "none" /\ (s # s1 \/ order[o1].status # "Billed") => split'[o1][s].type = split[o1][s].type

MCNext ==
  /\ UNCHANGED evening
  /\ \/ /\ evening = "floor"
        /\ Open \/ FloorNext \/ TableNext \/ Serve \/ PayCash
        /\ session # "open" => UNCHANGED <<order, booking>>
        /\ \A o \in Orders : OnePiece(o)' /\ ~ order'[o].complimentary
        /\ \A o \in Orders \ {o1} : order'[o].revision = 0 /\ order'[o].status # "Bill Requested"
        /\ \A o \in Orders : order'[o].status # "none" => item'[o][r1].qty = 1
        /\ order'[o1].revision <= 1 /\ Ordered(o1)' /\ order'[o1].table = t1
        /\ \A b \in Bookings : booking'[b].status \notin {"No Show", "Cancelled"}
     \/ /\ evening = "changes"
        /\ Open \/ FloorNext \/ SyncNext \/ Monitor
        /\ OneOrder' /\ Ordered(o1)' /\ order'[o1].status # "Bill Requested"
        /\ order'[o1].revision <= 2
        /\ \A r \in Rows \ {r1} : item'[o1][r].qty = 0
     \/ /\ evening = "kitchen"
        /\ Open \/ FloorNext \/ KitchenNext
        /\ OneOrder' /\ Ordered(o1)' /\ order'[o1].revision <= 1
        /\ order'[o1].status \notin {"Bill Requested", "Cancelled"}
        /\ order'[o1].status # "none" => \A r \in Rows :
             item'[o1][r].qty = 1 /\ item'[o1][r].note = 0
     \/ /\ evening = "store"
        /\ Open \/ FloorNext \/ Serve \/ RecipeNext \/ PayCash
        /\ OneOrder' /\ Ordered(o1)' /\ OnePiece(o1)' /\ order'[o1].revision <= 2
     \/ /\ evening = "till"
        /\ SessionNext \/ FloorNext \/ Serve \/ BillNext
        /\ OneOrder' /\ Ordered(o1)' /\ OnePiece(o1)' /\ order'[o1].revision <= 1
        /\ copy'[o1].status \in {"none", "Bill Requested", "Billed"}
        /\ KindsKept
        /\ session = "closed" \/ ActiveSplits(o1) # {} => session' = session
        /\ order'[o1].status \in {"Bill Requested", "Billed"} \/
             (copy'[o1] = NoCopy /\ \A s \in Splits : voiding'[o1][s] = "no")
        /\ Cardinality({s \in Splits : voiding'[o1][s] # "no"}) <= 1
        /\ ActiveSplits(o1) # {} /\ order[o1].status # "Bill Requested" => item' = item
  /\ evening # "till" => NoCopies'

MCSpec == MCInit /\ [][MCNext]_mcVars
=============================================================================
