------------------------------ MODULE MCCommerce ------------------------------
(***************************************************************************)
(* Small instances of GroupEvents, Counter, GuestAccess and Revenue for    *)
(* TLC.  The parts share no state, so each behaviour has the traffic of    *)
(* one of them.                                                            *)
(***************************************************************************)
EXTENDS GroupEvents, Counter, GuestAccess, Revenue

CONSTANTS g1, w1, s1, e1, e2, c1, f1, b1, p1, l1, v1

ASSUME MCCommerceAssumption == b1 \in Bookings /\ v1 \in Sales

VARIABLE traffic

commerceVars == <<groupVars, counterVars, guestVars, revenueVars, traffic>>

GroupTraffic == {"rooms", "halls", "schedule"}
CounterTraffic == {"drawer", "desk", "refunds", "credit"}
GuestTraffic == {"portal", "forms", "files", "services"}
RevenueTraffic == {"prices", "commissions"}

MCInit == /\ traffic \in GroupTraffic \cup CounterTraffic \cup GuestTraffic \cup RevenueTraffic
          /\ GroupInit /\ CounterInit /\ GuestInit /\ RevenueInit

-----------------------------------------------------------------------------
(* Groups.  g1 does what a traffic is about; the other group is in its way. *)

Among(S) == \A g \in Groups : group[g].doc # "none" => group[g].status \in S

NoRoomsOf(g) == group[g].room = [p \in Guests |-> NoRoom] /\ group[g].size = 0

FewRooms ==
  /\ Among({"Tentative", "Confirmed", "Cancelled"})
  /\ \A g \in Groups : group[g].slot = NoSlot /\ group[g].routes = <<100>> /\ group[g].last = 0
  /\ \A g \in Groups \ {g1} : /\ group[g].room = [p \in Guests |-> NoRoom] /\ group[g].size <= 1
                              /\ group[g].doc # "Submitted" /\ ~ group[g].cutoff
  /\ \A r \in Rooms : stay[Individual][r] # "none" =>
       /\ stay[Individual][r] = "Confirmed"
       /\ \A g \in Groups \ {g1} : group[g].doc = "none"

FewHalls ==
  /\ Among({"Inquiry", "Tentative", "Confirmed", "Cancelled"})
  /\ \A g \in Groups : NoRoomsOf(g) /\ group[g].routes = <<100>> /\ group[g].last = 0 /\ ~ group[g].cutoff
  /\ \A g \in Groups \ {g1} : /\ paper[g] = {} /\ beo[g].current = 0
                              /\ group[g].status # "Cancelled" /\ group[g].doc # "Submitted"

\* A submitted group, and one with a BEO, keeps its hall.
HallsStay == \A g \in Groups :
  group[g].doc = "Submitted" \/ beo[g].current > 0 => group'[g].slot = group[g].slot

FewServices ==
  /\ Among({"Tentative", "Confirmed"})
  /\ \A g \in Groups : NoRoomsOf(g) /\ group[g].slot = NoSlot /\ (g # g1 => group[g].doc = "none")
  /\ group[g1].doc = "Submitted" => group[g1].last = LastDate

\* The schedule starts with the submitted booking; one service is marked; runs of
\* the schedule and its regeneration meet in pairs.
SchedulePace ==
  /\ group[g1].doc # "Submitted" => poster' = poster /\ group'[g1].routes = <<100>>
  /\ \A s \in Services : posting'[g1][s].status \in {"Prepared", "Served", "Cancelled"} =>
       s[2] = LastDate /\ (posting'[g1][s].status = "Cancelled" \/ poster' = poster)
  /\ regen'[g1].on => \E w \in Workers : ~ poster'[w].on
  /\ gfolio'[g1].invoiced # gfolio[g1].invoiced => ~ regen[g1].on
  /\ (\E w \in Workers : poster[w].on) => group'[g1].status = group[g1].status

MCGroups ==
  \/ traffic = "rooms" /\ (FormNext \/ HoldNext \/ StayNext) /\ FewRooms'
  \/ traffic = "halls" /\ (FormNext \/ HoldNext \/ PaperNext) /\ FewHalls' /\ HallsStay
  \/ traffic = "schedule" /\ (FormNext \/ ScheduleNext) /\ FewServices' /\ SchedulePace

-----------------------------------------------------------------------------
(* Counter.  e1 is the deposit, e2 a sale or a refund, e3 the refund of a correction. *)

Only(E) == \A e \in Entries \ E : entry[e].state = "none" /\ ~ hook[e].on

DepositIsE1 == \A e \in Entries : (entry[e].kind = "Deposit") = (e = e1 /\ entry[e].state # "none")

FewDrawers ==
  /\ Only({e1, e2}) /\ shift[s1].counted \in {0, 2}
  /\ \A e \in Entries : entry[e].state # "none" =>
       /\ entry[e].amount <= 1 /\ entry[e].shift = s1
       /\ (entry[e].kind = "Sale") = (e = e2)

FewRefunds ==
  /\ DepositIsE1 /\ entry[e1].amount \in {0, 2}
  /\ \A e \in Entries : entry[e].state = "Cancelled" => e = e1
  /\ Only({e1, e2}) \/ \E c \in Corrections : correction[c].status = "Executed"
  /\ \A c \in Corrections \ {c1} : correction[c].status # "none" => correction[c].action = "Create Refund"

MCCounter ==
  \/ traffic = "drawer" /\ (ShiftNext \/ EntryNext) /\ FewDrawers'
  \/ traffic = "desk" /\ (CancelNext \/ EntryNext) /\ Only({e1, e2})' /\ DepositIsE1'
  \/ /\ traffic = "refunds" /\ (CorrectionNext \/ EntryNext) /\ FewRefunds'
     /\ (\E e \in Entries : hook'[e].on) => correction' = correction
  \/ traffic = "credit" /\ LedgerNext

-----------------------------------------------------------------------------
(* Guests.  p1 books b1 by its link l1; the other booking is made at the desk. *)

Booked1 == booking[b1].status # "none"

FewLinks == \A l \in Links \ {l1} : link[l].booking = b1 /\ link[l].status \in {"none", "Active"} /\ ~ link[l].late

FewPortals ==
  /\ FewLinks /\ (~ Booked1 => \A b \in Bookings : booking[b].status = "none")
  /\ \A b \in Bookings \ {b1} : /\ booking[b].status = "none" /\ registration[b].status = "none"
  /\ \A b \in Bookings : deposit[b].received # 0 => registration[b].status = "none"

FewForms ==
  /\ \A f \in Forms \ {f1} : /\ form[f].status \in {"none", "Issued"} /\ link[f].status \in {"none", "Active"}
                            /\ ~ link[f].late
  /\ \A b \in Bookings : booking[b].status \in (IF b = b1 THEN {"none", "Confirmed"} ELSE {"none"})
  /\ \A l \in Links : link[l].status \in (IF l = l1 THEN {"none", "Active"} ELSE {"none"}) /\ ~ link[l].late

\* Two restrictions, or one and a privacy request, or the request and a hold.
FewFiles ==
  /\ \A l \in Links : link[l].status \in (IF l = l1 THEN {"none", "Active"} ELSE {"none"})
  /\ \A b \in Bookings : booking[b].status \in {"none", "Confirmed", "Cancelled"}
  /\ \A k \in Bans : ban[k].status # "none" =>
       /\ (k > 1 => ban[k].level = "Warning" /\ ~ ban[k].over)
       /\ \A q \in PrivacyRequests : privacy[q].status # "none" =>
            k = 1 /\ ban[k].level # "Warning" /\ ~ ban[k].over /\ privacy[q].type = "Anonymization"
       /\ \A c \in People : ~ profile[c].hold

FewServicesAsked ==
  /\ \A l \in Links \ {l1} : link[l].status = "none"
  /\ \A b \in Bookings : booking[b].status \in (IF b = b1 THEN {"none", "Confirmed", "Checked In", "Checked Out"} ELSE {"none"})

MCGuests ==
  \/ traffic = "portal" /\ (BookingNext \/ LinkNext \/ PortalNext) /\ FewPortals'
  \/ traffic = "forms" /\ (BookingNext \/ LinkNext \/ PrearrivalNext) /\ FewForms'
  \/ traffic = "files" /\ (BookingNext \/ FileNext) /\ FewFiles'
  \/ /\ traffic = "services"
     /\ BookingNext \/ GuestServiceNext \/ EnsureRegistration(b1) \/ EditRegistration(b1, "Verified")
     /\ FewServicesAsked'

-----------------------------------------------------------------------------
(* Prices.  One stay while one night's row, the voucher and an approval    *)
(* change; or two stays of agents with a settlement, at fixed rates.       *)

OpenRow == [rate |-> Max(Rates), floor |-> Min(Floors), closed |-> "no"]

FewPrices ==
  /\ \A d, e \in Dates : calendar[d] # OpenRow /\ calendar[e] # OpenRow => d = e
  /\ \A d \in Dates : /\ calendar[d].closed # "no" => [calendar[d] EXCEPT !.closed = "no"] = OpenRow
                      /\ calendar[d] # OpenRow => voucherOn /\ sale[v1].status = "Confirmed"
                      /\ calendar[d].floor # Min(Floors) => calendar[d].rate = Max(Rates)
  /\ \A a \in RateApprovals : rateApproval[a].status # "none" =>
       calendar[0].floor > 0 /\ sale[v1].agent = "none" /\ ~ sale[v1].voucher

FewCommissions ==
  /\ \A b \in Sales : sale[b].doc # "none" =>
       /\ sale[b].from = 0 /\ sale[b].to = LastDay /\ sale[b].sum = sale[b].over * Max(Rates)
       /\ sale[b].agent = (IF sale[b].voucher THEN "none" ELSE "gross")
  /\ sale[v1].doc = "none" => \A b \in Sales : sale[b].doc = "none"

MCRevenue ==
  \/ traffic = "prices" /\ (SaleOf(v1) \/ RateNext) /\ FewPrices'
  \/ traffic = "commissions" /\ (SaleNext \/ AgentNext) /\ FewCommissions'

-----------------------------------------------------------------------------
MCNext ==
  /\ UNCHANGED traffic
  /\ \/ MCGroups /\ UNCHANGED <<counterVars, guestVars, revenueVars>>
     \/ MCCounter /\ UNCHANGED <<groupVars, guestVars, revenueVars>>
     \/ MCGuests /\ UNCHANGED <<groupVars, counterVars, revenueVars>>
     \/ MCRevenue /\ UNCHANGED <<groupVars, counterVars, guestVars>>

MCSpec == MCInit /\ [][MCNext]_commerceVars

\* Every variable of the four modules has its type.
CommerceTypeOK == GroupTypeOK /\ CounterTypeOK /\ GuestTypeOK /\ RevenueTypeOK
=============================================================================
