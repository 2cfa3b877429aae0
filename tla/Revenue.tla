------------------------------- MODULE Revenue -------------------------------
(***************************************************************************)
(* What a stay costs (revenue.py, revenue_rules.py and the quote that each *)
(* save of a reservation makes): the rate calendar, rate approvals, a      *)
(* voucher with its redemptions, agents' contracts and settlements.        *)
(*                                                                         *)
(* A sale is a reservation of one room.  Amounts are whole cents.  Service *)
(* charge and tax are computed from the total and left out.  The voucher   *)
(* gives a percentage; its limits in all and per customer are one.         *)
(***************************************************************************)
EXTENDS Integers, FiniteSets, FiniteSetsExt, Functions

CONSTANTS
  Sales,
  LastDay,           \* stays lie in 0 .. LastDay
  Rates, Floors,     \* rates of a night, floor rates (0: none)
  NetDiscount, CommissionRate,   \* percentages of the two kinds of contract
  VoucherPercent, VoucherMax,    \* discount and its maximum (0: none)
  UsageLimit,        \* usage limit of the voucher, 0: none
  RateApprovals, NoApproval,
  Settlements

ASSUME RevenueAssumption ==
  /\ LastDay \in Nat \ {0}
  /\ Rates \subseteq Nat \ {0} /\ Floors \subseteq Nat
  /\ IsFiniteSet(Rates) /\ Rates # {} /\ IsFiniteSet(Floors) /\ Floors # {}
  /\ NetDiscount \in 0 .. 100 /\ CommissionRate \in 0 .. 100 /\ VoucherPercent \in 0 .. 100
  /\ VoucherMax \in Nat /\ UsageLimit \in Nat /\ NoApproval \notin RateApprovals

VARIABLES
  sale,          \* tabHotel Reservation: dates, contract, quote; its redemption and folio discount
  calendar,      \* what plan, seasons and calendar say of a night
  voucherOn,     \* the voucher is enabled
  rateApproval,  \* tabHotel Rate Approval
  settlement     \* tabHotel Travel Agent Settlement with its purchase invoice

revenueVars == <<sale, calendar, voucherOn, rateApproval, settlement>>

Dates == 0 .. LastDay
Contracts == {"none", "net", "gross"}

\* The nightly rate of a sale is sum / over, kept as it was divided; quotes says how
\* often (up to 2) it has been quoted since a person wrote the form, or since a quote
\* came to nothing: a rate of 0 is none, and the next quote asks the calendar.
NoSale == [doc |-> "none", status |-> "Confirmed", from |-> 0, to |-> 1, agent |-> "none", voucher |-> FALSE,
           approval |-> NoApproval, sum |-> 0, over |-> 1, quotes |-> 0, discount |-> 0, commission |-> 0,
           owed |-> "", redemption |-> "none", posted |-> 0]

\* Every variable has its type.
RevenueTypeOK ==
  /\ sale \in [Sales -> [doc : {"none", "Draft", "Submitted"}, status : {"Confirmed", "Checked Out", "Cancelled"},
       from : Dates, to : Dates, agent : Contracts, voucher : BOOLEAN, approval : RateApprovals \cup {NoApproval},
       sum : Nat, over : 1 .. LastDay, quotes : 0 .. 2, discount : Nat, commission : Nat,
       owed : {"", "Pending", "Invoiced", "Paid"}, redemption : {"none", "Reserved", "Released"}, posted : Nat]]
  /\ calendar \in [Dates -> [rate : Rates, floor : Floors, closed : {"no", "arrival", "departure", "stay"}]]
  /\ voucherOn \in BOOLEAN
  /\ rateApproval \in [RateApprovals -> [status : {"none", "Pending", "Approved", "Rejected", "Expired"},
                                         rate : Rates \cup {0}, late : BOOLEAN]]
  /\ settlement \in [Settlements -> [status : {"none", "Draft", "Invoiced", "Paid"}, lines : SUBSET Sales,
                                     paid : BOOLEAN]]

RevenueInit ==
  /\ sale = [b \in Sales |-> NoSale]
  /\ calendar = [d \in Dates |-> [rate |-> Max(Rates), floor |-> Min(Floors), closed |-> "no"]]
  /\ voucherOn = TRUE
  /\ rateApproval = [a \in RateApprovals |-> [status |-> "none", rate |-> 0, late |-> FALSE]]
  /\ settlement = [t \in Settlements |-> [status |-> "none", lines |-> {}, paid |-> FALSE]]

-----------------------------------------------------------------------------
(* Quotes.                                                                 *)

\* money: n / d to the cent, half up.
Money(n, d) == (2 * n + d) \div (2 * d)

NightsOf(x) == x.from .. x.to - 1

\* A nightly rate that is there is taken as requested, whoever wrote it.
NightRate(x, d) == IF x.sum > 0 THEN Money(x.sum, x.over) ELSE calendar[d].rate

Approves(a, r) == a # NoApproval /\ rateApproval[a].status = "Approved" /\ rateApproval[a].rate = r

\* validate_stay_restrictions.
OpenFor(x) ==
  /\ calendar[x.from].closed # "arrival" /\ calendar[x.to].closed # "departure"
  /\ \A d \in NightsOf(x) : calendar[d].closed # "stay"

\* _validate_voucher, the redemption of sale b itself not counted.
VoucherFree(b) ==
  /\ voucherOn
  /\ UsageLimit > 0 => Cardinality({c \in Sales \ {b} : sale[c].redemption = "Reserved"}) < UsageLimit

\* What a quote of x for sale b throws on.
MayQuote(b, x) ==
  /\ x.from < x.to /\ OpenFor(x)
  /\ \A d \in NightsOf(x) : NightRate(x, d) < calendar[d].floor => Approves(x.approval, NightRate(x, d))
  /\ x.voucher => VoucherFree(b)

\* The rates of the nights; a net contract takes its discount off whatever they are.
RoomTotal(x) ==
  LET total == SumFunctionOnSet([d \in NightsOf(x) |-> NightRate(x, d)], NightsOf(x)) IN
  IF x.agent = "net" THEN total - Money(total * NetDiscount, 100) ELSE total

VoucherDiscount(total) ==
  LET discount == Money(total * VoucherPercent, 100) IN
  IF VoucherMax > 0 /\ discount > VoucherMax THEN VoucherMax ELSE discount

\* _apply_revenue_quote: room totals and nightly rates before the voucher.
Quoted(x) ==
  LET total == RoomTotal(x)
      discount == IF x.voucher THEN VoucherDiscount(total) ELSE 0
      commission == IF x.agent = "gross" THEN Money((total - discount) * CommissionRate, 100) ELSE 0 IN
  [x EXCEPT !.sum = total, !.over = x.to - x.from, !.quotes = IF total = 0 THEN 0 ELSE IF @ < 2 THEN @ + 1 ELSE 2,
            !.discount = discount, !.commission = commission,
            !.owed = IF commission > 0 /\ @ = "" THEN "Pending" ELSE @]

\* on_submit: the redemption, and the discount on the folio.
AsSubmitted(x) ==
  [x EXCEPT !.doc = "Submitted", !.redemption = IF x.voucher THEN "Reserved" ELSE @,
            !.posted = IF x.voucher THEN x.discount ELSE @]

-----------------------------------------------------------------------------
(* Reservations.                                                           *)

Written(b, x) ==
  /\ sale' = [sale EXCEPT ![b] = x]
  /\ UNCHANGED <<calendar, voucherOn, rateApproval, settlement>>

\* Mutant: what the guest pays after the voucher is divided among the nights.
MutSaveDraftNet(b, x) ==
  /\ MayQuote(b, x)
  /\ Written(b, LET q == Quoted(x) IN [q EXCEPT !.doc = "Draft", !.sum = q.sum - q.discount])

\* A save of the form with what it holds.
SaveDraft(b, x) == MayQuote(b, x) /\ Written(b, [Quoted(x) EXCEPT !.doc = "Draft"])

\* Forms a person may save: a new one, the form as it is, or with one thing changed.
\* A rate of 0 is none.
NewForm(n, r, k, v) == [NoSale EXCEPT !.to = n, !.sum = r, !.agent = k, !.voucher = v]

NewForms ==
  {NewForm(n, r, k, v) : n \in 1 .. LastDay, r \in Rates \cup {0}, k \in Contracts, v \in BOOLEAN}

FormsOf(b) ==
  LET x == [sale[b] EXCEPT !.quotes = 0] IN
  {sale[b]} \cup {[x EXCEPT !.sum = r, !.over = 1] : r \in Rates \cup {0}}
  \cup {[x EXCEPT !.to = n] : n \in 1 .. LastDay} \cup {[x EXCEPT !.agent = k] : k \in Contracts}
  \cup {[x EXCEPT !.voucher = v] : v \in BOOLEAN} \cup {[x EXCEPT !.approval = a] : a \in RateApprovals}

SubmitSale(b) ==
  /\ sale[b].doc = "Draft" /\ MayQuote(b, sale[b]) /\ Written(b, AsSubmitted(Quoted(sale[b])))

\* Insert and submit of a form x that was made of a quote: two more quotes.
InsertAndSubmit(b, x) ==
  /\ sale[b].doc = "none" /\ MayQuote(b, x) /\ MayQuote(b, Quoted(x))
  /\ Written(b, AsSubmitted(Quoted(Quoted(x))))

\* quick_multi_room_booking: a quote first, whose total gives the nightly rate.
QuickBooking(b, x) == MayQuote(b, x) /\ InsertAndSubmit(b, Quoted(x))

\* create_public_booking: the nightly rate comes of the total after the voucher.
OnlineBooking(b, x) ==
  LET q == Quoted(x) IN
  /\ x.agent = "none" /\ x.sum = 0
  /\ MayQuote(b, x) /\ InsertAndSubmit(b, [q EXCEPT !.sum = q.sum - q.discount])

\* amend_stay writes the dates and nothing of the price.
AmendSale(b, from, to) ==
  /\ sale[b].doc # "none" /\ sale[b].status = "Confirmed" /\ from < to
  /\ Written(b, [sale[b] EXCEPT !.from = from, !.to = to])

\* check_out: the commission is owed.
CheckOutSale(b) ==
  /\ sale[b].doc = "Submitted" /\ sale[b].status = "Confirmed"
  /\ Written(b, [sale[b] EXCEPT !.status = "Checked Out", !.owed = IF sale[b].commission > 0 THEN "Pending" ELSE @])

\* A cancellation, of a draft too, releases the redemption; the discount stays posted.
CancelSale(b) ==
  /\ sale[b].doc # "none" /\ sale[b].status = "Confirmed"
  /\ Written(b, [sale[b] EXCEPT !.status = "Cancelled", !.redemption = IF @ = "Reserved" THEN "Released" ELSE @])

-----------------------------------------------------------------------------
(* Calendar, voucher, approvals.                                           *)

SetCalendar(d, row) ==
  /\ calendar' = [calendar EXCEPT ![d] = row] /\ calendar' # calendar
  /\ UNCHANGED <<sale, voucherOn, rateApproval, settlement>>

SwitchVoucher ==
  voucherOn' = ~ voucherOn /\ UNCHANGED <<sale, calendar, rateApproval, settlement>>

SetApproval(a, row) ==
  /\ rateApproval' = [rateApproval EXCEPT ![a] = row]
  /\ UNCHANGED <<sale, calendar, voucherOn, settlement>>

RequestRateApproval(a, r) ==
  rateApproval[a].status = "none" /\ SetApproval(a, [status |-> "Pending", rate |-> r, late |-> FALSE])

DecideRateApproval(a, st) ==
  rateApproval[a].status \notin {"none", st} /\ SetApproval(a, [rateApproval[a] EXCEPT !.status = st])

RateApprovalAges(a) ==
  /\ rateApproval[a].status # "none" /\ ~ rateApproval[a].late
  /\ SetApproval(a, [rateApproval[a] EXCEPT !.late = TRUE])

ExpireRateApprovals ==
  /\ rateApproval' = [a \in RateApprovals |-> IF rateApproval[a].status = "Approved" /\ rateApproval[a].late
                        THEN [rateApproval[a] EXCEPT !.status = "Expired"] ELSE rateApproval[a]]
  /\ rateApproval' # rateApproval
  /\ UNCHANGED <<sale, calendar, voucherOn, settlement>>

-----------------------------------------------------------------------------
(* Agents.                                                                 *)

Unsettled(from, to) ==
  {b \in Sales : /\ sale[b].status = "Checked Out" /\ sale[b].agent # "none" /\ sale[b].to \in from .. to
                 /\ sale[b].owed \in {"", "Pending"} /\ sale[b].commission > 0}

\* The stays of a draft settlement remain open for the next one.
BuildSettlement(t, from, to) ==
  /\ settlement[t].status = "none" /\ Unsettled(from, to) # {}
  /\ settlement' = [settlement EXCEPT ![t] = [status |-> "Draft", lines |-> Unsettled(from, to), paid |-> FALSE]]
  /\ UNCHANGED <<sale, calendar, voucherOn, rateApproval>>

\* The stays of the settlements T are marked.
Owed(T, st) == [b \in Sales |-> IF \E t \in T : b \in settlement[t].lines
                                THEN [sale[b] EXCEPT !.owed = st] ELSE sale[b]]

InvoiceSettlement(t) ==
  /\ settlement[t].status = "Draft"
  /\ settlement' = [settlement EXCEPT ![t].status = "Invoiced"]
  /\ sale' = Owed({t}, "Invoiced")
  /\ UNCHANGED <<calendar, voucherOn, rateApproval>>

\* The purchase invoice is submitted and paid.
SettlementIsPaid(t) ==
  /\ settlement[t].status = "Invoiced" /\ ~ settlement[t].paid
  /\ settlement' = [settlement EXCEPT ![t].paid = TRUE]
  /\ UNCHANGED <<sale, calendar, voucherOn, rateApproval>>

UpdateSettlements ==
  LET T == {t \in Settlements : settlement[t].status = "Invoiced" /\ settlement[t].paid} IN
  /\ T # {}
  /\ settlement' = [t \in Settlements |-> IF t \in T THEN [settlement[t] EXCEPT !.status = "Paid"] ELSE settlement[t]]
  /\ sale' = Owed(T, "Paid")
  /\ UNCHANGED <<calendar, voucherOn, rateApproval>>

-----------------------------------------------------------------------------
SaleOf(b) ==
  \/ sale[b].doc = "none" /\ \E x \in NewForms : SaveDraft(b, x) \/ QuickBooking(b, x) \/ OnlineBooking(b, x)
  \/ sale[b].doc = "Draft" /\ \E x \in FormsOf(b) : SaveDraft(b, x)
  \/ SubmitSale(b) \/ CheckOutSale(b) \/ CancelSale(b)
  \/ \E from, to \in Dates : AmendSale(b, from, to)

SaleNext == \E b \in Sales : SaleOf(b)

RateNext ==
  \/ \E d \in Dates, r \in Rates, f \in Floors, c \in {"no", "arrival", "departure", "stay"} :
       SetCalendar(d, [rate |-> r, floor |-> f, closed |-> c])
  \/ SwitchVoucher \/ ExpireRateApprovals
  \/ \E a \in RateApprovals :
       \/ \E r \in Rates : RequestRateApproval(a, r)
       \/ \E st \in {"Pending", "Approved", "Rejected"} : DecideRateApproval(a, st)
       \/ RateApprovalAges(a)

AgentNext ==
  \/ \E t \in Settlements : \/ \E from, to \in Dates : BuildSettlement(t, from, to)
                            \/ InvoiceSettlement(t) \/ SettlementIsPaid(t)
  \/ UpdateSettlements

RevenueNext == SaleNext \/ RateNext \/ AgentNext

RevenueSpec == RevenueInit /\ [][RevenueNext]_revenueVars

-----------------------------------------------------------------------------
\* The first quote of a stay that costs no whole cents a night is rounded by the second.
\* After that a price stands until a person writes the form, whatever happens to rates,
\* vouchers and dates before the next save, and never comes to nothing; a net contract is
\* the exception, since each save takes its discount again.
PriceSettles ==
  [][\A b \in Sales :
       sale[b].quotes = 2 /\ sale'[b].quotes # 1 /\ "net" \notin {sale[b].agent, sale'[b].agent} =>
         /\ sale'[b].quotes = 2
         /\ sale'[b].sum * sale[b].over = sale[b].sum * sale'[b].over]_revenueVars
=============================================================================
