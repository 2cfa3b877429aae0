------------------------------- MODULE Counter -------------------------------
(***************************************************************************)
(* Money at the front desk (billing.py, front_desk.py, intelligence.py,    *)
(* the Payment Entry and POS Invoice hooks): cashier shifts and what they  *)
(* expect in the drawer, deposits, refunds and their corrections, the fee  *)
(* of a cancellation, direct billing and its credit limit.                 *)
(*                                                                         *)
(* A payment is submitted and a shift closed in two steps: what the        *)
(* request reads, and its commit.  The commit of a shift's row waits for   *)
(* the row; every write of the row moves its modified time.  Movements and *)
(* shifts have forms, where a movement is entered and cancelled and the    *)
(* status of a shift set without a look at the sums.                       *)
(***************************************************************************)
EXTENDS Integers, FiniteSets, FiniteSetsExt

CONSTANTS
  Entries,             \* payment entries, POS invoices and drawer movements
  Shifts, NoShift,     \* cashier shifts of one cashier
  PosShifts,           \* those of an outlet that requires a POS Opening Entry
  Stays,               \* reservations
  Corrections, Approvals,
  FeeDue,              \* fee of a late cancellation or a no-show
  FeeItem,             \* a cancellation fee Item is configured
  Threshold,           \* cashier_variance_approval_threshold, 0: none
  CreditLimit,         \* credit limit of the city ledger account, 0: none
  MaxAmount, MaxRowStamp   \* bounds: amounts, writes of a shift's row

ASSUME CounterAssumption ==
  /\ IsFiniteSet(Entries) /\ Entries # {} /\ Stays # {}
  /\ NoShift \notin Shifts /\ PosShifts \subseteq Shifts
  /\ FeeDue \in Nat /\ Threshold \in Nat /\ CreditLimit \in Nat
  /\ MaxAmount \in Nat \ {0} /\ MaxRowStamp \in Nat /\ FeeItem \in BOOLEAN

VARIABLES
  entry,       \* Payment Entry, POS Invoice or Hotel Cashier Movement
  hook,        \* a submit or cancel of an entry before its commit
  shift,       \* tabHotel Cashier Shift
  closer,      \* a close of a shift before its commit
  resv,        \* the money fields of a reservation
  correction,  \* tabHotel Payment Correction
  approval,    \* tabHotel Direct Bill Approval
  ledger       \* city ledger: uninvoiced charges, open invoices, payment request

counterVars == <<entry, hook, shift, closer, resv, correction, approval, ledger>>

Kinds == {"Deposit", "Refund", "Sale", "Float In", "Paid Out"}
Unset == [kind |-> "Sale", amount |-> 0, shift |-> NoShift, stay |-> CHOOSE r \in Stays : TRUE, state |-> "none"]
ShiftStatuses == {"Open", "Closing Review", "Closed", "Cancelled"}
Movements == {"Float In", "Paid Out"}
Cash == (- MaxAmount * Cardinality(Entries)) .. (MaxAmount * Cardinality(Entries))

\* Every variable has its type.
CounterTypeOK ==
  /\ \A e \in Entries :
       /\ entry[e].kind \in Kinds /\ entry[e].amount \in 0 .. MaxAmount /\ entry[e].stay \in Stays
       /\ entry[e].shift \in Shifts \cup {NoShift}
       /\ entry[e].state \in {"none", "Draft", "Submitted", "Cancelled"}
       /\ hook[e].on => hook[e].expected \in Cash /\ hook[e].received \in Nat /\ hook[e].refunded \in Nat
  /\ shift \in [Shifts -> [status : ShiftStatuses \cup {"none"}, expected : Cash,
                           counted : Cash, posClosed : BOOLEAN, stamp : 0 .. MaxRowStamp]]
  /\ \A s \in Shifts : closer[s].on => closer[s].expected \in Cash
  /\ resv \in [Stays -> [status : {"Confirmed", "Cancelled", "No Show"}, received : Nat, refunded : Nat,
                         fee : Nat, refundDue : Nat, documents : SUBSET {"desk", "job"}]]
  /\ correction \in [Corrections -> [payment : Entries, amount : 0 .. MaxAmount,
       action : {"Delete Draft", "Create Refund", "Manual Review"},
       status : {"none", "Pending Approval", "Approved", "Executed", "Cancelled"}]]
  /\ approval \in [Approvals -> [amount : 0 .. MaxAmount, status : {"none", "Pending", "Approved"}]]
  /\ ledger \in [charges : 0 .. MaxAmount, drafts : Nat, exposure : Nat,
                 request : {"none", "Draft", "Submitted", "Cancelled"}]

CounterInit ==
  /\ entry = [e \in Entries |-> Unset] /\ hook = [e \in Entries |-> [on |-> FALSE]]
  /\ shift = [s \in Shifts |-> [status |-> "none", expected |-> 0, counted |-> 0,
                                posClosed |-> FALSE, stamp |-> 0]]
  /\ closer = [s \in Shifts |-> [on |-> FALSE]]
  /\ resv = [r \in Stays |-> [status |-> "Confirmed", received |-> 0, refunded |-> 0,
                              fee |-> 0, refundDue |-> 0, documents |-> {}]]
  /\ correction = [c \in Corrections |-> [payment |-> CHOOSE e \in Entries : TRUE, amount |-> 0,
                                          action |-> "Manual Review", status |-> "none"]]
  /\ approval = [a \in Approvals |-> [amount |-> 0, status |-> "none"]]
  /\ ledger = [charges |-> 0, drafts |-> 0, exposure |-> 0, request |-> "none"]

-----------------------------------------------------------------------------
(* Sums over the entries E as they are or would be.                        *)

Sum(E, S) == SumFunctionOnSet([e \in Entries |-> E[e].amount], S)

Of(E, kinds) == {e \in Entries : E[e].state = "Submitted" /\ E[e].kind \in kinds}

\* recalculate_cashier_shift: receipts, refunds and movements of the shift.
Expected(E, s) ==
  Sum(E, {e \in Of(E, {"Deposit", "Sale", "Float In"}) : E[e].shift = s})
  - Sum(E, {e \in Of(E, {"Refund", "Paid Out"}) : E[e].shift = s})

\* get_deposit_summary.
Received(E, r) == Sum(E, {e \in Of(E, {"Deposit"}) : E[e].stay = r})
Refunded(E, r) == Sum(E, {e \in Of(E, {"Refund"}) : E[e].stay = r})
NetDeposit(r) == Received(entry, r) - Refunded(entry, r)

\* _refresh_deposit_totals, with the totals rec and ref.
Refreshed(r, rec, ref) == [resv EXCEPT ![r].received = rec, ![r].refunded = ref]

\* The row of a shift, its totals written.
Drawer(s, exp) == [shift EXCEPT ![s].expected = exp, ![s].stamp = @ + 1]

-----------------------------------------------------------------------------
(* Shifts.                                                                 *)

InUse(s) == shift[s].status \in {"Open", "Closing Review"}

OpenCashierShift(s) ==
  /\ shift[s].status = "none" /\ \A t \in Shifts : ~ InUse(t)
  /\ shift' = [shift EXCEPT ![s].status = "Open"]
  /\ UNCHANGED <<entry, hook, closer, resv, correction, approval, ledger>>

\* The POS Closing Entry of the shift is submitted and linked.
PosSessionCloses(s) ==
  /\ s \in PosShifts /\ shift[s].status # "none" /\ ~ shift[s].posClosed
  /\ shift[s].stamp < MaxRowStamp
  /\ shift' = [shift EXCEPT ![s].posClosed = TRUE, ![s].stamp = @ + 1]
  /\ UNCHANGED <<entry, hook, closer, resv, correction, approval, ledger>>

\* get_cashier_shift_summary writes what it shows, of a closed shift too.
ShowSummary(s) ==
  /\ shift[s].status # "none" /\ shift[s].stamp < MaxRowStamp
  /\ shift' = Drawer(s, Expected(entry, s))
  /\ UNCHANGED <<entry, hook, closer, resv, correction, approval, ledger>>

\* close_cashier_shift reads the shift; its sum is over the entries of this moment.
LoadClose(s) ==
  /\ InUse(s) /\ ~ closer[s].on
  /\ closer' = [closer EXCEPT ![s] = [on |-> TRUE, stamp |-> shift[s].stamp,
                                      expected |-> Expected(entry, s)]]
  /\ UNCHANGED <<entry, hook, shift, resv, correction, approval, ledger>>

\* A difference has its reason; a large one, or an open POS session, leaves it in review.
CloseAs(s, counted, reason, manager) ==
  LET variance == counted - closer[s].expected
      size == IF variance < 0 THEN - variance ELSE variance
      review == \/ Threshold > 0 /\ size > Threshold /\ ~ manager
                \/ s \in PosShifts /\ ~ shift[s].posClosed IN
  /\ variance # 0 => reason
  /\ shift' = [Drawer(s, closer[s].expected) EXCEPT ![s].counted = counted,
                 ![s].status = IF review THEN "Closing Review" ELSE "Closed"]
  /\ closer' = [closer EXCEPT ![s] = [on |-> FALSE]]
  /\ UNCHANGED <<entry, hook, resv, correction, approval, ledger>>

\* Mutant: the counted cash is written without the check that the row is the one read.
MutCommitCloseBlind(s, counted, reason, manager) ==
  /\ closer[s].on /\ shift[s].stamp < MaxRowStamp
  /\ CloseAs(s, counted, reason, manager)

\* The close saves the row it has read before it sums up, then commits.
CommitClose(s, counted, reason, manager) ==
  /\ closer[s].on /\ shift[s].stamp < MaxRowStamp
  /\ shift[s].stamp = closer[s].stamp
  /\ CloseAs(s, counted, reason, manager)

CloseFails(s) ==
  /\ closer[s].on
  /\ shift[s].stamp # closer[s].stamp \/ ~ InUse(s)
  /\ closer' = [closer EXCEPT ![s] = [on |-> FALSE]]
  /\ UNCHANGED <<entry, hook, shift, resv, correction, approval, ledger>>

\* The form of a shift: any status with any count, the totals as they are stored.  An
\* outdated form is refused.
SaveShiftForm(s, status, counted) ==
  /\ shift[s].status # "none" /\ shift[s].stamp < MaxRowStamp
  /\ shift' = [shift EXCEPT ![s].status = status, ![s].counted = counted, ![s].stamp = @ + 1]
  /\ UNCHANGED <<entry, hook, closer, resv, correction, approval, ledger>>

-----------------------------------------------------------------------------
(* Payments.                                                               *)

\* A draft payment of a reservation, its shift as given; the totals are refreshed.
Draft(e, kind, r, s, n) ==
  /\ entry[e].state = "none" /\ ~ hook[e].on
  /\ s # NoShift => shift[s].status # "none"
  /\ entry' = [entry EXCEPT ![e] = [kind |-> kind, amount |-> n, shift |-> s, stay |-> r, state |-> "Draft"]]
  /\ resv' = Refreshed(r, Received(entry, r), Refunded(entry, r))

CreateDeposit(e, r, s, n) ==
  /\ n > 0 /\ Draft(e, "Deposit", r, s, n)
  /\ UNCHANGED <<hook, shift, closer, correction, approval, ledger>>

\* Refunds are limited by what is submitted: drafts do not count.
CreateRefund(e, r, s, n) ==
  /\ n > 0 /\ n <= NetDeposit(r) /\ Draft(e, "Refund", r, s, n)
  /\ UNCHANGED <<hook, shift, closer, correction, approval, ledger>>

\* A POS invoice of the shift's outlet.
DraftSale(e, s, n) ==
  /\ entry[e].state = "none" /\ ~ hook[e].on /\ s \in Shifts /\ shift[s].status # "none"
  /\ entry' = [entry EXCEPT ![e] = [@ EXCEPT !.kind = "Sale", !.amount = n, !.shift = s, !.state = "Draft"]]
  /\ UNCHANGED <<hook, shift, closer, resv, correction, approval, ledger>>

\* The hooks of a submit or cancel sum up what is committed and their own entry.
LoadHook(e, new) ==
  LET E == [entry EXCEPT ![e] = new] IN
  hook' = [hook EXCEPT ![e] = [on |-> TRUE, new |-> new,
    expected |-> IF new.shift = NoShift THEN 0 ELSE Expected(E, new.shift),
    received |-> Received(E, new.stay), refunded |-> Refunded(E, new.stay)]]

SubmitEntry(e) ==
  /\ entry[e].state = "Draft" /\ ~ hook[e].on
  /\ LoadHook(e, [entry[e] EXCEPT !.state = "Submitted"])
  /\ UNCHANGED <<entry, shift, closer, resv, correction, approval, ledger>>

CancelEntry(e) ==
  /\ entry[e].state = "Submitted" /\ ~ hook[e].on /\ entry[e].kind \in {"Deposit", "Refund", "Sale"}
  /\ LoadHook(e, [entry[e] EXCEPT !.state = "Cancelled"])
  /\ UNCHANGED <<entry, shift, closer, resv, correction, approval, ledger>>

\* record_cashier_movement: the shift is asked for, then the movement submitted.
RecordMovement(e, kind, s, n) ==
  /\ entry[e].state = "none" /\ ~ hook[e].on /\ shift[s].status = "Open"
  /\ LoadHook(e, [entry[e] EXCEPT !.kind = kind, !.amount = n, !.shift = s, !.state = "Submitted"])
  /\ UNCHANGED <<entry, shift, closer, resv, correction, approval, ledger>>

\* The form of a movement: it is submitted and cancelled there, and no hook tells the shift.
EnterMovement(e, kind, s, n) ==
  /\ entry[e].state = "none" /\ ~ hook[e].on /\ shift[s].status # "none"
  /\ entry' = [entry EXCEPT ![e] =
       [@ EXCEPT !.kind = kind, !.amount = n, !.shift = s, !.state = "Submitted"]]
  /\ UNCHANGED <<hook, shift, closer, resv, correction, approval, ledger>>

CancelMovement(e) ==
  /\ entry[e].state = "Submitted" /\ ~ hook[e].on /\ entry[e].kind \in Movements
  /\ entry' = [entry EXCEPT ![e].state = "Cancelled"]
  /\ UNCHANGED <<hook, shift, closer, resv, correction, approval, ledger>>

\* The totals are written as they were summed up; the last writer wins.
CommitHook(e) ==
  LET h == hook[e]
      s == h.new.shift IN
  /\ h.on
  /\ s # NoShift => shift[s].stamp < MaxRowStamp
  /\ entry' = [entry EXCEPT ![e] = h.new]
  /\ shift' = IF s = NoShift THEN shift ELSE Drawer(s, h.expected)
  /\ resv' = IF h.new.kind \in {"Deposit", "Refund"} THEN Refreshed(h.new.stay, h.received, h.refunded) ELSE resv
  /\ hook' = [hook EXCEPT ![e] = [on |-> FALSE]]
  /\ UNCHANGED <<closer, correction, approval, ledger>>

-----------------------------------------------------------------------------
(* Cancellations and no-shows.  late: no free cancellation applies.        *)

\* Mutant: what the guest owes beyond the deposit is written as a refund.
MutRefundableSigned(r, fee) == NetDeposit(r) - fee

\* refund_due: what is left of the deposit after the fee.
Refundable(r, fee) == IF NetDeposit(r) > fee THEN NetDeposit(r) - fee ELSE 0

\* _post_cancellation_fee throws when the fee has no Item.
FeePosted(fee) == fee > 0 => FeeItem

Ended(r, status, fee, by) ==
  [resv EXCEPT ![r].status = status, ![r].fee = fee, ![r].documents = @ \cup {by},
               ![r].refundDue = Refundable(r, fee)]

ProcessCancellation(r, status, late, waived) ==
  LET fee == IF late /\ ~ waived THEN FeeDue ELSE 0 IN
  /\ resv[r].status = "Confirmed" /\ "desk" \notin resv[r].documents
  /\ FeePosted(fee)
  /\ resv' = Ended(r, status, fee, "desk")
  /\ UNCHANGED <<entry, hook, shift, closer, correction, approval, ledger>>

\* The no-show job; under its key of the day it is done.
NoShowJob(r) ==
  /\ resv[r].status = "Confirmed" /\ "job" \notin resv[r].documents
  /\ FeePosted(FeeDue)
  /\ resv' = Ended(r, "No Show", FeeDue, "job")
  /\ UNCHANGED <<entry, hook, shift, closer, correction, approval, ledger>>

\* The fee cannot be charged: the job goes on and keeps the cancellation document.
NoShowJobFails(r) ==
  /\ resv[r].status = "Confirmed" /\ "job" \notin resv[r].documents /\ FeeDue > 0
  /\ resv' = [resv EXCEPT ![r].documents = @ \cup {"job"}]
  /\ UNCHANGED <<entry, hook, shift, closer, correction, approval, ledger>>

-----------------------------------------------------------------------------
(* Payment corrections.                                                    *)

\* payment_correction_plan.
Legal(e) ==
  CASE entry[e].state = "Draft" -> {"Delete Draft"}
    [] entry[e].state = "Cancelled" -> {"Manual Review"}
    [] /\ entry[e].state \notin {"Draft", "Cancelled"}
       /\ entry[e].kind = "Deposit" /\ NetDeposit(entry[e].stay) > 0 -> {"Create Refund", "Manual Review"}
    [] OTHER -> {"Manual Review"}

Active(c) == correction[c].status \in {"Pending Approval", "Approved"}

\* validate, at every save of a correction k under the name c.
MaySaveCorrection(c, k) ==
  /\ entry[k.payment].state # "none" /\ k.action \in Legal(k.payment)
  /\ k.action = "Create Refund" =>
       k.amount \in 1 .. entry[k.payment].amount /\ k.amount <= NetDeposit(entry[k.payment].stay)
  /\ \A d \in Corrections \ {c} : correction[d].payment = k.payment => ~ Active(d)

RequestCorrection(c, e, action, n) ==
  LET k == [payment |-> e, action |-> action, amount |-> n, status |-> "Pending Approval"] IN
  /\ correction[c].status = "none" /\ entry[e].kind \in {"Deposit", "Refund"} /\ MaySaveCorrection(c, k)
  /\ correction' = [correction EXCEPT ![c] = k]
  /\ UNCHANGED <<entry, hook, shift, closer, resv, approval, ledger>>

ApproveCorrection(c) ==
  /\ correction[c].status = "Pending Approval" /\ MaySaveCorrection(c, correction[c])
  /\ correction' = [correction EXCEPT ![c].status = "Approved"]
  /\ UNCHANGED <<entry, hook, shift, closer, resv, approval, ledger>>

\* Rejecting saves too: what is no longer legal cannot be rejected either.
RejectCorrection(c) ==
  /\ Active(c) /\ MaySaveCorrection(c, correction[c])
  /\ correction' = [correction EXCEPT ![c].status = "Cancelled"]
  /\ UNCHANGED <<entry, hook, shift, closer, resv, approval, ledger>>

\* A refund is drafted under the key of the correction.  A draft is never deleted:
\* the correction itself names it, and its own save asks for the deleted payment.
ExecuteCorrection(c, e) ==
  LET k == correction[c]
      r == entry[k.payment].stay IN
  /\ k.status = "Approved" /\ k.action = "Create Refund" /\ MaySaveCorrection(c, k)
  /\ \E s \in Shifts \cup {NoShift} :
       /\ s # NoShift => shift[s].status = "Open"
       /\ s = NoShift => \A t \in Shifts : shift[t].status # "Open"
       /\ Draft(e, "Refund", r, s, k.amount)
  /\ correction' = [correction EXCEPT ![c].status = "Executed"]
  /\ UNCHANGED <<hook, shift, closer, approval, ledger>>

-----------------------------------------------------------------------------
(* Direct billing: the credit limit, city ledger invoices, payment requests. *)

RequestDirectBill(a, n) ==
  /\ approval[a].status = "none" /\ n > 0
  /\ approval' = [approval EXCEPT ![a] = [amount |-> n, status |-> "Pending"]]
  /\ UNCHANGED <<entry, hook, shift, closer, resv, correction, ledger>>

\* The exposure is that of submitted invoices: neither drafts nor other approvals count.
ApproveDirectBill(a, n) ==
  /\ approval[a].status # "none" /\ n > 0
  /\ CreditLimit > 0 => ledger.exposure + n <= CreditLimit
  /\ approval' = [approval EXCEPT ![a] = [amount |-> n, status |-> "Approved"]]
  /\ approval' # approval
  /\ UNCHANGED <<entry, hook, shift, closer, resv, correction, ledger>>

\* A charge is transferred to the city ledger folio.
ChargeLedger(n) ==
  /\ ledger.charges + n <= MaxAmount /\ n > 0
  /\ ledger' = [ledger EXCEPT !.charges = @ + n]
  /\ UNCHANGED <<entry, hook, shift, closer, resv, correction, approval>>

\* create_city_ledger_sales_invoice: every charge without an invoice, as a draft.
InvoiceLedger ==
  /\ ledger.charges > 0 /\ ledger.drafts = 0
  /\ ledger' = [ledger EXCEPT !.drafts = ledger.charges, !.charges = 0]
  /\ UNCHANGED <<entry, hook, shift, closer, resv, correction, approval>>

\* The invoice is submitted; an invoice is paid.
SubmitLedgerInvoice ==
  /\ ledger.drafts > 0 /\ ledger.exposure + ledger.drafts <= 2 * MaxAmount
  /\ ledger' = [ledger EXCEPT !.exposure = @ + ledger.drafts, !.drafts = 0]
  /\ UNCHANGED <<entry, hook, shift, closer, resv, correction, approval>>

PayLedgerInvoice ==
  /\ ledger.exposure > 0 /\ ledger' = [ledger EXCEPT !.exposure = 0]
  /\ UNCHANGED <<entry, hook, shift, closer, resv, correction, approval>>

\* create_payment_request_for_invoice: one that is not cancelled is returned as it is.
RequestPayment(submit) ==
  /\ ledger.exposure > 0 /\ ledger.request \in {"none", "Cancelled"}
  /\ ledger' = [ledger EXCEPT !.request = IF submit THEN "Submitted" ELSE "Draft"]
  /\ UNCHANGED <<entry, hook, shift, closer, resv, correction, approval>>

CancelPaymentRequest ==
  /\ ledger.request = "Submitted" /\ ledger' = [ledger EXCEPT !.request = "Cancelled"]
  /\ UNCHANGED <<entry, hook, shift, closer, resv, correction, approval>>

-----------------------------------------------------------------------------
ShiftNext == \E s \in Shifts :
  \/ OpenCashierShift(s) \/ PosSessionCloses(s) \/ ShowSummary(s) \/ LoadClose(s) \/ CloseFails(s)
  \/ \E counted \in Cash, reason, manager \in BOOLEAN : CommitClose(s, counted, reason, manager)
  \/ \E status \in ShiftStatuses, counted \in Cash : SaveShiftForm(s, status, counted)

EntryNext == \E e \in Entries :
  \/ \E r \in Stays, s \in Shifts \cup {NoShift}, n \in 1 .. MaxAmount :
       CreateDeposit(e, r, s, n) \/ CreateRefund(e, r, s, n) \/ DraftSale(e, s, n)
  \/ \E s \in Shifts, n \in 1 .. MaxAmount, k \in Movements :
       RecordMovement(e, k, s, n) \/ EnterMovement(e, k, s, n)
  \/ SubmitEntry(e) \/ CancelEntry(e) \/ CancelMovement(e) \/ CommitHook(e)

CancelNext == \E r \in Stays :
  \/ \E status \in {"Cancelled", "No Show"}, late, waived \in BOOLEAN : ProcessCancellation(r, status, late, waived)
  \/ NoShowJob(r) \/ NoShowJobFails(r)

CorrectionNext == \E c \in Corrections :
  \/ \E e \in Entries, n \in 1 .. MaxAmount, act \in {"Delete Draft", "Create Refund", "Manual Review"} :
       RequestCorrection(c, e, act, n)
  \/ ApproveCorrection(c) \/ RejectCorrection(c) \/ \E e \in Entries : ExecuteCorrection(c, e)

LedgerNext ==
  \/ \E a \in Approvals, n \in 1 .. MaxAmount : RequestDirectBill(a, n) \/ ApproveDirectBill(a, n)
  \/ \E n \in 1 .. MaxAmount : ChargeLedger(n)
  \/ InvoiceLedger \/ SubmitLedgerInvoice \/ PayLedgerInvoice
  \/ \E submit \in BOOLEAN : RequestPayment(submit)
  \/ CancelPaymentRequest

CounterNext == ShiftNext \/ EntryNext \/ CancelNext \/ CorrectionNext \/ LedgerNext

CounterSpec == CounterInit /\ [][CounterNext]_counterVars

-----------------------------------------------------------------------------
\* A close that is not outdated has another sum than that of the entries there are.
Misled(s) == closer[s].on /\ closer[s].stamp = shift[s].stamp
             /\ closer[s].expected # Expected(entry, s)

\* A movement of the shift is entered or cancelled in its form, or the status is set in
\* the form of the shift.
MovedInForm(s) == /\ shift' = shift /\ hook' = hook
                  /\ \E e \in Entries : /\ entry'[e] # entry[e] /\ entry'[e].shift = s
                                        /\ entry'[e].kind \in Movements
ClosedInForm(s) == closer' = closer /\ shift'[s].expected = shift[s].expected

\* close_cashier_shift closes a shift on every payment there is: the expected cash is the
\* sum over the payments and movements committed by then, whatever commits while the cash
\* is counted.  It is misled only by a movement that is entered or cancelled in its form
\* after the sum was made, since nothing tells the shift; and only the form of the shift
\* closes it on the totals that happen to be stored.
ClosedOnAllPayments ==
  [][\A s \in Shifts :
       /\ shift[s].status # "Closed" /\ shift'[s].status = "Closed" =>
            shift'[s].expected = Expected(entry', s) \/ Misled(s) \/ ClosedInForm(s)
       /\ ~ Misled(s) /\ Misled(s)' => MovedInForm(s)]_counterVars
=============================================================================
