---------------------------- MODULE CommerceProofs ----------------------------
(***************************************************************************)
(* Proofs about the drawer (Counter), the schedule of a group's package    *)
(* (GroupEvents), the pre-arrival form (GuestAccess) and the price of a    *)
(* stay (Revenue), for any entries and shifts, groups, services and runs,  *)
(* guests, links and requests, rates and nights; then the types of all     *)
(* four modules.                                                           *)
(*                                                                         *)
(* The first three turn on a row that is read, used to decide, and saved   *)
(* only if its modified time has not moved.  A close that is not outdated  *)
(* has summed up the entries there are, because the hooks let an entry     *)
(* into a sum, or out of it, only with a write of its shift; the form of a *)
(* movement does without, and is what may mislead a close.  A posting run  *)
(* that is not outdated has the charges of the folio, and one that is      *)
(* outdated has only charges that are still there (Reads).  A price stands *)
(* because what the first quote writes is a number of whole cents a night. *)
(***************************************************************************)
EXTENDS MCCommerce, SumLemmas

(* The drawer. *)

EntryRow == [kind : Kinds, amount : Int, shift : Shifts \cup {NoShift}, stay : Stays,
             state : {"none", "Draft", "Submitted", "Cancelled"}]

ShiftStatus == ShiftStatuses \cup {"none"}

ShiftRow == [status : ShiftStatus, expected : Int, counted : Int, posClosed : BOOLEAN, stamp : Nat]

CorrectionRow == [payment : Entries, amount : Int,
                  action : {"Delete Draft", "Create Refund", "Manual Review"},
                  status : {"none", "Pending Approval", "Approved", "Executed", "Cancelled"}]

\* Entries, shifts and corrections have the types that the sums and stamps need.
DrawerTyped ==
  /\ entry \in [Entries -> EntryRow]
  /\ shift \in [Shifts -> ShiftRow]
  /\ correction \in [Corrections -> CorrectionRow]

\* A hook changes an entry that is new, or that stays in its shift.
HooksKnow == \A e \in Entries : hook[e].on =>
  /\ hook[e].new \in EntryRow /\ hook[e].expected \in Int
  /\ entry[e].state = "none" \/ entry[e].shift = hook[e].new.shift

\* A close has made its sum at a write of the row.
Counted(c, row) == c.on => c.stamp \in Nat /\ c.stamp <= row.stamp /\ c.expected \in Int

ClosersCount == \A s \in Shifts : Counted(closer[s], shift[s])

DrawerInv == /\ DrawerTyped /\ HooksKnow /\ ClosersCount
             /\ DOMAIN hook = Entries /\ DOMAIN closer = Shifts

\* A step after which the close of a shift, if it is not outdated, has the sum of the
\* entries there are, or has not had it before.
Informed(s) == Counted(closer'[s], shift'[s]) /\ (Misled(s)' => Misled(s))

\* What a step may do to a shift.
ClosesRight == \A s \in Shifts :
  /\ shift[s].status # "Closed" /\ shift'[s].status = "Closed" =>
       shift'[s].expected = Expected(entry', s) \/ Misled(s) \/ ClosedInForm(s)
  /\ ~ Misled(s) /\ Misled(s)' => MovedInForm(s)

-----------------------------------------------------------------------------
(* Sums over entries. *)

LEMMA SumOfEntries ==
  ASSUME NEW E \in [Entries -> EntryRow], NEW S \in SUBSET Entries
  PROVE  Sum(E, S) \in Int
<1> DEFINE V == [e \in Entries |-> E[e].amount]
<1>1. IsFiniteSet(S)
  BY FS_Subset, CounterAssumption
<1>2. \A e \in S : V[e] \in Int
  BY DEF EntryRow
<1> HIDE DEF V
<1>3. SumFunctionOnSet(V, S) \in Int
  BY <1>1, <1>2, SumInteger
<1> QED
  BY <1>3 DEF Sum, V

LEMMA ExpectedIsInt ==
  ASSUME NEW E \in [Entries -> EntryRow], NEW s PROVE Expected(E, s) \in Int
<1> DEFINE A == {e \in Of(E, {"Deposit", "Sale", "Float In"}) : E[e].shift = s}
           B == {e \in Of(E, {"Refund", "Paid Out"}) : E[e].shift = s}
<1>1. A \in SUBSET Entries /\ B \in SUBSET Entries
  BY DEF Of
<1>2. Expected(E, s) = Sum(E, A) - Sum(E, B)
  BY Zenon DEF Expected
<1> HIDE DEF A, B
<1>3. Sum(E, A) \in Int /\ Sum(E, B) \in Int
  BY <1>1, SumOfEntries
<1> QED
  BY <1>2, <1>3

\* One entry changes that is, before and after, not in the sums of the shift.
LEMMA ExpectedSame ==
  ASSUME NEW E \in [Entries -> EntryRow], NEW F \in [Entries -> EntryRow],
         NEW e \in Entries, NEW s,
         \A d \in Entries \ {e} : F[d] = E[d],
         E[e].state # "Submitted" \/ E[e].shift # s,
         F[e].state # "Submitted" \/ F[e].shift # s
  PROVE  Expected(F, s) = Expected(E, s)
<1>1. ASSUME NEW kinds
      PROVE  Sum(F, {d \in Of(F, kinds) : F[d].shift = s})
             = Sum(E, {d \in Of(E, kinds) : E[d].shift = s})
  <2> DEFINE S == {d \in Of(E, kinds) : E[d].shift = s}
             V == [d \in Entries |-> E[d].amount]
             W == [d \in Entries |-> F[d].amount]
  <2>1. {d \in Of(F, kinds) : F[d].shift = s} = S
    BY DEF Of
  <2>2. S \in SUBSET Entries /\ e \notin S
    BY DEF Of
  <2>3. IsFiniteSet(S)
    BY <2>2, FS_Subset, CounterAssumption
  <2>4. \A d \in S : V[d] \in Int /\ W[d] = V[d]
    BY <2>2 DEF EntryRow
  <2> HIDE DEF S, V, W
  <2>5. SumFunctionOnSet(W, S) = SumFunctionOnSet(V, S)
    BY <2>3, <2>4, SumSame
  <2>6. Sum(F, S) = Sum(E, S)
    BY <2>5 DEF Sum, V, W
  <2> QED
    BY <2>1, <2>6 DEF S
<1>2. ASSUME NEW G
      PROVE  Expected(G, s) = Sum(G, {d \in Of(G, {"Deposit", "Sale", "Float In"}) : G[d].shift = s})
                              - Sum(G, {d \in Of(G, {"Refund", "Paid Out"}) : G[d].shift = s})
  BY Zenon DEF Expected
<1> QED
  BY <1>1, <1>2, Zenon

-----------------------------------------------------------------------------
(* Steps that leave the entries and the closes as they are.                *)

\* The shifts keep their types and stamps do not fall; none of them becomes Closed.
Onwards ==
  /\ shift' \in [Shifts -> ShiftRow]
  /\ \A s \in Shifts : shift[s].stamp <= shift'[s].stamp
  /\ \A s \in Shifts : shift'[s].status = "Closed" => shift[s].status = "Closed"

\* Every close is as informed as before: what is left to say is when a shift becomes Closed.
LEMMA InformedRight ==
  ASSUME \A s \in Shifts : Informed(s)
  PROVE  /\ ClosersCount'
         /\ (\A s \in Shifts : shift[s].status # "Closed" /\ shift'[s].status = "Closed" =>
               shift'[s].expected = Expected(entry', s) \/ Misled(s) \/ ClosedInForm(s))
            => ClosesRight
BY DEF Informed, ClosersCount, ClosesRight

LEMMA DrawerKept ==
  ASSUME DrawerInv, entry' = entry, hook' = hook, closer' = closer,
         correction' \in [Corrections -> CorrectionRow], Onwards
  PROVE  DrawerInv' /\ ClosesRight
<1>1. DrawerTyped'
  BY DEF DrawerInv, DrawerTyped, Onwards
<1>2. HooksKnow'
  BY DEF DrawerInv, HooksKnow
<1>3. ASSUME NEW s \in Shifts PROVE Informed(s)
  <2>1. Counted(closer[s], shift[s]) /\ shift[s].stamp <= shift'[s].stamp
        /\ shift[s].stamp \in Nat /\ shift'[s].stamp \in Nat
    BY DEF DrawerInv, ClosersCount, Onwards, DrawerTyped, ShiftRow
  <2>2. Expected(entry', s) = Expected(entry, s)
    OBVIOUS
  <2> QED
    BY <2>1, <2>2 DEF Counted, Informed, Misled
<1> QED
  BY <1>1, <1>2, <1>3, InformedRight DEF DrawerInv, Onwards

\* Writes of a row keep its type.
LEMMA RowsTyped ==
  ASSUME NEW row \in ShiftRow
  PROVE  /\ row.stamp \in Nat /\ row.stamp <= row.stamp + 1
         /\ \A st \in ShiftStatus : [row EXCEPT !.status = st] \in ShiftRow
         /\ [row EXCEPT !.posClosed = TRUE, !.stamp = @ + 1] \in ShiftRow
         /\ \A v \in Int, st \in ShiftStatus :
              [row EXCEPT !.status = st, !.counted = v, !.stamp = @ + 1] \in ShiftRow
         /\ \A n \in Int : [row EXCEPT !.expected = n, !.stamp = @ + 1] \in ShiftRow
         /\ \A n, v \in Int, st \in ShiftStatus :
              [row EXCEPT !.expected = n, !.stamp = @ + 1, !.counted = v, !.status = st] \in ShiftRow
<1>1. row.stamp \in Nat /\ row.stamp + 1 \in Nat /\ row.stamp <= row.stamp + 1
  BY DEF ShiftRow
<1>2. \A st \in ShiftStatus : [row EXCEPT !.status = st] \in ShiftRow
  BY DEF ShiftRow
<1>3. /\ [row EXCEPT !.posClosed = TRUE, !.stamp = @ + 1] \in ShiftRow
      /\ \A v \in Int, st \in ShiftStatus :
           [row EXCEPT !.status = st, !.counted = v, !.stamp = @ + 1] \in ShiftRow
  BY <1>1 DEF ShiftRow
<1>4. \A n \in Int : [row EXCEPT !.expected = n, !.stamp = @ + 1] \in ShiftRow
  BY <1>1 DEF ShiftRow
<1>5. \A n, v \in Int, st \in ShiftStatus :
        [row EXCEPT !.expected = n, !.stamp = @ + 1, !.counted = v, !.status = st] \in ShiftRow
  BY <1>1 DEF ShiftRow
<1> QED
  BY <1>1, <1>2, <1>3, <1>4, <1>5

LEMMA RowWritten ==
  ASSUME shift \in [Shifts -> ShiftRow], NEW s \in Shifts, NEW row \in ShiftRow,
         shift' = [shift EXCEPT ![s] = row],
         shift[s].stamp <= row.stamp, row.status = "Closed" => shift[s].status = "Closed"
  PROVE  Onwards
<1>1. shift' \in [Shifts -> ShiftRow]
  OBVIOUS
<1>2. ASSUME NEW t \in Shifts
      PROVE  /\ shift[t].stamp <= shift'[t].stamp
             /\ shift'[t].status = "Closed" => shift[t].status = "Closed"
  <2>1. shift[t].stamp \in Nat
    BY DEF ShiftRow
  <2>2. shift'[t] = IF t = s THEN row ELSE shift[t]
    OBVIOUS
  <2> QED
    BY <2>1, <2>2
<1> QED
  BY <1>1, <1>2 DEF Onwards

LEMMA OpenCashierShiftKeeps ==
  ASSUME DrawerInv, NEW s \in Shifts, OpenCashierShift(s) PROVE DrawerInv' /\ ClosesRight
<1> DEFINE row == [shift[s] EXCEPT !.status = "Open"]
<1>1. /\ shift \in [Shifts -> ShiftRow] /\ shift' = [shift EXCEPT ![s] = row]
      /\ correction' \in [Corrections -> CorrectionRow]
  BY DEF OpenCashierShift, DrawerInv, DrawerTyped
<1>2. row \in ShiftRow /\ shift[s].stamp <= row.stamp /\ row.status # "Closed"
  <2>1. shift[s] \in ShiftRow
    BY <1>1
  <2>2. row.stamp = shift[s].stamp /\ row.status = "Open"
    BY <2>1 DEF ShiftRow
  <2>3. row \in ShiftRow /\ shift[s].stamp \in Nat
    BY <2>1, RowsTyped DEF ShiftStatus, ShiftStatuses
  <2> HIDE DEF row
  <2> QED
    BY <2>2, <2>3
<1> HIDE DEF row
<1>3. Onwards
  BY <1>1, <1>2, RowWritten
<1> QED
  BY <1>1, <1>3, DrawerKept DEF OpenCashierShift

LEMMA PosSessionClosesKeeps ==
  ASSUME DrawerInv, NEW s \in Shifts, PosSessionCloses(s) PROVE DrawerInv' /\ ClosesRight
<1> DEFINE row == [shift[s] EXCEPT !.posClosed = TRUE, !.stamp = @ + 1]
<1>1. /\ shift \in [Shifts -> ShiftRow] /\ shift' = [shift EXCEPT ![s] = row]
      /\ correction' \in [Corrections -> CorrectionRow]
  BY DEF PosSessionCloses, DrawerInv, DrawerTyped
<1>2. row \in ShiftRow /\ shift[s].stamp <= row.stamp /\ row.status = shift[s].status
  <2>1. shift[s] \in ShiftRow
    BY <1>1
  <2>2. row.stamp = shift[s].stamp + 1 /\ row.status = shift[s].status
    BY <2>1 DEF ShiftRow
  <2>3. row \in ShiftRow /\ shift[s].stamp <= shift[s].stamp + 1
    BY <2>1, RowsTyped
  <2> HIDE DEF row
  <2> QED
    BY <2>2, <2>3
<1> HIDE DEF row
<1>3. Onwards
  BY <1>1, <1>2, RowWritten
<1> QED
  BY <1>1, <1>3, DrawerKept DEF PosSessionCloses

LEMMA ShowSummaryKeeps ==
  ASSUME DrawerInv, NEW s \in Shifts, ShowSummary(s) PROVE DrawerInv' /\ ClosesRight
<1>1. PICK exp \in Int : shift' = Drawer(s, exp)
  BY ExpectedIsInt DEF ShowSummary, DrawerInv, DrawerTyped
<1> DEFINE row == [shift[s] EXCEPT !.expected = exp, !.stamp = @ + 1]
<1>2. /\ shift \in [Shifts -> ShiftRow] /\ shift' = [shift EXCEPT ![s] = row]
      /\ correction' \in [Corrections -> CorrectionRow]
  BY <1>1 DEF ShowSummary, DrawerInv, DrawerTyped, Drawer
<1>3. row \in ShiftRow /\ shift[s].stamp <= row.stamp /\ row.status = shift[s].status
  <2>1. shift[s] \in ShiftRow
    BY <1>2
  <2>2. row.stamp = shift[s].stamp + 1 /\ row.status = shift[s].status
    BY <2>1 DEF ShiftRow
  <2>3. row \in ShiftRow /\ shift[s].stamp <= shift[s].stamp + 1
    BY <2>1, RowsTyped
  <2> HIDE DEF row
  <2> QED
    BY <2>2, <2>3
<1> HIDE DEF row
<1>4. Onwards
  BY <1>2, <1>3, RowWritten
<1> QED
  BY <1>2, <1>4, DrawerKept DEF ShowSummary

\* Cancellations, no-shows and the credit of an account leave the drawer alone.
LEMMA ElsewhereKeeps ==
  ASSUME DrawerInv, UNCHANGED <<entry, hook, shift, closer>>,
         correction' \in [Corrections -> CorrectionRow]
  PROVE  DrawerInv' /\ ClosesRight
<1>1. Onwards
  BY DEF Onwards, DrawerInv, DrawerTyped, ShiftRow
<1> QED
  BY <1>1, DrawerKept

-----------------------------------------------------------------------------
(* The closes.                                                             *)

LEMMA LoadCloseKeeps ==
  ASSUME DrawerInv, NEW s \in Shifts, LoadClose(s) PROVE DrawerInv' /\ ClosesRight
<1>1. DrawerTyped' /\ HooksKnow'
  BY DEF DrawerInv, DrawerTyped, HooksKnow, LoadClose
<1>2. PICK exp : exp = Expected(entry, s) /\ exp \in Int
  BY ExpectedIsInt DEF DrawerInv, DrawerTyped
<1>3. ASSUME NEW t \in Shifts PROVE Informed(t)
  <2>1. Counted(closer[t], shift[t]) /\ shift[t].stamp \in Nat
    BY DEF DrawerInv, DrawerTyped, ClosersCount, ShiftRow
  <2>2. CASE t = s
    <3>1. closer'[t] = [on |-> TRUE, stamp |-> shift[s].stamp, expected |-> exp]
      BY <2>2, <1>2 DEF LoadClose, DrawerInv
    <3>2. shift'[t] = shift[s] /\ Expected(entry', t) = exp
      BY <2>2, <1>2 DEF LoadClose
    <3> QED
      BY <3>1, <3>2, <1>2, <2>1, <2>2 DEF Counted, Informed, Misled
  <2>3. CASE t # s
    <3>1. closer'[t] = closer[t] /\ shift'[t] = shift[t] /\ Expected(entry', t) = Expected(entry, t)
      BY <2>3 DEF LoadClose, DrawerInv
    <3> QED
      BY <2>1, <3>1 DEF Informed, Misled
  <2> QED
    BY <2>2, <2>3
<1> QED
  BY <1>1, <1>3, InformedRight DEF DrawerInv, LoadClose

LEMMA CloseFailsKeeps ==
  ASSUME DrawerInv, NEW s \in Shifts, CloseFails(s) PROVE DrawerInv' /\ ClosesRight
<1>1. DrawerTyped' /\ HooksKnow'
  BY DEF DrawerInv, DrawerTyped, HooksKnow, CloseFails
<1>2. ASSUME NEW t \in Shifts PROVE Informed(t)
  <2>1. /\ Counted(closer[t], shift[t]) /\ shift' = shift
        /\ Expected(entry', t) = Expected(entry, t)
    BY DEF DrawerInv, ClosersCount, CloseFails
  <2>2. closer'[t] = closer[t] \/ ~ closer'[t].on
    BY DEF DrawerInv, CloseFails
  <2> QED
    BY <2>1, <2>2 DEF Counted, Informed, Misled
<1> QED
  BY <1>1, <1>2, InformedRight DEF DrawerInv, CloseFails

\* The row is the one that was read: no entry has come or gone since, unless in its form.
LEMMA CommitCloseKeeps ==
  ASSUME DrawerInv, NEW s \in Shifts, NEW counted \in Int, NEW reason, NEW manager,
         CommitClose(s, counted, reason, manager)
  PROVE  DrawerInv' /\ ClosesRight
<1>1. /\ entry' = entry /\ hook' = hook /\ correction' = correction
      /\ closer' = [closer EXCEPT ![s] = [on |-> FALSE]]
      /\ closer[s].on /\ shift[s].stamp = closer[s].stamp
  BY DEF CommitClose, CloseAs
<1>2. /\ closer[s].expected \in Int
      /\ closer[s].expected = Expected(entry, s) \/ Misled(s)
  BY <1>1 DEF DrawerInv, ClosersCount, Counted, Misled
<1>3. PICK st \in {"Closing Review", "Closed"} :
        shift' = [Drawer(s, closer[s].expected) EXCEPT ![s].counted = counted, ![s].status = st]
  <2> DEFINE v == counted - closer[s].expected
             st == IF \/ Threshold > 0 /\ (IF v < 0 THEN - v ELSE v) > Threshold /\ ~ manager
                      \/ s \in PosShifts /\ ~ shift[s].posClosed
                   THEN "Closing Review" ELSE "Closed"
  <2>1. shift' = [Drawer(s, closer[s].expected) EXCEPT ![s].counted = counted, ![s].status = st]
    BY Zenon DEF CommitClose, CloseAs
  <2>2. st \in {"Closing Review", "Closed"}
    OBVIOUS
  <2> HIDE DEF v, st
  <2> QED
    BY <2>1, <2>2
<1>4. /\ shift' \in [Shifts -> ShiftRow]
      /\ shift'[s].expected = closer[s].expected
      /\ \A t \in Shifts \ {s} : shift'[t] = shift[t]
  <2> DEFINE row == [shift[s] EXCEPT !.expected = closer[s].expected, !.stamp = @ + 1,
                                     !.counted = counted, !.status = st]
  <2>1. shift \in [Shifts -> ShiftRow]
    BY DEF DrawerInv, DrawerTyped
  <2>2. shift' = [shift EXCEPT ![s] = row]
    BY <1>3, <2>1 DEF Drawer, ShiftRow
  <2>3. row \in ShiftRow /\ row.expected = closer[s].expected
    <3>0. st \in ShiftStatus
      BY <1>3 DEF ShiftStatus, ShiftStatuses
    <3>1. shift[s] \in ShiftRow
      BY <2>1
    <3>2. row.expected = closer[s].expected
      BY <3>1 DEF ShiftRow
    <3>3. row \in ShiftRow
      BY <1>2, <3>0, <3>1, RowsTyped
    <3> QED
      BY <3>2, <3>3
  <2> HIDE DEF row
  <2> QED
    BY <2>1, <2>2, <2>3
<1>5. DrawerTyped' /\ HooksKnow'
  BY <1>1, <1>4 DEF DrawerInv, DrawerTyped, HooksKnow
<1>6. ASSUME NEW t \in Shifts PROVE Informed(t)
  <2>1. Counted(closer[t], shift[t]) /\ Expected(entry', t) = Expected(entry, t)
    BY <1>1 DEF DrawerInv, ClosersCount
  <2>2. CASE t = s
    BY <1>1, <2>2 DEF Counted, Informed, Misled, DrawerInv
  <2>3. CASE t # s
    <3>1. closer'[t] = closer[t] /\ shift'[t] = shift[t]
      BY <1>1, <1>4, <2>3 DEF DrawerInv
    <3> QED
      BY <2>1, <3>1 DEF Informed, Misled
  <2> QED
    BY <2>2, <2>3
<1>7. ASSUME NEW t \in Shifts, shift[t].status # "Closed", shift'[t].status = "Closed"
      PROVE  shift'[t].expected = Expected(entry', t) \/ Misled(t)
  <2>1. t = s
    BY <1>4, <1>7
  <2> QED
    BY <1>1, <1>2, <1>4, <2>1
<1> QED
  BY <1>1, <1>5, <1>6, <1>7, InformedRight DEF DrawerInv

\* The form leaves the total as it is; a close that has summed up is outdated.
LEMMA SaveShiftFormKeeps ==
  ASSUME DrawerInv, NEW s \in Shifts, NEW status \in ShiftStatuses, NEW counted \in Int,
         SaveShiftForm(s, status, counted)
  PROVE  DrawerInv' /\ ClosesRight
<1> DEFINE row == [shift[s] EXCEPT !.status = status, !.counted = counted, !.stamp = @ + 1]
<1>1. /\ shift \in [Shifts -> ShiftRow] /\ shift' = [shift EXCEPT ![s] = row]
      /\ correction' \in [Corrections -> CorrectionRow]
      /\ entry' = entry /\ hook' = hook /\ closer' = closer
  BY DEF SaveShiftForm, DrawerInv, DrawerTyped
<1>2. row \in ShiftRow /\ row.stamp = shift[s].stamp + 1 /\ row.expected = shift[s].expected
  <2>1. shift[s] \in ShiftRow /\ status \in ShiftStatus
    BY <1>1 DEF ShiftStatus
  <2>2. row.stamp = shift[s].stamp + 1 /\ row.expected = shift[s].expected
    BY <2>1 DEF ShiftRow
  <2>3. row \in ShiftRow
    BY <2>1, RowsTyped
  <2> HIDE DEF row
  <2> QED
    BY <2>2, <2>3
<1> HIDE DEF row
<1>3. DrawerTyped' /\ HooksKnow'
  BY <1>1, <1>2 DEF DrawerInv, DrawerTyped, HooksKnow
<1>4. ASSUME NEW t \in Shifts PROVE Informed(t)
  <2>1. /\ Counted(closer[t], shift[t]) /\ Expected(entry', t) = Expected(entry, t)
        /\ shift[t].stamp \in Nat
    BY <1>1 DEF DrawerInv, ClosersCount, ShiftRow
  <2>2. CASE t = s
    <3>1. shift'[t].stamp = shift[t].stamp + 1
      BY <1>1, <1>2, <2>2
    <3> QED
      BY <1>1, <2>1, <3>1 DEF Counted, Informed, Misled
  <2>3. CASE t # s
    <3>1. shift'[t] = shift[t]
      BY <1>1, <2>3
    <3> QED
      BY <1>1, <2>1, <3>1 DEF Informed, Misled
  <2> QED
    BY <2>2, <2>3
<1>5. ASSUME NEW t \in Shifts, shift[t].status # "Closed", shift'[t].status = "Closed"
      PROVE  ClosedInForm(t)
  <2>1. t = s
    BY <1>1, <1>5
  <2> QED
    BY <1>1, <1>2, <2>1 DEF ClosedInForm
<1> QED
  BY <1>1, <1>3, <1>4, <1>5, InformedRight DEF DrawerInv

-----------------------------------------------------------------------------
(* The entries.                                                            *)

\* A draft takes a new entry; no sum has it.
LEMMA DraftKeeps ==
  ASSUME DrawerInv, NEW e \in Entries, NEW row \in EntryRow,
         entry[e].state = "none", ~ hook[e].on, row.state = "Draft",
         entry' = [entry EXCEPT ![e] = row], hook' = hook, shift' = shift, closer' = closer,
         correction' \in [Corrections -> CorrectionRow]
  PROVE  DrawerInv' /\ ClosesRight
<1>1. /\ entry \in [Entries -> EntryRow] /\ entry' \in [Entries -> EntryRow]
      /\ entry'[e] = row /\ \A d \in Entries \ {e} : entry'[d] = entry[d]
  BY DEF DrawerInv, DrawerTyped
<1>2. DrawerTyped'
  BY <1>1 DEF DrawerInv, DrawerTyped
<1>3. HooksKnow'
  <2>1. ASSUME NEW d \in Entries, hook'[d].on
        PROVE  /\ hook'[d].new \in EntryRow /\ hook'[d].expected \in Int
               /\ entry'[d].state = "none" \/ entry'[d].shift = hook'[d].new.shift
    <3>1. d # e /\ hook[d].on
      BY <2>1
    <3>2. entry'[d] = entry[d]
      BY <1>1, <3>1
    <3> QED
      BY <3>1, <3>2 DEF DrawerInv, HooksKnow
  <2> QED
    BY <2>1 DEF HooksKnow
<1>4. ASSUME NEW s \in Shifts PROVE Informed(s)
  <2>1. /\ entry[e].state # "Submitted" \/ entry[e].shift # s
        /\ entry'[e].state # "Submitted" \/ entry'[e].shift # s
    BY <1>1
  <2>2. ASSUME NEW F \in [Entries -> EntryRow], \A d \in Entries \ {e} : F[d] = entry[d],
               F[e].state # "Submitted" \/ F[e].shift # s
        PROVE  Expected(F, s) = Expected(entry, s)
    <3>1. entry \in [Entries -> EntryRow]
      BY <1>1
    <3> QED
      BY <2>1, <2>2, <3>1, ExpectedSame
  <2>3. Expected(entry', s) = Expected(entry, s)
    BY <1>1, <2>1, <2>2
  <2>4. Counted(closer[s], shift[s])
    BY DEF DrawerInv, ClosersCount
  <2> QED
    BY <2>3, <2>4 DEF Informed, Misled
<1> QED
  BY <1>2, <1>3, <1>4, InformedRight DEF DrawerInv

LEMMA PaymentDraftKeeps ==
  ASSUME DrawerInv, NEW e \in Entries, NEW kind \in Kinds, NEW r \in Stays,
         NEW s \in Shifts \cup {NoShift}, NEW n \in Int, Draft(e, kind, r, s, n),
         hook' = hook, shift' = shift, closer' = closer,
         correction' \in [Corrections -> CorrectionRow]
  PROVE  DrawerInv' /\ ClosesRight
<1> DEFINE row == [kind |-> kind, amount |-> n, shift |-> s, stay |-> r, state |-> "Draft"]
<1>1. row \in EntryRow /\ row.state = "Draft"
  BY DEF EntryRow
<1>2. entry[e].state = "none" /\ ~ hook[e].on /\ entry' = [entry EXCEPT ![e] = row]
  BY DEF Draft
<1> HIDE DEF row
<1> QED
  BY <1>1, <1>2, DraftKeeps

LEMMA DraftSaleKeeps ==
  ASSUME DrawerInv, NEW e \in Entries, NEW s \in Shifts, NEW n \in Int, DraftSale(e, s, n)
  PROVE  DrawerInv' /\ ClosesRight
<1> DEFINE row == [entry[e] EXCEPT !.kind = "Sale", !.amount = n, !.shift = s, !.state = "Draft"]
<1>1. entry[e] \in EntryRow /\ correction' \in [Corrections -> CorrectionRow]
  BY DEF DrawerInv, DrawerTyped, DraftSale
<1>2. row \in EntryRow /\ row.state = "Draft"
  BY <1>1 DEF EntryRow, Kinds
<1>3. /\ entry[e].state = "none" /\ ~ hook[e].on /\ entry' = [entry EXCEPT ![e] = row]
      /\ hook' = hook /\ shift' = shift /\ closer' = closer
  BY DEF DraftSale
<1> HIDE DEF row
<1> QED
  BY <1>1, <1>2, <1>3, DraftKeeps

\* A hook has summed up a row that is new, or that keeps its shift.
LEMMA LoadHookKeeps ==
  ASSUME DrawerInv, NEW e \in Entries, NEW new \in EntryRow, LoadHook(e, new),
         entry[e].state = "none" \/ entry[e].shift = new.shift,
         UNCHANGED <<entry, shift, closer, correction>>
  PROVE  DrawerInv' /\ ClosesRight
<1>1. DrawerTyped' /\ \A s \in Shifts : Informed(s)
  BY DEF DrawerInv, DrawerTyped, ClosersCount, Informed, Misled
<1> DEFINE E == [entry EXCEPT ![e] = new]
           exp == IF new.shift = NoShift THEN 0 ELSE Expected(E, new.shift)
<1>2. exp \in Int
  <2>1. E \in [Entries -> EntryRow]
    BY DEF DrawerInv, DrawerTyped
  <2> HIDE DEF E
  <2>2. Expected(E, new.shift) \in Int
    BY <2>1, ExpectedIsInt
  <2> QED
    BY <2>2
<1>3. PICK rec, ref : hook' = [hook EXCEPT ![e] = [on |-> TRUE, new |-> new, expected |-> exp,
                                                  received |-> rec, refunded |-> ref]]
  BY Zenon DEF LoadHook
<1> HIDE DEF E, exp
<1>4. HooksKnow'
  <2>1. ASSUME NEW d \in Entries, hook'[d].on
        PROVE  /\ hook'[d].new \in EntryRow /\ hook'[d].expected \in Int
               /\ entry'[d].state = "none" \/ entry'[d].shift = hook'[d].new.shift
    <3>1. CASE d = e
      <4>1. hook'[d].new = new /\ hook'[d].expected = exp
        BY <1>3, <3>1 DEF DrawerInv
      <4> QED
        BY <4>1, <1>2, <3>1
    <3>2. CASE d # e
      BY <1>3, <2>1, <3>2 DEF DrawerInv, HooksKnow
    <3> QED
      BY <3>1, <3>2
  <2> QED
    BY <2>1 DEF HooksKnow
<1> QED
  BY <1>1, <1>3, <1>4, InformedRight DEF DrawerInv

\* The commit of a hook writes the shift of the entry: its closes are outdated.
LEMMA CommitHookKeeps ==
  ASSUME DrawerInv, NEW e \in Entries, CommitHook(e)
  PROVE  DrawerInv' /\ ClosesRight
<1> DEFINE new == hook[e].new
           s == new.shift
<1>1. /\ entry' = [entry EXCEPT ![e] = new] /\ hook' = [hook EXCEPT ![e] = [on |-> FALSE]]
      /\ shift' = IF s = NoShift THEN shift ELSE Drawer(s, hook[e].expected)
      /\ closer' = closer /\ correction' = correction /\ hook[e].on
  BY DEF CommitHook
<1>2. /\ new \in EntryRow /\ hook[e].expected \in Int
      /\ entry[e].state = "none" \/ entry[e].shift = s
      /\ entry \in [Entries -> EntryRow] /\ shift \in [Shifts -> ShiftRow]
  BY <1>1 DEF DrawerInv, HooksKnow, DrawerTyped
<1>3. s \in Shifts \cup {NoShift}
  BY <1>2 DEF EntryRow
<1> HIDE DEF new
<1>4. /\ entry' \in [Entries -> EntryRow] /\ entry'[e] = new
      /\ \A d \in Entries \ {e} : entry'[d] = entry[d]
  BY <1>1, <1>2
<1> HIDE DEF s
<1>5. new.shift = s
  BY DEF s
<1>6. /\ shift' \in [Shifts -> ShiftRow]
      /\ \A t \in Shifts : shift'[t].status = shift[t].status
      /\ \A t \in Shifts \ {s} : shift'[t] = shift[t]
      /\ s \in Shifts => shift'[s].stamp = shift[s].stamp + 1 /\ shift[s].stamp \in Nat
  <2>1. CASE s = NoShift
    BY <1>1, <1>2, <2>1, CounterAssumption
  <2>2. CASE s \in Shifts
    <3> DEFINE row == [shift[s] EXCEPT !.expected = hook[e].expected, !.stamp = @ + 1]
    <3>1. shift' = [shift EXCEPT ![s] = row]
      BY <1>1, <1>2, <2>2, CounterAssumption DEF Drawer
    <3>2. shift[s] \in ShiftRow
      BY <1>2, <2>2
    <3>3. row.stamp = shift[s].stamp + 1 /\ row.status = shift[s].status
      BY <3>2 DEF ShiftRow
    <3>4. row \in ShiftRow /\ shift[s].stamp \in Nat
      BY <1>2, <3>2, RowsTyped
    <3> HIDE DEF row
    <3> QED
      BY <1>2, <2>2, <3>1, <3>3, <3>4
  <2> QED
    BY <1>3, <2>1, <2>2
<1>7. DrawerTyped'
  BY <1>1, <1>4, <1>6 DEF DrawerInv, DrawerTyped
<1>8. HooksKnow'
  <2>1. ASSUME NEW d \in Entries, hook'[d].on
        PROVE  /\ hook'[d].new \in EntryRow /\ hook'[d].expected \in Int
               /\ entry'[d].state = "none" \/ entry'[d].shift = hook'[d].new.shift
    <3>1. d # e
      BY <1>1, <2>1 DEF DrawerInv
    <3>2. entry'[d] = entry[d] /\ hook'[d] = hook[d]
      BY <1>1, <1>4, <3>1 DEF DrawerInv
    <3> QED
      BY <2>1, <3>2 DEF DrawerInv, HooksKnow
  <2> QED
    BY <2>1 DEF HooksKnow
<1>9. ASSUME NEW t \in Shifts PROVE Informed(t)
  <2>1. Counted(closer[t], shift[t]) /\ closer' = closer
    BY <1>1 DEF DrawerInv, ClosersCount
  <2>2. CASE t = s
    <3>1. shift'[t].stamp = shift[t].stamp + 1 /\ shift[t].stamp \in Nat
      BY <1>6, <2>2
    <3> QED
      BY <2>1, <3>1 DEF Counted, Informed, Misled
  <2>3. CASE t # s
    <3>1. shift'[t] = shift[t]
      BY <1>6, <2>3
    <3>2. \/ entry[e].state # "Submitted" \/ entry[e].shift # t
      BY <1>2, <2>3
    <3>3. entry'[e].shift # t
      BY <1>4, <1>5, <2>3
    <3>4. Expected(entry', t) = Expected(entry, t)
      BY <1>2, <1>4, <3>2, <3>3, ExpectedSame
    <3> QED
      BY <2>1, <3>1, <3>4 DEF Informed, Misled
  <2> QED
    BY <2>2, <2>3
<1> QED
  BY <1>1, <1>6, <1>7, <1>8, <1>9, InformedRight DEF DrawerInv

\* The form of a movement misleads a close of its shift at most.
LEMMA MovementKeeps ==
  ASSUME DrawerInv, NEW e \in Entries, NEW row \in EntryRow,
         ~ hook[e].on, row # entry[e], row.kind \in Movements,
         entry[e].state # "Submitted" \/ entry[e].shift = row.shift,
         entry' = [entry EXCEPT ![e] = row],
         UNCHANGED <<hook, shift, closer, correction>>
  PROVE  DrawerInv' /\ ClosesRight
<1>1. /\ entry \in [Entries -> EntryRow] /\ entry' \in [Entries -> EntryRow]
      /\ entry'[e] = row /\ \A d \in Entries \ {e} : entry'[d] = entry[d]
  BY DEF DrawerInv, DrawerTyped
<1>2. DrawerTyped' /\ ClosersCount'
  BY <1>1 DEF DrawerInv, DrawerTyped, ClosersCount
<1>3. HooksKnow'
  <2>1. ASSUME NEW d \in Entries, hook'[d].on
        PROVE  /\ hook'[d].new \in EntryRow /\ hook'[d].expected \in Int
               /\ entry'[d].state = "none" \/ entry'[d].shift = hook'[d].new.shift
    <3>1. d # e /\ hook[d].on
      BY <2>1
    <3>2. entry'[d] = entry[d]
      BY <1>1, <3>1
    <3> QED
      BY <3>1, <3>2 DEF DrawerInv, HooksKnow
  <2> QED
    BY <2>1 DEF HooksKnow
<1>4. ASSUME NEW s \in Shifts, ~ Misled(s), Misled(s)' PROVE MovedInForm(s)
  <2>1. CASE s = row.shift
    BY <1>1, <2>1 DEF MovedInForm
  <2>2. CASE s # row.shift
    <3>1. entry[e].state # "Submitted" \/ entry[e].shift # s
      BY <2>2
    <3>2. entry'[e].shift # s
      BY <1>1, <2>2
    <3>3. ASSUME NEW F \in [Entries -> EntryRow], \A d \in Entries \ {e} : F[d] = entry[d],
                 F[e].shift # s
          PROVE  Expected(F, s) = Expected(entry, s)
      BY <1>1, <3>1, <3>3, ExpectedSame
    <3>4. Expected(entry', s) = Expected(entry, s)
      BY <1>1, <3>2, <3>3
    <3> QED
      BY <1>4, <3>4 DEF Misled
  <2> QED
    BY <2>1, <2>2
<1> QED
  BY <1>2, <1>3, <1>4 DEF DrawerInv, ClosesRight

LEMMA EnterMovementKeeps ==
  ASSUME DrawerInv, NEW e \in Entries, NEW k \in Movements, NEW s \in Shifts, NEW n \in Int,
         EnterMovement(e, k, s, n)
  PROVE  DrawerInv' /\ ClosesRight
<1> DEFINE row == [entry[e] EXCEPT !.kind = k, !.amount = n, !.shift = s, !.state = "Submitted"]
<1>1. entry[e] \in EntryRow /\ entry[e].state = "none"
  BY DEF DrawerInv, DrawerTyped, EnterMovement
<1>2. row.kind = k /\ row.state = "Submitted"
  BY <1>1 DEF EntryRow
<1>3. row \in EntryRow
  BY <1>1 DEF EntryRow, Kinds, Movements
<1>4. ~ hook[e].on /\ entry' = [entry EXCEPT ![e] = row] /\ UNCHANGED <<hook, shift, closer, correction>>
  BY DEF EnterMovement
<1> HIDE DEF row
<1> QED
  BY <1>1, <1>2, <1>3, <1>4, MovementKeeps

LEMMA CancelMovementKeeps ==
  ASSUME DrawerInv, NEW e \in Entries, CancelMovement(e)
  PROVE  DrawerInv' /\ ClosesRight
<1> DEFINE row == [entry[e] EXCEPT !.state = "Cancelled"]
<1>1. entry[e] \in EntryRow /\ entry[e].state = "Submitted" /\ entry[e].kind \in Movements
  BY DEF DrawerInv, DrawerTyped, CancelMovement
<1>2. /\ row.kind = entry[e].kind /\ row.shift = entry[e].shift /\ row.state = "Cancelled"
      /\ row \in EntryRow
  BY <1>1 DEF EntryRow
<1>3. ~ hook[e].on /\ entry' = [entry EXCEPT ![e] = row] /\ UNCHANGED <<hook, shift, closer, correction>>
  BY DEF CancelMovement
<1> HIDE DEF row
<1> QED
  BY <1>1, <1>2, <1>3, MovementKeeps

-----------------------------------------------------------------------------
(* Every step.                                                             *)

LEMMA CashIsInt == Cash \subseteq Int
<1>1. Cardinality(Entries) \in Nat /\ MaxAmount \in Nat
  BY FS_CardinalityType, CounterAssumption
<1> DEFINE n == Cardinality(Entries)
<1>2. MaxAmount * n \in Int /\ - MaxAmount * n \in Int
  BY <1>1
<1> QED
  BY <1>2 DEF Cash

LEMMA AmountsAreInt == 1 .. MaxAmount \subseteq Int
BY CounterAssumption

LEMMA DrawerInit ==
  ASSUME CounterInit PROVE DrawerInv
<1>1. Unset \in EntryRow
  BY CounterAssumption DEF Unset, EntryRow, Kinds
<1>2. entry \in [Entries -> EntryRow] /\ DOMAIN hook = Entries /\ DOMAIN closer = Shifts
  BY <1>1 DEF CounterInit
<1>3. shift \in [Shifts -> ShiftRow]
  <2> DEFINE row == [status |-> "none", expected |-> 0, counted |-> 0, posClosed |-> FALSE, stamp |-> 0]
  <2>1. row \in ShiftRow
    BY DEF ShiftRow, ShiftStatus
  <2>2. shift = [s \in Shifts |-> row]
    BY Zenon DEF CounterInit
  <2> HIDE DEF row
  <2> QED
    BY <2>1, <2>2
<1>4. correction \in [Corrections -> CorrectionRow]
  <2> DEFINE first == CHOOSE e \in Entries : TRUE
             row == [payment |-> first, amount |-> 0, action |-> "Manual Review", status |-> "none"]
  <2>1. first \in Entries
    BY CounterAssumption
  <2>2. correction = [c \in Corrections |-> row]
    BY Zenon DEF CounterInit
  <2> HIDE DEF first
  <2>3. row \in CorrectionRow
    BY <2>1 DEF CorrectionRow
  <2> HIDE DEF row
  <2> QED
    BY <2>2, <2>3
<1>5. HooksKnow /\ ClosersCount
  BY DEF CounterInit, HooksKnow, ClosersCount, Counted
<1> QED
  BY <1>2, <1>3, <1>4, <1>5 DEF DrawerInv, DrawerTyped

LEMMA ShiftStepKeeps ==
  ASSUME DrawerInv, ShiftNext PROVE DrawerInv' /\ ClosesRight
<1>1. PICK s \in Shifts :
        \/ OpenCashierShift(s) \/ PosSessionCloses(s) \/ ShowSummary(s) \/ LoadClose(s) \/ CloseFails(s)
        \/ \E counted \in Cash, reason, manager \in BOOLEAN : CommitClose(s, counted, reason, manager)
        \/ \E status \in ShiftStatuses, counted \in Cash : SaveShiftForm(s, status, counted)
  BY Zenon DEF ShiftNext
<1>2. CASE OpenCashierShift(s)
  BY <1>2, OpenCashierShiftKeeps
<1>3. CASE PosSessionCloses(s)
  BY <1>3, PosSessionClosesKeeps
<1>4. CASE ShowSummary(s)
  BY <1>4, ShowSummaryKeeps
<1>5. CASE LoadClose(s)
  BY <1>5, LoadCloseKeeps
<1>6. CASE CloseFails(s)
  BY <1>6, CloseFailsKeeps
<1>7. ASSUME NEW counted \in Cash, NEW reason \in BOOLEAN, NEW manager \in BOOLEAN,
             CommitClose(s, counted, reason, manager)
      PROVE  DrawerInv' /\ ClosesRight
  <2>1. counted \in Int
    BY CashIsInt
  <2> QED
    BY <1>7, <2>1, CommitCloseKeeps
<1>8. ASSUME NEW status \in ShiftStatuses, NEW counted \in Cash, SaveShiftForm(s, status, counted)
      PROVE  DrawerInv' /\ ClosesRight
  <2>1. counted \in Int
    BY CashIsInt
  <2> QED
    BY <1>8, <2>1, SaveShiftFormKeeps
<1> QED
  BY <1>1, <1>2, <1>3, <1>4, <1>5, <1>6, <1>7, <1>8, Zenon

LEMMA PaymentKeeps ==
  ASSUME DrawerInv, NEW e \in Entries, NEW r \in Stays, NEW s \in Shifts \cup {NoShift},
         NEW n \in 1 .. MaxAmount, CreateDeposit(e, r, s, n) \/ CreateRefund(e, r, s, n) \/ DraftSale(e, s, n)
  PROVE  DrawerInv' /\ ClosesRight
<1>1. n \in Int /\ correction' = correction /\ correction \in [Corrections -> CorrectionRow]
  BY DEF DrawerInv, DrawerTyped, CreateDeposit, CreateRefund, DraftSale
<1>2. CASE CreateDeposit(e, r, s, n)
  BY <1>1, <1>2, PaymentDraftKeeps DEF CreateDeposit, Kinds
<1>3. CASE CreateRefund(e, r, s, n)
  BY <1>1, <1>3, PaymentDraftKeeps DEF CreateRefund, Kinds
<1>4. CASE DraftSale(e, s, n)
  <2>1. s \in Shifts
    BY <1>4 DEF DraftSale
  <2> QED
    BY <1>1, <1>4, <2>1, DraftSaleKeeps
<1> QED
  BY <1>2, <1>3, <1>4

\* A submit, a cancel and a movement load their hooks.
LEMMA HookedKeeps ==
  ASSUME DrawerInv, NEW e \in Entries,
         \/ SubmitEntry(e) \/ CancelEntry(e)
         \/ \E s \in Shifts, n \in 1 .. MaxAmount, k \in Movements : RecordMovement(e, k, s, n)
  PROVE  DrawerInv' /\ ClosesRight
<1>1. entry[e] \in EntryRow
  BY DEF DrawerInv, DrawerTyped
<1>2. CASE SubmitEntry(e)
  <2> DEFINE new == [entry[e] EXCEPT !.state = "Submitted"]
  <2>1. new \in EntryRow /\ entry[e].shift = new.shift
    BY <1>1 DEF EntryRow
  <2>2. LoadHook(e, new) /\ UNCHANGED <<entry, shift, closer, correction>>
    BY <1>2 DEF SubmitEntry
  <2> HIDE DEF new
  <2> QED
    BY <2>1, <2>2, LoadHookKeeps
<1>3. CASE CancelEntry(e)
  <2> DEFINE new == [entry[e] EXCEPT !.state = "Cancelled"]
  <2>1. new \in EntryRow /\ entry[e].shift = new.shift
    BY <1>1 DEF EntryRow
  <2>2. LoadHook(e, new) /\ UNCHANGED <<entry, shift, closer, correction>>
    BY <1>3 DEF CancelEntry
  <2> HIDE DEF new
  <2> QED
    BY <2>1, <2>2, LoadHookKeeps
<1>4. ASSUME NEW s \in Shifts, NEW n \in 1 .. MaxAmount, NEW k \in Movements,
             RecordMovement(e, k, s, n)
      PROVE  DrawerInv' /\ ClosesRight
  <2> DEFINE new == [entry[e] EXCEPT !.kind = k, !.amount = n, !.shift = s, !.state = "Submitted"]
  <2>1. new \in EntryRow
    <3>1. n \in Int /\ k \in Kinds
      BY AmountsAreInt DEF Kinds, Movements
    <3> QED
      BY <1>1, <3>1 DEF EntryRow
  <2>2. LoadHook(e, new) /\ UNCHANGED <<entry, shift, closer, correction>> /\ entry[e].state = "none"
    BY <1>4 DEF RecordMovement
  <2> HIDE DEF new
  <2> QED
    BY <2>1, <2>2, LoadHookKeeps
<1> QED
  BY <1>2, <1>3, <1>4

LEMMA EntryStepKeeps ==
  ASSUME DrawerInv, EntryNext PROVE DrawerInv' /\ ClosesRight
<1>1. PICK e \in Entries :
        \/ \E r \in Stays, s \in Shifts \cup {NoShift}, n \in 1 .. MaxAmount :
             CreateDeposit(e, r, s, n) \/ CreateRefund(e, r, s, n) \/ DraftSale(e, s, n)
        \/ \E s \in Shifts, n \in 1 .. MaxAmount, k \in Movements :
             RecordMovement(e, k, s, n) \/ EnterMovement(e, k, s, n)
        \/ SubmitEntry(e) \/ CancelEntry(e) \/ CancelMovement(e) \/ CommitHook(e)
  BY Zenon DEF EntryNext
<1>2. ASSUME NEW r \in Stays, NEW s \in Shifts \cup {NoShift}, NEW n \in 1 .. MaxAmount,
             CreateDeposit(e, r, s, n) \/ CreateRefund(e, r, s, n) \/ DraftSale(e, s, n)
      PROVE  DrawerInv' /\ ClosesRight
  BY <1>2, PaymentKeeps
<1>3. CASE CommitHook(e)
  BY <1>3, CommitHookKeeps
<1>4. ASSUME NEW s \in Shifts, NEW n \in 1 .. MaxAmount, NEW k \in Movements, EnterMovement(e, k, s, n)
      PROVE  DrawerInv' /\ ClosesRight
  BY <1>4, AmountsAreInt, EnterMovementKeeps
<1>5. CASE CancelMovement(e)
  BY <1>5, CancelMovementKeeps
<1> QED
  BY <1>1, <1>2, <1>3, <1>4, <1>5, HookedKeeps, Zenon

LEMMA CorrectionStepKeeps ==
  ASSUME DrawerInv, CorrectionNext PROVE DrawerInv' /\ ClosesRight
<1>0. correction \in [Corrections -> CorrectionRow] /\ entry \in [Entries -> EntryRow]
  BY DEF DrawerInv, DrawerTyped
<1>1. PICK c \in Corrections :
        \/ \E e \in Entries, n \in 1 .. MaxAmount, act \in {"Delete Draft", "Create Refund", "Manual Review"} :
             RequestCorrection(c, e, act, n)
        \/ ApproveCorrection(c) \/ RejectCorrection(c) \/ \E e \in Entries : ExecuteCorrection(c, e)
  BY Zenon DEF CorrectionNext
<1>2. ASSUME NEW e \in Entries, NEW n \in 1 .. MaxAmount,
             NEW act \in {"Delete Draft", "Create Refund", "Manual Review"}, RequestCorrection(c, e, act, n)
      PROVE  DrawerInv' /\ ClosesRight
  <2>1. [payment |-> e, action |-> act, amount |-> n, status |-> "Pending Approval"] \in CorrectionRow
    BY AmountsAreInt DEF CorrectionRow
  <2>2. correction' \in [Corrections -> CorrectionRow] /\ UNCHANGED <<entry, hook, shift, closer>>
    BY <1>0, <1>2, <2>1 DEF RequestCorrection
  <2> QED
    BY <2>2, ElsewhereKeeps
<1>3. \A st \in {"Approved", "Cancelled", "Executed"} :
        [correction EXCEPT ![c].status = st] \in [Corrections -> CorrectionRow]
  BY <1>0 DEF CorrectionRow
<1>4. CASE ApproveCorrection(c)
  BY <1>3, <1>4, ElsewhereKeeps DEF ApproveCorrection
<1>5. CASE RejectCorrection(c)
  BY <1>3, <1>5, ElsewhereKeeps DEF RejectCorrection
<1>6. ASSUME NEW e \in Entries, ExecuteCorrection(c, e)
      PROVE  DrawerInv' /\ ClosesRight
  <2>1. PICK s \in Shifts \cup {NoShift} :
          Draft(e, "Refund", entry[correction[c].payment].stay, s, correction[c].amount)
    BY <1>6, Zenon DEF ExecuteCorrection
  <2>2. /\ hook' = hook /\ shift' = shift /\ closer' = closer
        /\ correction' \in [Corrections -> CorrectionRow]
    BY <1>3, <1>6 DEF ExecuteCorrection
  <2>3. correction[c].payment \in Entries /\ correction[c].amount \in Int
    BY <1>0 DEF CorrectionRow
  <2>4. entry[correction[c].payment].stay \in Stays
    BY <1>0, <2>3 DEF EntryRow
  <2>5. "Refund" \in Kinds
    BY DEF Kinds
  <2> QED
    BY <2>1, <2>2, <2>3, <2>4, <2>5, PaymentDraftKeeps
<1> QED
  BY <1>1, <1>2, <1>4, <1>5, <1>6, Zenon

LEMMA OtherStepKeeps ==
  ASSUME DrawerInv, CancelNext \/ LedgerNext PROVE DrawerInv' /\ ClosesRight
<1>1. UNCHANGED <<entry, hook, shift, closer, correction>>
  <2>1. CASE CancelNext
    BY <2>1 DEF CancelNext, ProcessCancellation, NoShowJob, NoShowJobFails
  <2>2. CASE LedgerNext
    BY <2>2 DEF LedgerNext, RequestDirectBill, ApproveDirectBill, ChargeLedger, InvoiceLedger,
                SubmitLedgerInvoice, PayLedgerInvoice, RequestPayment, CancelPaymentRequest
  <2> QED
    BY <2>1, <2>2
<1>2. correction' \in [Corrections -> CorrectionRow]
  BY <1>1 DEF DrawerInv, DrawerTyped
<1> QED
  BY <1>1, <1>2, ElsewhereKeeps

LEMMA DrawerStep ==
  ASSUME DrawerInv, [CounterNext]_counterVars PROVE DrawerInv' /\ ClosesRight
<1>1. CASE CounterNext
  BY <1>1, ShiftStepKeeps, EntryStepKeeps, CorrectionStepKeeps, OtherStepKeeps DEF CounterNext
<1>2. CASE UNCHANGED counterVars
  <2>1. UNCHANGED <<entry, hook, shift, closer, correction>>
    BY <1>2 DEF counterVars
  <2>2. correction' \in [Corrections -> CorrectionRow]
    BY <2>1 DEF DrawerInv, DrawerTyped
  <2> QED
    BY <2>1, <2>2, ElsewhereKeeps
<1> QED
  BY <1>1, <1>2

\* close_cashier_shift closes a shift on every payment there is, whatever commits while
\* the cash is counted, since it saves the row it read before it summed up the entries:
\* only a movement that is entered or cancelled in its form is missed, and only the form
\* of the shift closes it without a sum.
THEOREM CloseIsComplete == CounterSpec => ClosedOnAllPayments
<1>1. CounterInit => DrawerInv
  BY DrawerInit
<1>2. DrawerInv /\ [CounterNext]_counterVars => DrawerInv'
  BY DrawerStep
<1>3. DrawerInv /\ [CounterNext]_counterVars =>
        [\A s \in Shifts :
           /\ shift[s].status # "Closed" /\ shift'[s].status = "Closed" =>
                shift'[s].expected = Expected(entry', s) \/ Misled(s) \/ ClosedInForm(s)
           /\ ~ Misled(s) /\ Misled(s)' => MovedInForm(s)]_counterVars
  BY DrawerStep DEF ClosesRight
<1> QED
  BY <1>1, <1>2, <1>3, PTL DEF CounterSpec, ClosedOnAllPayments

-----------------------------------------------------------------------------
(* The schedule.                                                           *)

\* The routings whose percentages make a whole.
Fitting == {<< 100 >>, <<60, 40>>}

Parts == [{1, 2} -> {0, 40, 60, 100}]

FolioRow == [exists : BOOLEAN, stamp : Nat, charged : [Services -> Parts],
             invoiced : SUBSET (Services \X {1, 2})]

PostingRow == [name : Nat, status : Unposted \cup {"none", "Posted", "Cancelled"}]

\* A saved booking routes the whole price.
Routed == /\ DOMAIN group = Groups
          /\ \A g \in Groups : "routes" \in DOMAIN group[g] /\ group[g].routes \in Fitting

\* What is charged of a service is nothing or the whole.
Whole(c) == IF c[1] = 0 THEN c[2] = 0 ELSE c[1] + c[2] >= 100

\* A run that is not outdated has the charges of the folio f; what it has is still there.
Reads(p, f) ==
  /\ p.stamp \in Nat /\ p.charged \in [Services -> Parts] /\ p.routes \in Fitting
  /\ p.stamp <= f.stamp /\ (p.stamp = f.stamp => p.charged = f.charged)
  /\ \A s \in Services, k \in {1, 2} : p.charged[s][k] # 0 => f.charged[s][k] # 0

ScheduleTyped ==
  /\ posting \in [Groups -> [Services -> PostingRow]] /\ gfolio \in [Groups -> FolioRow]
  /\ DOMAIN poster = Workers

ScheduleInv ==
  /\ Routed /\ ScheduleTyped
  /\ \A g \in Groups, s \in Services : Whole(gfolio[g].charged[s])
  /\ \A g \in Groups, s \in Services : posting[g][s].status = "Posted" => gfolio[g].charged[s][1] # 0
  /\ \A w \in Workers : poster[w].on =>
       poster[w].group \in Groups /\ Reads(poster[w], gfolio[poster[w].group])

LEMMA FittingRoutes ==
  ASSUME NEW b, b.routes \in Routings, InstructionsFit(b) PROVE b.routes \in Fitting
<1>1. b.routes # << 60 >>
  <2> SUFFICES ASSUME b.routes = << 60 >> PROVE FALSE
    OBVIOUS
  <2> DEFINE f == << 60 >>
  <2>2. DOMAIN f = {1} /\ f[1] = 60
    OBVIOUS
  <2>3. SumFunctionOnSet(f, DOMAIN f) = 100
    BY DEF InstructionsFit
  <2> HIDE DEF f
  <2>4. IsFiniteSet({1}) /\ {1} \ {1} = {}
    BY FS_Singleton
  <2>5. SumFunctionOnSet(f, {1}) = f[1] + SumFunctionOnSet(f, {1} \ {1})
    BY <2>2, <2>4, SumTakeOut
  <2>6. SumFunctionOnSet(f, {}) = 0
    BY SumEmpty
  <2> QED
    BY <2>2, <2>3, <2>4, <2>5, <2>6
<1> QED
  BY <1>1 DEF Routings, Fitting

LEMMA FormRoutes ==
  ASSUME Routed, FormNext PROVE Routed'
<1> DEFINE Kept(b) == "routes" \in DOMAIN b /\ b.routes \in Fitting
<1>1. \A b : Kept(b) => Kept(Assigned(b))
  BY DEF Assigned
<1>2. ASSUME NEW g \in Groups, NEW b, group' = [group EXCEPT ![g] = b], Kept(b) PROVE Routed'
  BY <1>2 DEF Routed
<1>3. PICK g \in Groups :
        \/ \E s \in {"Inquiry", "Tentative"} : CreateGroup(g, s)
        \/ \E b \in Edits(g) : EditGroup(g, b)
        \/ SubmitGroup(g) \/ CancelGroup(g)
  BY Zenon DEF FormNext
<1>4. Kept(group[g])
  BY DEF Routed
<1>5. ASSUME NEW s \in {"Inquiry", "Tentative"}, CreateGroup(g, s) PROVE Routed'
  BY <1>2, <1>4, <1>5 DEF CreateGroup
<1>6. ASSUME NEW b \in Edits(g), EditGroup(g, b) PROVE Routed'
  <2>1. "routes" \in DOMAIN b /\ (b.routes = group[g].routes \/ b.routes \in Routings)
    BY <1>4 DEF Edits
  <2>2. InstructionsFit(b) /\ group' = [group EXCEPT ![g] = Assigned(b)]
    BY <1>6 DEF EditGroup, MaySaveGroup
  <2>3. Kept(b)
    BY <1>4, <2>1, <2>2, FittingRoutes
  <2>4. Kept(Assigned(b))
    BY <1>1, <2>3
  <2> HIDE DEF Kept
  <2> QED
    BY <1>2, <2>2, <2>4
<1>7. CASE SubmitGroup(g)
  <2>1. Kept(Assigned(group[g]))
    BY <1>1, <1>4
  <2> DEFINE b == [Assigned(group[g]) EXCEPT !.doc = "Submitted",
                     !.status = IF @ \in {"Inquiry", "Tentative"} THEN "Confirmed" ELSE @]
  <2>2. Kept(b)
    BY <2>1
  <2>3. group' = [group EXCEPT ![g] = b]
    BY <1>7, Zenon DEF SubmitGroup
  <2> HIDE DEF Kept, b
  <2> QED
    BY <1>2, <2>2, <2>3
<1>8. CASE CancelGroup(g)
  BY <1>2, <1>4, <1>8 DEF CancelGroup, Routed
<1> QED
  BY <1>3, <1>5, <1>6, <1>7, <1>8

LEMMA HoldRoutes ==
  ASSUME Routed, HoldNext PROVE Routed'
<1>1. CASE ExpireHolds
  BY <1>1 DEF Routed, ExpireHolds
<1>2. CASE ReleaseBlocks
  BY <1>2 DEF Routed, ReleaseBlocks
<1>3. ASSUME NEW g \in Groups, HoldLapses(g) \/ CutoffPasses(g) PROVE Routed'
  BY <1>3 DEF Routed, HoldLapses, CutoffPasses
<1> QED
  BY <1>1, <1>2, <1>3 DEF HoldNext

LEMMA StayRoutes ==
  ASSUME Routed, StayNext PROVE Routed'
<1>1. ASSUME NEW g \in Groups, CreateReservations(g) PROVE Routed'
  BY <1>1 DEF Routed, CreateReservations
<1>2. ASSUME NEW r \in Rooms,
             BookIndividual(r) \/ \E h \in Groups \cup {Individual} : CheckInStay(h, r) \/ CancelStay(h, r)
      PROVE  Routed'
  BY <1>2 DEF Routed, BookIndividual, CheckInStay, CancelStay
<1> QED
  BY <1>1, <1>2 DEF StayNext

-----------------------------------------------------------------------------
(* What one step does to a folio and its runs.                             *)

\* Nothing is taken off a folio; what changes its charges moves its modified time.
Follows(f, h) ==
  /\ f.stamp <= h.stamp /\ (f.stamp = h.stamp => h.charged = f.charged)
  /\ \A s \in Services, k \in {1, 2} : f.charged[s][k] # 0 => h.charged[s][k] # 0

LEMMA ReadsFollow ==
  ASSUME NEW f \in FolioRow, NEW h \in FolioRow, Follows(f, h), NEW p, Reads(p, f)
  PROVE  Reads(p, h)
<1>1. p.stamp \in Nat /\ f.stamp \in Nat /\ h.stamp \in Nat
  BY DEF Reads, FolioRow
<1>2. p.stamp <= h.stamp /\ (p.stamp = h.stamp => p.stamp = f.stamp /\ f.stamp = h.stamp)
  BY <1>1 DEF Reads, Follows
<1>3. p.stamp = h.stamp => p.charged = h.charged
  BY <1>2 DEF Reads, Follows
<1>4. \A s \in Services, k \in {1, 2} : p.charged[s][k] # 0 => h.charged[s][k] # 0
  BY DEF Reads, Follows
<1> QED
  BY <1>1, <1>2, <1>3, <1>4 DEF Reads

\* The invariant is kept when folios follow, what is newly posted is charged and
\* a run ends or has just read.
LEMMA ScheduleKept ==
  ASSUME ScheduleInv, Routed', ScheduleTyped',
         \A g \in Groups : Follows(gfolio[g], gfolio'[g]),
         \A g \in Groups, s \in Services : Whole(gfolio'[g].charged[s]),
         \A g \in Groups, s \in Services : posting'[g][s].status = "Posted" =>
           posting[g][s].status = "Posted" \/ gfolio'[g].charged[s][1] # 0,
         \A w \in Workers : poster'[w].on =>
           \/ poster'[w] = poster[w]
           \/ poster'[w].group \in Groups /\ Reads(poster'[w], gfolio'[poster'[w].group])
  PROVE  ScheduleInv'
<1>1. ASSUME NEW g \in Groups, NEW s \in Services, posting'[g][s].status = "Posted"
      PROVE  gfolio'[g].charged[s][1] # 0
  <2>1. CASE posting[g][s].status = "Posted"
    <3>1. gfolio[g].charged[s][1] # 0 /\ Follows(gfolio[g], gfolio'[g])
      BY <2>1 DEF ScheduleInv
    <3> QED
      BY <3>1 DEF Follows
  <2> QED
    BY <1>1, <2>1
<1>2. ASSUME NEW w \in Workers, poster'[w].on
      PROVE  poster'[w].group \in Groups /\ Reads(poster'[w], gfolio'[poster'[w].group])
  <2>1. CASE poster'[w] = poster[w]
    <3>1. PICK g \in Groups : g = poster[w].group /\ Reads(poster[w], gfolio[g])
      BY <1>2, <2>1 DEF ScheduleInv
    <3>2. gfolio[g] \in FolioRow /\ gfolio'[g] \in FolioRow /\ Follows(gfolio[g], gfolio'[g])
      BY DEF ScheduleInv, ScheduleTyped
    <3>3. Reads(poster[w], gfolio'[g])
      BY <3>1, <3>2, ReadsFollow
    <3> QED
      BY <2>1, <3>1, <3>3
  <2> QED
    BY <1>2, <2>1
<1> QED
  BY <1>1, <1>2 DEF ScheduleInv

\* A folio is as it was, but for its existence or its invoices.
LEMMA SameCharges ==
  ASSUME NEW f \in FolioRow, NEW h \in FolioRow, h.charged = f.charged, f.stamp <= h.stamp
  PROVE  Follows(f, h)
BY DEF Follows

\* Steps that leave the schedule, its folios and its runs alone.
LEMMA ScheduleAlone ==
  ASSUME ScheduleInv, Routed', UNCHANGED <<posting, gfolio, poster>>
  PROVE  ScheduleInv'
<1>1. ASSUME NEW g \in Groups PROVE Follows(gfolio[g], gfolio'[g])
  <2>1. gfolio[g] \in FolioRow /\ gfolio'[g] = gfolio[g] /\ gfolio[g].stamp \in Nat
    BY DEF ScheduleInv, ScheduleTyped, FolioRow
  <2> QED
    BY <2>1, SameCharges
<1> QED
  BY <1>1, ScheduleKept DEF ScheduleInv, ScheduleTyped

LEMMA SubmitGroupKeeps ==
  ASSUME ScheduleInv, Routed', NEW g \in Groups, SubmitGroup(g) PROVE ScheduleInv'
<1>1. gfolio \in [Groups -> FolioRow]
  BY DEF ScheduleInv, ScheduleTyped
<1> DEFINE row == [gfolio[g] EXCEPT !.exists = TRUE]
<1>2. gfolio' = [gfolio EXCEPT ![g] = row] /\ UNCHANGED <<posting, poster>>
  BY DEF SubmitGroup
<1>3. row \in FolioRow /\ row.charged = gfolio[g].charged /\ row.stamp = gfolio[g].stamp
  <2>1. gfolio[g] \in FolioRow
    BY <1>1
  <2> QED
    BY <2>1 DEF FolioRow
<1> HIDE DEF row
<1>4. gfolio' \in [Groups -> FolioRow]
  BY <1>1, <1>2, <1>3
<1>5. ASSUME NEW h \in Groups
      PROVE  Follows(gfolio[h], gfolio'[h]) /\ gfolio'[h].charged = gfolio[h].charged
  <2>1. gfolio[h] \in FolioRow /\ gfolio'[h] \in FolioRow /\ gfolio[h].stamp \in Nat
    BY <1>1, <1>4 DEF FolioRow
  <2>2. gfolio'[h].charged = gfolio[h].charged /\ gfolio'[h].stamp = gfolio[h].stamp
    BY <1>1, <1>2, <1>3
  <2> QED
    BY <2>1, <2>2, SameCharges
<1>6. ScheduleTyped'
  BY <1>2, <1>4 DEF ScheduleInv, ScheduleTyped
<1>7. \A h \in Groups, s \in Services : Whole(gfolio'[h].charged[s])
  BY <1>5 DEF ScheduleInv
<1> QED
  BY <1>2, <1>5, <1>6, <1>7, ScheduleKept

LEMMA InvoiceGroupKeeps ==
  ASSUME ScheduleInv, NEW g \in Groups, InvoiceGroup(g) PROVE ScheduleInv'
<1>1. gfolio \in [Groups -> FolioRow]
  BY DEF ScheduleInv, ScheduleTyped
<1>2. PICK open \in SUBSET (Services \X {1, 2}) :
        gfolio' = [gfolio EXCEPT ![g].invoiced = @ \cup open, ![g].stamp = @ + 1]
  <2> DEFINE open == {part \in Services \X {1, 2} : gfolio[g].charged[part[1]][part[2]] > 0}
                     \ gfolio[g].invoiced
  <2>1. gfolio' = [gfolio EXCEPT ![g].invoiced = @ \cup open, ![g].stamp = @ + 1]
    BY Zenon DEF InvoiceGroup
  <2>2. open \in SUBSET (Services \X {1, 2})
    OBVIOUS
  <2> HIDE DEF open
  <2> QED
    BY <2>1, <2>2
<1> DEFINE all == gfolio[g].invoiced \cup open
           row == [gfolio[g] EXCEPT !.invoiced = all, !.stamp = @ + 1]
<1>3. gfolio' = [gfolio EXCEPT ![g] = row]
  BY <1>1, <1>2 DEF FolioRow
<1>4. row \in FolioRow /\ row.charged = gfolio[g].charged /\ row.stamp = gfolio[g].stamp + 1
  <2>1. gfolio[g] \in FolioRow
    BY <1>1
  <2>2. all \in SUBSET (Services \X {1, 2})
    BY <1>2, <2>1 DEF FolioRow
  <2> HIDE DEF all
  <2>3. gfolio[g].stamp + 1 \in Nat /\ row.charged = gfolio[g].charged /\ row.stamp = gfolio[g].stamp + 1
    BY <2>1 DEF FolioRow
  <2>4. row \in FolioRow
    BY <2>1, <2>2, <2>3 DEF FolioRow
  <2> QED
    BY <2>3, <2>4
<1> HIDE DEF row
<1>5. gfolio' \in [Groups -> FolioRow]
  BY <1>1, <1>3, <1>4
<1>6. ASSUME NEW h \in Groups
      PROVE  Follows(gfolio[h], gfolio'[h]) /\ gfolio'[h].charged = gfolio[h].charged
  <2>1. gfolio[h] \in FolioRow /\ gfolio'[h] \in FolioRow /\ gfolio[h].stamp \in Nat
    BY <1>1, <1>5 DEF FolioRow
  <2>2. /\ gfolio'[h].charged = gfolio[h].charged
        /\ gfolio'[h].stamp = gfolio[h].stamp \/ gfolio'[h].stamp = gfolio[h].stamp + 1
    BY <1>1, <1>3, <1>4
  <2> QED
    BY <2>1, <2>2, SameCharges
<1>7. ScheduleTyped' /\ Routed' /\ UNCHANGED <<posting, poster>>
  BY <1>5 DEF ScheduleInv, ScheduleTyped, Routed, InvoiceGroup
<1>8. \A h \in Groups, s \in Services : Whole(gfolio'[h].charged[s])
  BY <1>6 DEF ScheduleInv
<1> QED
  BY <1>6, <1>7, <1>8, ScheduleKept

\* Rows of the schedule change and none becomes Posted.
LEMMA RowsKeep ==
  ASSUME ScheduleInv, UNCHANGED <<group, gfolio, poster>>,
         posting' \in [Groups -> [Services -> PostingRow]],
         \A g \in Groups, s \in Services :
           posting'[g][s].status = "Posted" => posting[g][s].status = "Posted"
  PROVE  ScheduleInv'
<1>1. ASSUME NEW g \in Groups PROVE Follows(gfolio[g], gfolio'[g])
  <2>1. gfolio[g] \in FolioRow /\ gfolio'[g] = gfolio[g] /\ gfolio[g].stamp \in Nat
    BY DEF ScheduleInv, ScheduleTyped, FolioRow
  <2> QED
    BY <2>1, SameCharges
<1> QED
  BY <1>1, ScheduleKept DEF ScheduleInv, ScheduleTyped, Routed

LEMMA CommitScheduleKeeps ==
  ASSUME ScheduleInv, NEW g \in Groups, CommitSchedule(g) PROVE ScheduleInv'
<1>1. posting \in [Groups -> [Services -> PostingRow]]
  BY DEF ScheduleInv, ScheduleTyped
<1> DEFINE row(s) == posting[g][s]
           gone(s) == row(s).status = "none" \/ <<s, row(s).name>> \in regen[g].names
           new == {s \in regen[g].services : gone(s)}
           after(s) == CASE s \in new -> [name |-> row(s).name + 1, status |-> "Scheduled"]
                         [] s \notin new /\ gone(s) -> [row(s) EXCEPT !.status = "none"]
                         [] OTHER -> row(s)
<1>2. posting' = [posting EXCEPT ![g] = [s \in Services |-> after(s)]] /\ UNCHANGED <<group, gfolio, poster>>
  BY Zenon DEF CommitSchedule
<1>3. ASSUME NEW s \in Services
      PROVE  after(s) \in PostingRow /\ (after(s).status = "Posted" => posting[g][s].status = "Posted")
  <2>1. posting[g][s] \in PostingRow
    BY <1>1
  <2>2. \/ after(s) = [name |-> posting[g][s].name + 1, status |-> "Scheduled"]
        \/ after(s) = [posting[g][s] EXCEPT !.status = "none"]
        \/ after(s) = posting[g][s]
    OBVIOUS
  <2> HIDE DEF after
  <2> QED
    BY <2>1, <2>2 DEF PostingRow, Unposted
<1> HIDE DEF after
<1>4. posting' \in [Groups -> [Services -> PostingRow]]
  BY <1>1, <1>2, <1>3
<1>5. ASSUME NEW h \in Groups, NEW t \in Services, posting'[h][t].status = "Posted"
      PROVE  posting[h][t].status = "Posted"
  BY <1>1, <1>2, <1>3, <1>5
<1> QED
  BY <1>2, <1>4, <1>5, RowsKeep

LEMMA MarkServiceKeeps ==
  ASSUME ScheduleInv, NEW g \in Groups, NEW s \in Services, NEW st \in {"Prepared", "Served", "Cancelled"},
         MarkService(g, s, st)
  PROVE  ScheduleInv'
<1>1. posting \in [Groups -> [Services -> PostingRow]]
  BY DEF ScheduleInv, ScheduleTyped
<1> DEFINE row == [posting[g][s] EXCEPT !.status = st]
<1>2. /\ posting' = [posting EXCEPT ![g] = [posting[g] EXCEPT ![s] = row]]
      /\ UNCHANGED <<group, gfolio, poster>>
  BY DEF MarkService
<1>3. row \in PostingRow /\ row.status # "Posted"
  <2>1. posting[g][s] \in PostingRow
    BY <1>1
  <2> QED
    BY <2>1 DEF PostingRow, Unposted
<1> HIDE DEF row
<1>4. posting' \in [Groups -> [Services -> PostingRow]]
  BY <1>1, <1>2, <1>3
<1>5. ASSUME NEW h \in Groups, NEW t \in Services, posting'[h][t].status = "Posted"
      PROVE  posting[h][t].status = "Posted"
  BY <1>1, <1>2, <1>3, <1>5
<1> QED
  BY <1>2, <1>4, <1>5, RowsKeep

-----------------------------------------------------------------------------
(* The runs that post.                                                     *)

LEMMA LoadDueKeeps ==
  ASSUME ScheduleInv, NEW w \in Workers, NEW g \in Groups, NEW date, LoadDue(w, g, date)
  PROVE  ScheduleInv'
<1>1. gfolio \in [Groups -> FolioRow] /\ group[g].routes \in Fitting /\ DOMAIN poster = Workers
  BY DEF ScheduleInv, ScheduleTyped, Routed
<1>2. PICK due : poster' = [poster EXCEPT ![w] =
        [on |-> TRUE, group |-> g, stamp |-> gfolio[g].stamp, charged |-> gfolio[g].charged,
         routes |-> group[g].routes, due |-> due]]
  BY Zenon DEF LoadDue
<1> DEFINE row == [gfolio[g] EXCEPT !.exists = TRUE]
<1>3. gfolio' = [gfolio EXCEPT ![g] = row] /\ UNCHANGED <<group, posting>>
  BY DEF LoadDue
<1>4. row \in FolioRow /\ row.charged = gfolio[g].charged /\ row.stamp = gfolio[g].stamp
  <2>1. gfolio[g] \in FolioRow
    BY <1>1
  <2> QED
    BY <2>1 DEF FolioRow
<1> HIDE DEF row
<1>5. gfolio' \in [Groups -> FolioRow]
  BY <1>1, <1>3, <1>4
<1>6. ASSUME NEW h \in Groups
      PROVE  Follows(gfolio[h], gfolio'[h]) /\ gfolio'[h].charged = gfolio[h].charged
  <2>1. gfolio[h] \in FolioRow /\ gfolio'[h] \in FolioRow /\ gfolio[h].stamp \in Nat
    BY <1>1, <1>5 DEF FolioRow
  <2>2. gfolio'[h].charged = gfolio[h].charged /\ gfolio'[h].stamp = gfolio[h].stamp
    BY <1>1, <1>3, <1>4
  <2> QED
    BY <2>1, <2>2, SameCharges
<1>7. ScheduleTyped' /\ Routed'
  BY <1>2, <1>3, <1>5 DEF ScheduleInv, ScheduleTyped, Routed
<1>8. \A h \in Groups, s \in Services : Whole(gfolio'[h].charged[s])
  BY <1>6 DEF ScheduleInv
<1>9. ASSUME NEW v \in Workers, v # w PROVE poster'[v] = poster[v]
  BY <1>1, <1>2, <1>9
<1>10. poster'[w].group = g /\ Reads(poster'[w], gfolio'[g])
  <2>1. /\ poster'[w].stamp = gfolio[g].stamp /\ poster'[w].charged = gfolio[g].charged
        /\ poster'[w].routes = group[g].routes /\ poster'[w].group = g
    BY <1>1, <1>2
  <2>2. gfolio'[g].stamp = gfolio[g].stamp /\ gfolio'[g].charged = gfolio[g].charged
    BY <1>1, <1>3, <1>4
  <2>3. gfolio[g].stamp \in Nat /\ gfolio[g].charged \in [Services -> Parts]
    BY <1>1 DEF FolioRow
  <2> QED
    BY <1>1, <2>1, <2>2, <2>3 DEF Reads
<1> QED
  BY <1>3, <1>6, <1>7, <1>8, <1>9, <1>10, ScheduleKept

\* A service that is due.
Due(p, s) == \E n \in p.due : n[1] = s

LEMMA AddedParts ==
  ASSUME NEW p, p.routes \in Fitting, NEW s \in Services, NEW k \in {1, 2}
  PROVE  <<s, k>> \in Added(p) <=> Due(p, s) /\ k \in DOMAIN p.routes /\ p.charged[s][k] = 0
<1>1. <<s, k>> \in {<<n[1], j>> : n \in p.due, j \in DOMAIN p.routes} <=> Due(p, s) /\ k \in DOMAIN p.routes
  BY DEF Due
<1>2. <<s, k>> \in {part \in Services \X {1, 2} : p.charged[part[1]][part[2]] = 0} <=> p.charged[s][k] = 0
  OBVIOUS
<1> QED
  BY <1>1, <1>2 DEF Added

FittingDomain == /\ \A r \in Fitting : 1 \in DOMAIN r /\ r[1] \in {40, 60, 100} 
                 /\ \A r \in Fitting : 2 \in DOMAIN r => r[2] \in {40, 60, 100} /\ r[1] + r[2] >= 100
                 /\ \A r \in Fitting : 2 \notin DOMAIN r => r[1] = 100

LEMMA FittingWhole == FittingDomain
<1>1. DOMAIN << 100 >> = {1} /\ DOMAIN <<60, 40>> = {1, 2}
  OBVIOUS
<1> QED
  BY <1>1 DEF FittingDomain, Fitting

\* The parts of a service after a run: nothing is taken off, what is due is charged
\* in full.
LEMMA PostedParts ==
  ASSUME NEW p, p.routes \in Fitting, p.charged \in [Services -> Parts], NEW s \in Services,
         Whole(p.charged[s]),
         NEW c, c = [k \in {1, 2} |-> IF <<s, k>> \in Added(p) THEN p.routes[k] ELSE p.charged[s][k]]
  PROVE  /\ c \in Parts /\ Whole(c)
         /\ \A k \in {1, 2} : p.charged[s][k] # 0 => c[k] # 0
<1> DEFINE a == p.charged[s]
           r == p.routes
<1>1. /\ c[1] = IF Due(p, s) /\ a[1] = 0 THEN r[1] ELSE a[1]
      /\ c[2] = IF Due(p, s) /\ 2 \in DOMAIN r /\ a[2] = 0 THEN r[2] ELSE a[2]
  <2>1. 1 \in DOMAIN r
    BY FittingWhole DEF FittingDomain
  <2>2. <<s, 1>> \in Added(p) <=> Due(p, s) /\ a[1] = 0
    BY <2>1, AddedParts
  <2>3. <<s, 2>> \in Added(p) <=> Due(p, s) /\ 2 \in DOMAIN r /\ a[2] = 0
    BY AddedParts
  <2> QED
    BY <2>2, <2>3
<1>2. a \in Parts /\ a[1] \in {0, 40, 60, 100} /\ a[2] \in {0, 40, 60, 100}
  BY DEF Parts
<1>3. /\ r[1] \in {40, 60, 100} /\ (2 \in DOMAIN r => r[2] \in {40, 60, 100} /\ r[1] + r[2] >= 100)
      /\ 2 \notin DOMAIN r => r[1] = 100
  BY FittingWhole DEF FittingDomain
<1>4. Whole(a)
  OBVIOUS
<1> HIDE DEF a, r
<1>5. c[1] \in {0, 40, 60, 100} /\ c[2] \in {0, 40, 60, 100}
  BY <1>1, <1>2, <1>3
<1>6. c \in Parts
  <2>1. c = [k \in {1, 2} |-> c[k]]
    OBVIOUS
  <2> QED
    BY <1>5, <2>1 DEF Parts
<1>7. Whole(c)
  <2>1. CASE a[1] = 0 /\ Due(p, s)
    <3>1. a[2] = 0 /\ c[1] = r[1]
      BY <1>1, <1>4, <2>1 DEF Whole
    <3>2. CASE 2 \in DOMAIN r
      BY <1>1, <1>3, <2>1, <3>1, <3>2 DEF Whole
    <3>3. CASE 2 \notin DOMAIN r
      BY <1>1, <1>3, <2>1, <3>1, <3>3 DEF Whole
    <3> QED
      BY <3>2, <3>3
  <2>2. CASE a[1] = 0 /\ ~ Due(p, s)
    BY <1>1, <1>4, <2>2 DEF Whole
  <2>3. CASE a[1] # 0
    <3>1. c[1] = a[1] /\ a[1] + a[2] >= 100
      BY <1>1, <1>4, <2>3 DEF Whole
    <3>2. c[2] >= a[2] /\ c[2] \in Int
      BY <1>1, <1>2, <1>3, <1>5
    <3> QED
      BY <1>2, <2>3, <3>1, <3>2 DEF Whole
  <2> QED
    BY <2>1, <2>2, <2>3
<1>8. \A k \in {1, 2} : a[k] # 0 => c[k] # 0
  BY <1>1, <1>2
<1> QED
  BY <1>6, <1>7, <1>8 DEF a

\* A service that is due has a first part, added by the run or by an earlier one.
LEMMA DueIsCharged ==
  ASSUME NEW p, p.routes \in Fitting, NEW s \in Services, Due(p, s), <<s, 1>> \notin Added(p)
  PROVE  p.charged[s][1] # 0
<1>1. 1 \in DOMAIN p.routes
  BY FittingWhole DEF FittingDomain
<1> QED
  BY <1>1, AddedParts

LEMMA CommitPostScheduleKeeps ==
  ASSUME ScheduleInv, NEW w \in Workers, CommitPostSchedule(w) PROVE ScheduleInv'
<1>0. PICK p : p = poster[w]
  OBVIOUS
<1>1. PICK g \in Groups : p = poster[w] /\ g = p.group /\ Reads(p, gfolio[g])
  BY <1>0 DEF CommitPostSchedule, ScheduleInv
<1>2. /\ gfolio \in [Groups -> FolioRow] /\ posting \in [Groups -> [Services -> PostingRow]]
      /\ DOMAIN poster = Workers
  BY DEF ScheduleInv, ScheduleTyped
<1>3. p.routes \in Fitting /\ p.charged \in [Services -> Parts]
  BY <1>1 DEF Reads
<1>4. gfolio[g] \in FolioRow /\ gfolio[g].stamp \in Nat /\ gfolio[g].charged \in [Services -> Parts]
  BY <1>2 DEF FolioRow
<1> DEFINE parts(s) == [k \in {1, 2} |-> IF <<s, k>> \in Added(p) THEN p.routes[k] ELSE p.charged[s][k]]
           charges == [s \in Services |-> parts(s)]
           row == [gfolio[g] EXCEPT !.stamp = @ + 1, !.charged = charges]
           after(s) == IF <<s, posting[g][s].name>> \in p.due /\ posting[g][s].status # "none"
                       THEN [posting[g][s] EXCEPT !.status = "Posted"] ELSE posting[g][s]
<1>5. /\ gfolio' = IF Added(p) = {} THEN gfolio ELSE [gfolio EXCEPT ![g].stamp = @ + 1, ![g].charged = charges]
      /\ posting' = [posting EXCEPT ![g] = [s \in Services |-> after(s)]]
      /\ poster' = [poster EXCEPT ![w] = Idle]
      /\ group' = group
      /\ Added(p) # {} => gfolio[g].stamp = p.stamp
  <2>1. Post(w) /\ (Added(poster[w]) # {} => Unchanged(poster[w]))
    BY DEF CommitPostSchedule
  <2>2. /\ gfolio' = IF Added(p) = {} THEN gfolio ELSE [gfolio EXCEPT ![g].stamp = @ + 1, ![g].charged = charges]
        /\ posting' = [posting EXCEPT ![g] = [s \in Services |-> after(s)]]
        /\ poster' = [poster EXCEPT ![w] = Idle] /\ group' = group
    BY <1>1, <2>1, Zenon DEF Post
  <2>3. Added(p) # {} => gfolio[g].stamp = p.stamp
    BY <1>1, <2>1 DEF Unchanged
  <2> QED
    BY <2>2, <2>3
\* The charges.
<1>6. ASSUME NEW s \in Services, Added(p) # {}
      PROVE  /\ parts(s) \in Parts /\ Whole(parts(s))
             /\ \A k \in {1, 2} : gfolio[g].charged[s][k] # 0 => parts(s)[k] # 0
  <2>1. gfolio[g].charged = p.charged
    BY <1>1, <1>5, <1>6 DEF Reads
  <2>2. Whole(p.charged[s])
    BY <2>1 DEF ScheduleInv
  <2> HIDE DEF parts
  <2>3. parts(s) = [k \in {1, 2} |-> IF <<s, k>> \in Added(p) THEN p.routes[k] ELSE p.charged[s][k]]
    BY DEF parts
  <2>4. /\ parts(s) \in Parts /\ Whole(parts(s))
        /\ \A k \in {1, 2} : p.charged[s][k] # 0 => parts(s)[k] # 0
    BY <1>3, <2>2, <2>3, PostedParts
  <2> QED
    BY <2>1, <2>4
<1> HIDE DEF parts
<1>7. ASSUME Added(p) # {}
      PROVE  /\ gfolio' = [gfolio EXCEPT ![g] = row] /\ row \in FolioRow
             /\ row.stamp = gfolio[g].stamp + 1 /\ \A s \in Services : row.charged[s] = parts(s)
  <2>1. charges \in [Services -> Parts] /\ \A s \in Services : charges[s] = parts(s)
    BY <1>6, <1>7
  <2> HIDE DEF charges
  <2>2. row.stamp = gfolio[g].stamp + 1 /\ row.charged = charges /\ gfolio[g].stamp + 1 \in Nat
    BY <1>4 DEF FolioRow
  <2>3. row \in FolioRow
    BY <1>4, <2>1, <2>2 DEF FolioRow
  <2>4. gfolio' = [gfolio EXCEPT ![g] = row]
    BY <1>2, <1>5, <1>7
  <2> QED
    BY <2>1, <2>2, <2>3, <2>4
<1> HIDE DEF row
<1>8. gfolio' \in [Groups -> FolioRow] /\ \A h \in Groups \ {g} : gfolio'[h] = gfolio[h]
  <2>1. CASE Added(p) = {}
    BY <1>2, <1>5, <2>1
  <2>2. CASE Added(p) # {}
    BY <1>2, <1>7, <2>2
  <2> QED
    BY <2>1, <2>2
<1>9. ASSUME NEW h \in Groups
      PROVE  Follows(gfolio[h], gfolio'[h]) /\ \A s \in Services : Whole(gfolio'[h].charged[s])
  <2>1. gfolio[h] \in FolioRow /\ gfolio[h].stamp \in Nat /\ \A s \in Services : Whole(gfolio[h].charged[s])
    BY <1>2 DEF FolioRow, ScheduleInv
  <2>2. CASE gfolio'[h] = gfolio[h]
    BY <2>1, <2>2, SameCharges
  <2>3. CASE h = g /\ Added(p) # {}
    <3>1. gfolio'[g] = row /\ row.stamp = gfolio[g].stamp + 1
      BY <1>2, <1>7, <2>3
    <3>2. \A s \in Services : Whole(row.charged[s])
      BY <1>6, <1>7, <2>3
    <3>3. \A s \in Services, k \in {1, 2} : gfolio[g].charged[s][k] # 0 => row.charged[s][k] # 0
      BY <1>6, <1>7, <2>3
    <3>4. Follows(gfolio[g], row)
      BY <1>4, <3>1, <3>3 DEF Follows
    <3> QED
      BY <2>3, <3>1, <3>2, <3>4
  <2> QED
    BY <1>5, <1>8, <2>2, <2>3
\* The rows.
<1>10. ASSUME NEW s \in Services
       PROVE  /\ after(s) \in PostingRow
              /\ after(s).status = "Posted" =>
                   posting[g][s].status = "Posted" \/ gfolio'[g].charged[s][1] # 0
  <2>1. posting[g][s] \in PostingRow
    BY <1>2
  <2>2. [posting[g][s] EXCEPT !.status = "Posted"] \in PostingRow
    BY <2>1 DEF PostingRow
  <2>3. CASE <<s, posting[g][s].name>> \in p.due /\ posting[g][s].status # "none"
    <3>1. Due(p, s)
      BY <2>3 DEF Due
    <3>2. CASE <<s, 1>> \in Added(p)
      <4>1. Added(p) # {}
        BY <3>2
      <4>2. parts(s)[1] = p.routes[1] /\ p.routes[1] # 0
        BY <1>3, <3>2, FittingWhole DEF parts, FittingDomain
      <4>3. gfolio'[g].charged[s] = parts(s)
        BY <1>2, <1>7, <4>1
      <4> QED
        BY <2>2, <2>3, <4>2, <4>3
    <3>3. CASE <<s, 1>> \notin Added(p)
      <4>1. p.charged[s][1] # 0
        BY <1>3, <3>1, <3>3, DueIsCharged
      <4>2. gfolio[g].charged[s][1] # 0
        BY <1>1, <4>1 DEF Reads
      <4>3. gfolio'[g].charged[s][1] # 0
        BY <1>9, <4>2 DEF Follows
      <4> QED
        BY <2>2, <2>3, <4>3
    <3> QED
      BY <3>2, <3>3
  <2>4. CASE ~ (<<s, posting[g][s].name>> \in p.due /\ posting[g][s].status # "none")
    BY <2>1, <2>4
  <2> QED
    BY <2>3, <2>4
<1> HIDE DEF after
<1>11. posting' \in [Groups -> [Services -> PostingRow]]
  BY <1>2, <1>5, <1>10
<1>12. ASSUME NEW h \in Groups, NEW s \in Services, posting'[h][s].status = "Posted"
       PROVE  posting[h][s].status = "Posted" \/ gfolio'[h].charged[s][1] # 0
  BY <1>2, <1>5, <1>10, <1>12
<1>13. ScheduleTyped' /\ Routed'
  BY <1>2, <1>5, <1>8, <1>11 DEF ScheduleInv, ScheduleTyped, Routed
<1>14. ASSUME NEW v \in Workers, poster'[v].on PROVE poster'[v] = poster[v]
  BY <1>2, <1>5, <1>14 DEF Idle
<1> QED
  BY <1>9, <1>12, <1>13, <1>14, ScheduleKept

LEMMA PostScheduleFailsKeeps ==
  ASSUME ScheduleInv, NEW w \in Workers, PostScheduleFails(w) PROVE ScheduleInv'
<1>1. UNCHANGED <<group, posting, gfolio>> /\ poster' = [poster EXCEPT ![w] = Idle] /\ DOMAIN poster = Workers
  BY DEF PostScheduleFails, ScheduleInv, ScheduleTyped
<1>2. ASSUME NEW g \in Groups PROVE Follows(gfolio[g], gfolio'[g])
  <2>1. gfolio[g] \in FolioRow /\ gfolio'[g] = gfolio[g] /\ gfolio[g].stamp \in Nat
    BY <1>1 DEF ScheduleInv, ScheduleTyped, FolioRow
  <2> QED
    BY <2>1, SameCharges
<1>3. ScheduleTyped' /\ Routed'
  BY <1>1 DEF ScheduleInv, ScheduleTyped, Routed
<1>4. ASSUME NEW v \in Workers, poster'[v].on PROVE poster'[v] = poster[v]
  BY <1>1, <1>4 DEF Idle
<1>5. \A g \in Groups, s \in Services : Whole(gfolio'[g].charged[s])
  BY <1>1 DEF ScheduleInv
<1> QED
  BY <1>1, <1>2, <1>3, <1>4, <1>5, ScheduleKept

-----------------------------------------------------------------------------
(* Every step.                                                             *)

LEMMA ScheduleInit ==
  ASSUME GroupInit PROVE ScheduleInv
<1>1. Routed
  BY DEF GroupInit, Routed, Fitting
<1>2. posting \in [Groups -> [Services -> PostingRow]]
  <2> DEFINE row == [name |-> 0, status |-> "none"]
  <2>1. row \in PostingRow
    BY DEF PostingRow
  <2>2. posting = [g \in Groups |-> [s \in Services |-> row]]
    BY Zenon DEF GroupInit
  <2> HIDE DEF row
  <2> QED
    BY <2>1, <2>2
<1>3. gfolio \in [Groups -> FolioRow] /\ \A g \in Groups, s \in Services : gfolio[g].charged[s] = [k \in {1, 2} |-> 0]
  <2> DEFINE charges == [s \in Services |-> [k \in {1, 2} |-> 0]]
             row == [exists |-> FALSE, stamp |-> 0, charged |-> charges, invoiced |-> {}]
  <2>1. charges \in [Services -> Parts] /\ \A s \in Services : charges[s] = [k \in {1, 2} |-> 0]
    BY DEF Parts
  <2>2. gfolio = [g \in Groups |-> row]
    BY Zenon DEF GroupInit
  <2> HIDE DEF charges
  <2>3. row \in FolioRow /\ row.charged = charges
    BY <2>1 DEF FolioRow
  <2> HIDE DEF row
  <2> QED
    BY <2>1, <2>2, <2>3
<1>4. \A g \in Groups, s \in Services : Whole(gfolio[g].charged[s])
  BY <1>3 DEF Whole
<1>5. \A g \in Groups, s \in Services : posting[g][s].status # "Posted"
  BY DEF GroupInit
<1>6. DOMAIN poster = Workers /\ \A w \in Workers : ~ poster[w].on
  BY DEF GroupInit, Idle
<1> QED
  BY <1>1, <1>2, <1>3, <1>4, <1>5, <1>6 DEF ScheduleInv, ScheduleTyped

LEMMA FormStepKeeps ==
  ASSUME ScheduleInv, FormNext PROVE ScheduleInv'
<1>1. Routed'
  BY FormRoutes DEF ScheduleInv
<1>2. ASSUME NEW g \in Groups, SubmitGroup(g) PROVE ScheduleInv'
  BY <1>1, <1>2, SubmitGroupKeeps
<1>3. CASE UNCHANGED <<posting, gfolio, poster>>
  BY <1>1, <1>3, ScheduleAlone
<1> QED
  BY <1>2, <1>3 DEF FormNext, CreateGroup, EditGroup, CancelGroup

LEMMA HoldStepKeeps ==
  ASSUME ScheduleInv, HoldNext PROVE ScheduleInv'
<1>1. Routed'
  BY HoldRoutes DEF ScheduleInv
<1>2. UNCHANGED <<posting, gfolio, poster>>
  BY DEF HoldNext, ExpireHolds, ReleaseBlocks, HoldLapses, CutoffPasses
<1> QED
  BY <1>1, <1>2, ScheduleAlone

LEMMA StayStepKeeps ==
  ASSUME ScheduleInv, StayNext PROVE ScheduleInv'
<1>1. Routed'
  BY StayRoutes DEF ScheduleInv
<1>2. UNCHANGED <<posting, gfolio, poster>>
  BY DEF StayNext, CreateReservations, BookIndividual, CheckInStay, CancelStay
<1> QED
  BY <1>1, <1>2, ScheduleAlone

LEMMA PaperStepKeeps ==
  ASSUME ScheduleInv, PaperNext PROVE ScheduleInv'
<1>1. UNCHANGED <<group, posting, gfolio, poster>>
  BY DEF PaperNext, CreateQuotation, CreateSalesOrder, CreateBeo, IssueBeo, CancelBeo
<1>2. Routed'
  BY <1>1 DEF ScheduleInv, Routed
<1> QED
  BY <1>1, <1>2, ScheduleAlone

LEMMA ScheduleStepKeeps ==
  ASSUME ScheduleInv, ScheduleNext PROVE ScheduleInv'
<1>1. ASSUME NEW g \in Groups, LoadSchedule(g) \/ ScheduleFails(g) PROVE ScheduleInv'
  <2>1. UNCHANGED <<group, posting, gfolio, poster>>
    BY <1>1 DEF LoadSchedule, ScheduleFails
  <2>2. Routed'
    BY <2>1 DEF ScheduleInv, Routed
  <2> QED
    BY <2>1, <2>2, ScheduleAlone
<1>2. ASSUME NEW g \in Groups, CommitSchedule(g) PROVE ScheduleInv'
  BY <1>2, CommitScheduleKeeps
<1>3. ASSUME NEW g \in Groups, InvoiceGroup(g) PROVE ScheduleInv'
  BY <1>3, InvoiceGroupKeeps
<1>4. ASSUME NEW g \in Groups, NEW s \in Services, NEW st \in {"Prepared", "Served", "Cancelled"},
             MarkService(g, s, st)
      PROVE  ScheduleInv'
  BY <1>4, MarkServiceKeeps
<1>5. ASSUME NEW w \in Workers, NEW g \in Groups, NEW date \in 0 .. LastDate, LoadDue(w, g, date)
      PROVE  ScheduleInv'
  BY <1>5, LoadDueKeeps
<1>6. ASSUME NEW w \in Workers, CommitPostSchedule(w) PROVE ScheduleInv'
  BY <1>6, CommitPostScheduleKeeps
<1>7. ASSUME NEW w \in Workers, PostScheduleFails(w) PROVE ScheduleInv'
  BY <1>7, PostScheduleFailsKeeps
<1> QED
  BY <1>1, <1>2, <1>3, <1>4, <1>5, <1>6, <1>7, Zenon DEF ScheduleNext

LEMMA ScheduleStep ==
  ASSUME ScheduleInv, [GroupNext]_groupVars PROVE ScheduleInv'
<1>1. CASE GroupNext
  BY <1>1, FormStepKeeps, HoldStepKeeps, StayStepKeeps, PaperStepKeeps, ScheduleStepKeeps DEF GroupNext
<1>2. CASE UNCHANGED groupVars
  <2>1. UNCHANGED <<group, posting, gfolio, poster>>
    BY <1>2 DEF groupVars
  <2>2. Routed'
    BY <2>1 DEF ScheduleInv, Routed
  <2> QED
    BY <2>1, <2>2, ScheduleAlone
<1> QED
  BY <1>1, <1>2

LEMMA ChargedInFull == ScheduleInv => NothingUnbilled
<1>1. ASSUME ScheduleInv, NEW g \in Groups, NEW s \in Services, posting[g][s].status = "Posted"
      PROVE  gfolio[g].charged[s][1] + gfolio[g].charged[s][2] >= 100
  BY <1>1 DEF ScheduleInv, Whole
<1> QED
  BY <1>1 DEF NothingUnbilled

\* A service that is marked Posted is on the folio with all its parts, however many
\* runs post, regenerate and invoice the schedule at once: _post_package_schedule
\* saves the folio it read, and marks what that folio has.
THEOREM PostedInFull == GroupSpec => []NothingUnbilled
<1>1. GroupInit => ScheduleInv
  BY ScheduleInit
<1>2. ScheduleInv /\ [GroupNext]_groupVars => ScheduleInv'
  BY ScheduleStep
<1> QED
  BY <1>1, <1>2, ChargedInFull, PTL DEF GroupSpec

-----------------------------------------------------------------------------
(***************************************************************************)
(* The pre-arrival form.  What lets one submission through and no second   *)
(* is spread over three rows: the link is spent with the answers (Spent),  *)
(* a form that was not issued has none (Unissued), and a submission that   *)
(* still waits for its commit has read either an older form, or one        *)
(* without answers (Pending).  AnswersStand is a property of the steps     *)
(* that keep these.                                                        *)
(***************************************************************************)

LinkRow == [status : LinkStates, booking : Bookings, late : BOOLEAN, uses : {0, 1}]
FormRow == [status : FormStates \cup {"none"}, answer : Answers \cup {NoAnswer}, stamp : 0 .. MaxFormStamp]
Request == [on : {FALSE}] \cup
           [on : {TRUE}, form : Forms, act : {"submit", "revoke"}, stamp : 0 .. MaxFormStamp]

\* Links, forms and requests have their types.
FormsTyped ==
  /\ link \in [Links \cup Forms -> LinkRow]
  /\ form \in [Forms -> FormRow]
  /\ writer \in [Writers -> Request]

\* The link of a form with answers is used.
Spent == \A f \in Forms : form[f].answer # NoAnswer => link[f].uses = 1

\* A form that is not issued has no answers.
Unissued == \A f \in Forms : form[f].status = "none" => form[f].answer = NoAnswer

\* A request that is not outdated has, if it submits, a form without answers.
Pending == \A w \in Writers : writer[w].on =>
  /\ writer[w].stamp <= form[writer[w].form].stamp
  /\ writer[w].act = "submit" /\ writer[w].stamp = form[writer[w].form].stamp =>
       form[writer[w].form].answer = NoAnswer

FormInv == FormsTyped /\ Spent /\ Unissued /\ Pending

\* What a step may do to the answers.
Stand == \A f \in Forms : form[f].answer # NoAnswer => form'[f].answer = form[f].answer

\* A step of the links alone: no form's link is used or given back.
LinksMove ==
  /\ link' \in [Links \cup Forms -> LinkRow]
  /\ \A f \in Forms : link'[f].uses = link[f].uses
  /\ UNCHANGED formVars

-----------------------------------------------------------------------------
LEMMA InitForms == GuestInit => FormInv
<1> SUFFICES ASSUME GuestInit PROVE FormInv
  OBVIOUS
<1>1. (CHOOSE b \in Bookings : TRUE) \in Bookings
  BY GuestAssumption
<1>2. /\ link = [l \in Links \cup Forms |->
            [status |-> "none", booking |-> CHOOSE b \in Bookings : TRUE, late |-> FALSE, uses |-> 0]]
      /\ form = [f \in Forms |-> [status |-> "none", answer |-> NoAnswer, stamp |-> 0]]
      /\ writer = [w \in Writers |-> [on |-> FALSE]]
  BY DEF GuestInit
<1>3. FormsTyped
  BY <1>1, <1>2, GuestAssumption DEF FormsTyped, LinkRow, FormRow, Request, LinkStates
<1> QED
  BY <1>2, <1>3 DEF FormInv, Spent, Unissued, Pending

\* A step that moves only links keeps the invariant and the answers.
LEMMA LinksKeep == FormInv /\ LinksMove => FormInv' /\ Stand
<1> SUFFICES ASSUME FormInv, LinksMove PROVE FormInv' /\ Stand
  OBVIOUS
<1>1. form' = form /\ writer' = writer
  BY DEF LinksMove, formVars
<1>2. FormsTyped'
  BY <1>1 DEF FormInv, FormsTyped, LinksMove
<1>3. Spent'
  BY <1>1 DEF FormInv, Spent, LinksMove
<1>4. Unissued' /\ Pending' /\ Stand
  BY <1>1 DEF FormInv, Unissued, Pending, Stand
<1> QED
  BY <1>2, <1>3, <1>4 DEF FormInv

\* A step that leaves links, forms and requests alone moves no links.
LEMMA Elsewhere == FormInv /\ UNCHANGED <<link, formVars>> => LinksMove
  BY DEF FormInv, FormsTyped, LinksMove, formVars

\* A new link is one of the portal.
LEMMA NewLinkMoves ==
  ASSUME FormInv, NEW l \in Links, NEW b \in Bookings, link' = NewLink(l, b), UNCHANGED formVars
  PROVE  LinksMove
<1>1. l \notin Forms
  BY GuestAssumption
<1>2. [status |-> "Active", booking |-> b, late |-> FALSE, uses |-> 0] \in LinkRow
  BY DEF LinkRow, LinkStates
<1>3. link' \in [Links \cup Forms -> LinkRow]
  BY <1>2 DEF NewLink, FormInv, FormsTyped
<1>4. \A f \in Forms : link'[f] = link[f]
  BY <1>1 DEF NewLink, FormInv, FormsTyped
<1> QED
  BY <1>3, <1>4 DEF LinksMove

-----------------------------------------------------------------------------
LEMMA BookingKeeps == FormInv /\ BookingNext => LinksMove
<1> SUFFICES ASSUME FormInv, NEW b \in Bookings,
               \/ \E p \in People, l \in Links : CreatePublicBooking(b, p, l) \/ RetryPublicBooking(b, p, l)
               \/ \E c \in People, manager \in BOOLEAN : BookAtDesk(b, c, manager)
               \/ ArriveAtDesk(b) \/ LeaveHotel(b)
               \/ \E l \in Links : CancelByGuest(l, b) \/ IssuePortalLink(l, b)
             PROVE  LinksMove
  BY DEF BookingNext
<1>1. ASSUME NEW p \in People, NEW l \in Links, CreatePublicBooking(b, p, l) \/ RetryPublicBooking(b, p, l)
      PROVE  LinksMove
  <2>1. link' = NewLink(l, b) /\ UNCHANGED formVars
    BY <1>1 DEF CreatePublicBooking, RetryPublicBooking
  <2> QED
    BY <2>1, NewLinkMoves
<1>2. ASSUME NEW l \in Links, IssuePortalLink(l, b)
      PROVE  LinksMove
  <2>1. link' = NewLink(l, b) /\ UNCHANGED formVars
    BY <1>2 DEF IssuePortalLink
  <2> QED
    BY <2>1, NewLinkMoves
<1>3. ASSUME NEW c \in People, NEW manager \in BOOLEAN, BookAtDesk(b, c, manager)
      PROVE  LinksMove
  BY <1>3, Elsewhere DEF BookAtDesk
<1>4. ASSUME ArriveAtDesk(b) \/ LeaveHotel(b) PROVE LinksMove
  BY <1>4, Elsewhere DEF ArriveAtDesk, LeaveHotel
<1>5. ASSUME NEW l \in Links, CancelByGuest(l, b) PROVE LinksMove
  BY <1>5, Elsewhere DEF CancelByGuest
<1> QED
  BY <1>1, <1>2, <1>3, <1>4, <1>5

LEMMA LinkKeeps == FormInv /\ LinkNext => LinksMove
<1> SUFFICES ASSUME FormInv, LinkNext PROVE LinksMove
  OBVIOUS
<1>1. \A l \in Links \cup Forms : link[l] \in LinkRow
  BY DEF FormInv, FormsTyped
<1>2. ASSUME NEW l \in Links \cup Forms, LinkAges(l) PROVE LinksMove
  <2>1. link' = [link EXCEPT ![l].late = TRUE] /\ UNCHANGED formVars
    BY <1>2 DEF LinkAges
  <2>2. [link[l] EXCEPT !.late = TRUE] \in LinkRow /\ [link[l] EXCEPT !.late = TRUE].uses = link[l].uses
    BY <1>1 DEF LinkRow
  <2> QED
    BY <2>1, <2>2 DEF LinksMove, FormInv, FormsTyped
<1>3. ASSUME NEW l \in Links \cup Forms, NEW st \in {"Active", "Revoked", "Expired"}, EditLink(l, st)
      PROVE  LinksMove
  <2> DEFINE s == IF st = "Active" /\ link[l].late THEN "Expired" ELSE st
  <2>1. link' = [link EXCEPT ![l].status = s] /\ UNCHANGED formVars
    BY <1>3 DEF EditLink
  <2>2. s \in LinkStates
    BY DEF LinkStates
  <2>3. [link[l] EXCEPT !.status = s] \in LinkRow /\ [link[l] EXCEPT !.status = s].uses = link[l].uses
    <3> HIDE DEF s
    <3> QED
      BY <1>1, <2>2 DEF LinkRow
  <2> HIDE DEF s
  <2> QED
    BY <2>1, <2>3 DEF LinksMove, FormInv, FormsTyped
<1>4. ASSUME ExpireLinks PROVE LinksMove
  <2> DEFINE L(l) == IF link[l].status = "Active" /\ link[l].late
                     THEN [link[l] EXCEPT !.status = "Expired"] ELSE link[l]
  <2>1. link' = [l \in Links \cup Forms |-> L(l)] /\ UNCHANGED formVars
    BY <1>4 DEF ExpireLinks, FormInv, FormsTyped
  <2>2. \A l \in Links \cup Forms : L(l) \in LinkRow /\ L(l).uses = link[l].uses
    BY <1>1 DEF LinkRow, LinkStates
  <2> HIDE DEF L
  <2> QED
    BY <2>1, <2>2 DEF LinksMove
<1> QED
  BY <1>2, <1>3, <1>4 DEF LinkNext

LEMMA PortalKeeps == FormInv /\ PortalNext => LinksMove
<1> SUFFICES ASSUME PortalNext PROVE UNCHANGED <<link, formVars>>
  BY Elsewhere
<1>1. CASE PurgeDaily
  BY <1>1 DEF PurgeDaily
<1>2. ASSUME NEW b \in Bookings, NEW l \in Links,
             \/ SubmitSelfCheckin(l, b) \/ RequestOnlinePayment(l, b)
             \/ \E staff \in BOOLEAN : UploadDocument(l, b, staff)
      PROVE  UNCHANGED <<link, formVars>>
  BY <1>2 DEF SubmitSelfCheckin, RequestOnlinePayment, UploadDocument
<1>3. ASSUME NEW b \in Bookings,
             EnsureRegistration(b) \/ PurgeByStaff(b) \/ \E st : EditRegistration(b, st)
      PROVE  UNCHANGED <<link, formVars>>
  BY <1>3 DEF EnsureRegistration, PurgeByStaff, EditRegistration
<1>4. ASSUME NEW b \in Bookings, NEW d, MoneyMoves(b, d)
      PROVE  UNCHANGED <<link, formVars>>
  BY <1>4 DEF MoneyMoves
<1> QED
  BY <1>1, <1>2, <1>3, <1>4 DEF PortalNext

LEMMA FileKeeps == FormInv /\ FileNext => LinksMove
<1> SUFFICES ASSUME FileNext PROVE UNCHANGED <<link, formVars>>
  BY Elsewhere
<1>1. ASSUME NEW k, NEW r, SaveBan(k, r) PROVE UNCHANGED <<link, formVars>>
  BY <1>1 DEF SaveBan
<1>2. ASSUME NEW k \in Bans,
             \/ \E c \in People, level \in {"Warning", "Block Online", "Block All"} : CreateBan(k, c, level)
             \/ BanEnds(k) \/ ExpireBan(k) \/ \E st : EditBan(k, st)
      PROVE  UNCHANGED <<link, formVars>>
  BY <1>1, <1>2 DEF CreateBan, BanEnds, ExpireBan, EditBan
<1>3. ASSUME NEW c \in People,
             EditHold(c) \/ OpenGuestProfile(c) \/ \E d \in People : MergeGuests(d, c)
      PROVE  UNCHANGED <<link, formVars>>
  BY <1>3 DEF EditHold, OpenGuestProfile, MergeGuests
<1>4. ASSUME NEW q \in PrivacyRequests, NEW l, NEW b, NEW type, SubmitPrivacyRequest(l, b, q, type)
      PROVE  UNCHANGED <<link, formVars>>
  BY <1>4 DEF SubmitPrivacyRequest
<1>5. ASSUME NEW q \in PrivacyRequests,
             CoolingEnds(q) \/ ProcessPrivacyRequest(q) \/ \E st : EditPrivacyRequest(q, st)
      PROVE  UNCHANGED <<link, formVars>>
  BY <1>5 DEF CoolingEnds, ProcessPrivacyRequest, EditPrivacyRequest
<1> QED
  BY <1>2, <1>3, <1>4, <1>5 DEF FileNext

LEMMA ServicesKeep == FormInv /\ GuestServiceNext => LinksMove
<1> SUFFICES ASSUME GuestServiceNext PROVE UNCHANGED <<link, formVars>>
  BY Elsewhere
<1> QED
  BY DEF GuestServiceNext, RequestLaundry, CountLaundry, PostLaundry, UpdateLaundry, BookExperience,
         ConfirmExperience, PostExperience, SessionTakesPlace

-----------------------------------------------------------------------------
\* A save of form f with answer a: the form is newer, and typed.
LEMMA SavedForm ==
  ASSUME FormInv, NEW f \in Forms, NEW st \in FormStates, NEW a \in Answers \cup {NoAnswer}, SaveForm(f, st, a)
  PROVE  /\ form' \in [Forms -> FormRow]
         /\ form'[f].answer = a /\ form'[f].status = st /\ form'[f].stamp = form[f].stamp + 1
         /\ \A g \in Forms \ {f} : form'[g] = form[g]
<1>1. form \in [Forms -> FormRow] /\ form[f] \in FormRow
  BY DEF FormInv, FormsTyped
<1>2. form[f].stamp \in 0 .. MaxFormStamp /\ form[f].stamp < MaxFormStamp
  BY <1>1 DEF FormRow, SaveForm
<1>3. form[f].stamp + 1 \in 0 .. MaxFormStamp
  BY <1>2, GuestAssumption
<1>4. form' = [form EXCEPT ![f] = [status |-> st, answer |-> a, stamp |-> form[f].stamp + 1]]
  BY DEF SaveForm
<1>5. [status |-> st, answer |-> a, stamp |-> form[f].stamp + 1] \in FormRow
  BY <1>3 DEF FormRow
<1> QED
  BY <1>1, <1>4, <1>5

\* After a save every request that read the form before is outdated.
LEMMA SaveOutdates ==
  ASSUME FormInv, NEW f \in Forms, form' \in [Forms -> FormRow], form'[f].stamp = form[f].stamp + 1,
         \A g \in Forms \ {f} : form'[g] = form[g],
         \A w \in Writers : writer'[w].on => writer'[w] = writer[w]
  PROVE  Pending'
<1> SUFFICES ASSUME NEW w \in Writers, writer'[w].on
             PROVE  /\ writer'[w].stamp <= form'[writer'[w].form].stamp
                    /\ writer'[w].act = "submit" /\ writer'[w].stamp = form'[writer'[w].form].stamp =>
                         form'[writer'[w].form].answer = NoAnswer
  BY DEF Pending
<1>1. writer'[w] = writer[w] /\ writer[w].on
  OBVIOUS
<1>2. writer[w].form \in Forms /\ writer[w].stamp \in 0 .. MaxFormStamp
  BY <1>1 DEF FormInv, FormsTyped, Request
<1>3. form[f].stamp \in 0 .. MaxFormStamp
  BY DEF FormInv, FormsTyped, FormRow
<1>4. CASE writer[w].form = f
  <2>1. writer[w].stamp <= form[f].stamp
    BY <1>1, <1>4 DEF FormInv, Pending
  <2>2. writer[w].stamp < form'[f].stamp
    BY <2>1, <1>2, <1>3, GuestAssumption
  <2>3. writer[w].stamp <= form'[f].stamp /\ writer[w].stamp # form'[f].stamp
    BY <2>2, <1>2, <1>3, GuestAssumption
  <2> QED
    BY <1>1, <1>4, <2>3
<1>5. CASE writer[w].form # f
  <2>1. form'[writer[w].form] = form[writer[w].form]
    BY <1>2, <1>5
  <2> QED
    BY <1>1, <2>1 DEF FormInv, Pending
<1> QED
  BY <1>4, <1>5

LEMMA IssueKeeps ==
  ASSUME FormInv, NEW f \in Forms, NEW b \in Bookings, IssueForm(f, b)
  PROVE  FormInv' /\ Stand
<1>1. /\ form[f].status = "none" /\ form' = [form EXCEPT ![f].status = "Issued"]
      /\ link' = NewLink(f, b) /\ writer' = writer
  BY DEF IssueForm
<1>2. form[f] \in FormRow /\ form[f].answer = NoAnswer
  BY <1>1 DEF FormInv, FormsTyped, Unissued
<1>3. LET r == [form[f] EXCEPT !.status = "Issued"] IN
        r \in FormRow /\ r.status = "Issued" /\ r.answer = NoAnswer /\ r.stamp = form[f].stamp
  BY <1>2 DEF FormRow, FormStates
<1>4. /\ form' \in [Forms -> FormRow]
      /\ form'[f].status = "Issued" /\ form'[f].answer = NoAnswer /\ form'[f].stamp = form[f].stamp
      /\ \A g \in Forms \ {f} : form'[g] = form[g]
  BY <1>1, <1>3 DEF FormInv, FormsTyped
<1>5. [status |-> "Active", booking |-> b, late |-> FALSE, uses |-> 0] \in LinkRow
  BY DEF LinkRow, LinkStates
<1>6. link' \in [Links \cup Forms -> LinkRow] /\ \A g \in Forms \ {f} : link'[g] = link[g]
  BY <1>1, <1>5 DEF NewLink, FormInv, FormsTyped
<1>7. FormsTyped'
  BY <1>1, <1>4, <1>6 DEF FormInv, FormsTyped
<1>8. Spent' /\ Unissued'
  BY <1>4, <1>6 DEF FormInv, Spent, Unissued
<1>9. Pending'
  <2>1. \A g \in Forms : form'[g].stamp = form[g].stamp /\ (form[g].answer = NoAnswer => form'[g].answer = NoAnswer)
    BY <1>4
  <2>2. \A w \in Writers : writer[w].on => writer[w].form \in Forms
    BY DEF FormInv, FormsTyped, Request
  <2> QED
    BY <1>1, <2>1, <2>2 DEF FormInv, Pending
<1>10. Stand
  BY <1>2, <1>4 DEF Stand
<1> QED
  BY <1>7, <1>8, <1>9, <1>10 DEF FormInv

LEMMA EditKeeps ==
  ASSUME FormInv, NEW f \in Forms, NEW st \in FormStates, EditForm(f, st)
  PROVE  FormInv' /\ Stand
<1>1. SaveForm(f, st, form[f].answer) /\ link' = link /\ writer' = writer
  BY DEF EditForm
<1>2. form[f].answer \in Answers \cup {NoAnswer} /\ st # "none"
  BY DEF FormInv, FormsTyped, FormRow, FormStates
<1>3. /\ form' \in [Forms -> FormRow]
      /\ form'[f].answer = form[f].answer /\ form'[f].status = st /\ form'[f].stamp = form[f].stamp + 1
      /\ \A g \in Forms \ {f} : form'[g] = form[g]
  BY <1>1, <1>2, SavedForm
<1>4. Pending'
  BY <1>1, <1>3, SaveOutdates
<1>5. FormsTyped'
  BY <1>1, <1>3 DEF FormInv, FormsTyped
<1>6. Spent' /\ Unissued' /\ Stand
  BY <1>1, <1>2, <1>3 DEF FormInv, Spent, Unissued, Stand
<1> QED
  BY <1>4, <1>5, <1>6 DEF FormInv

\* A submission that is not outdated finds a form whose link was not used.
LEMMA LoadKeeps ==
  ASSUME FormInv, NEW w \in Writers, NEW f \in Forms, NEW act \in {"submit", "revoke"}, LoadForm(w, f, act)
  PROVE  FormInv' /\ Stand
<1> DEFINE r == [on |-> TRUE, form |-> f, act |-> act, stamp |-> form[f].stamp]
<1>1. writer' = [writer EXCEPT ![w] = r] /\ link' = link /\ form' = form
  BY DEF LoadForm
<1>2. act = "submit" => form[f].answer = NoAnswer
  BY DEF LoadForm, Usable, FormInv, Spent
<1>3. form[f].stamp \in 0 .. MaxFormStamp
  BY DEF FormInv, FormsTyped, FormRow
<1>4. r \in Request
  BY <1>3 DEF Request
<1>5. r.on /\ r.form = f /\ r.act = act /\ r.stamp = form[f].stamp
  OBVIOUS
<1> HIDE DEF r
<1>6. FormsTyped'
  BY <1>1, <1>4 DEF FormInv, FormsTyped
<1>7. Pending'
  <2> SUFFICES ASSUME NEW v \in Writers, writer'[v].on
               PROVE  /\ writer'[v].stamp <= form[writer'[v].form].stamp
                      /\ writer'[v].act = "submit" /\ writer'[v].stamp = form[writer'[v].form].stamp =>
                           form[writer'[v].form].answer = NoAnswer
    BY <1>1 DEF Pending
  <2>1. CASE v = w
    <3>1. writer'[v] = r
      BY <1>1, <2>1 DEF FormInv, FormsTyped
    <3> QED
      BY <1>2, <1>3, <1>5, <3>1, GuestAssumption
  <2>2. CASE v # w
    <3>1. writer'[v] = writer[v]
      BY <1>1, <2>2 DEF FormInv, FormsTyped
    <3> QED
      BY <3>1 DEF FormInv, Pending
  <2> QED
    BY <2>1, <2>2
<1> QED
  BY <1>1, <1>6, <1>7 DEF FormInv, Spent, Unissued, Stand

LEMMA FailKeeps ==
  ASSUME FormInv, NEW w \in Writers, WriterFails(w)
  PROVE  FormInv' /\ Stand
<1>1. writer' = [writer EXCEPT ![w] = [on |-> FALSE]] /\ link' = link /\ form' = form
  BY DEF WriterFails
<1>2. FormsTyped' /\ \A v \in Writers : writer'[v].on => writer'[v] = writer[v]
  BY <1>1 DEF FormInv, FormsTyped, Request
<1>3. Pending'
  BY <1>1, <1>2 DEF FormInv, Pending
<1> QED
  BY <1>1, <1>2, <1>3 DEF FormInv, Spent, Unissued, Stand

LEMMA RevokeKeeps ==
  ASSUME FormInv, NEW w \in Writers, CommitRevoke(w)
  PROVE  FormInv' /\ Stand
<1> DEFINE f == writer[w].form
<1>1. /\ writer[w].on /\ SaveForm(f, "Revoked", form[f].answer)
      /\ link' = [link EXCEPT ![f].status = "Revoked"]
      /\ writer' = [writer EXCEPT ![w] = [on |-> FALSE]]
  BY DEF CommitRevoke
<1>2. f \in Forms
  BY <1>1 DEF FormInv, FormsTyped, Request
<1> HIDE DEF f
<1>3. form[f].answer \in Answers \cup {NoAnswer} /\ "Revoked" \in FormStates
  BY <1>2 DEF FormInv, FormsTyped, FormRow, FormStates
<1>4. /\ form' \in [Forms -> FormRow]
      /\ form'[f].answer = form[f].answer /\ form'[f].status = "Revoked" /\ form'[f].stamp = form[f].stamp + 1
      /\ \A g \in Forms \ {f} : form'[g] = form[g]
  BY <1>1, <1>2, <1>3, SavedForm
<1>5. LET r == [link[f] EXCEPT !.status = "Revoked"] IN r \in LinkRow /\ r.uses = link[f].uses
  BY <1>2 DEF FormInv, FormsTyped, LinkRow, LinkStates
<1>6. link' \in [Links \cup Forms -> LinkRow] /\ \A g \in Forms : link'[g].uses = link[g].uses
  BY <1>1, <1>2, <1>5 DEF FormInv, FormsTyped
<1>7. writer' \in [Writers -> Request] /\ \A v \in Writers : writer'[v].on => writer'[v] = writer[v]
  BY <1>1 DEF FormInv, FormsTyped, Request
<1>8. Pending'
  BY <1>2, <1>4, <1>7, SaveOutdates
<1>9. Spent' /\ Unissued' /\ Stand
  BY <1>2, <1>4, <1>6 DEF FormInv, Spent, Unissued, Stand
<1> QED
  BY <1>4, <1>6, <1>7, <1>8, <1>9 DEF FormInv, FormsTyped

\* The one step that writes answers: the form it saves has none, and its link is spent.
LEMMA SubmitKeeps ==
  ASSUME FormInv, NEW w \in Writers, NEW a \in Answers, CommitSubmit(w, a)
  PROVE  FormInv' /\ Stand
<1> DEFINE f == writer[w].form
<1>1. /\ writer[w].on /\ writer[w].act = "submit" /\ writer[w].stamp = form[f].stamp
      /\ SaveForm(f, "Submitted", a)
      /\ link' = [link EXCEPT ![f].uses = 1]
      /\ writer' = [writer EXCEPT ![w] = [on |-> FALSE]]
  BY DEF CommitSubmit
<1>2. f \in Forms /\ form[f].answer = NoAnswer
  BY <1>1 DEF FormInv, FormsTyped, Request, Pending
<1> HIDE DEF f
<1>3. a \in Answers \cup {NoAnswer} /\ "Submitted" \in FormStates
  BY DEF FormStates
<1>4. /\ form' \in [Forms -> FormRow]
      /\ form'[f].answer = a /\ form'[f].status = "Submitted" /\ form'[f].stamp = form[f].stamp + 1
      /\ \A g \in Forms \ {f} : form'[g] = form[g]
  BY <1>1, <1>2, <1>3, SavedForm
<1>5. LET r == [link[f] EXCEPT !.uses = 1] IN r \in LinkRow /\ r.uses = 1
  BY <1>2 DEF FormInv, FormsTyped, LinkRow
<1>6. /\ link' \in [Links \cup Forms -> LinkRow]
      /\ link'[f].uses = 1 /\ \A g \in Forms \ {f} : link'[g] = link[g]
  BY <1>1, <1>2, <1>5 DEF FormInv, FormsTyped
<1>7. writer' \in [Writers -> Request] /\ \A v \in Writers : writer'[v].on => writer'[v] = writer[v]
  BY <1>1 DEF FormInv, FormsTyped, Request
<1>8. Pending'
  BY <1>2, <1>4, <1>7, SaveOutdates
<1>9. Spent' /\ Unissued' /\ Stand
  BY <1>2, <1>4, <1>6 DEF FormInv, Spent, Unissued, Stand
<1> QED
  BY <1>4, <1>6, <1>7, <1>8, <1>9 DEF FormInv, FormsTyped

LEMMA StepKeeps == FormInv /\ [GuestNext]_guestVars => FormInv' /\ Stand
<1> SUFFICES ASSUME FormInv, [GuestNext]_guestVars PROVE FormInv' /\ Stand
  OBVIOUS
<1>1. CASE BookingNext
  BY <1>1, BookingKeeps, LinksKeep
<1>2. CASE LinkNext
  BY <1>2, LinkKeeps, LinksKeep
<1>3. CASE PortalNext
  BY <1>3, PortalKeeps, LinksKeep
<1>4. CASE FileNext
  BY <1>4, FileKeeps, LinksKeep
<1>5. CASE GuestServiceNext
  BY <1>5, ServicesKeep, LinksKeep
<1>6. CASE PrearrivalNext
  BY <1>6, IssueKeeps, EditKeeps, LoadKeeps, FailKeeps, RevokeKeeps, SubmitKeeps DEF PrearrivalNext
<1>7. CASE UNCHANGED guestVars
  BY <1>7, Elsewhere, LinksKeep DEF guestVars, formVars
<1> QED
  BY <1>1, <1>2, <1>3, <1>4, <1>5, <1>6, <1>7 DEF GuestNext

-----------------------------------------------------------------------------
\* Links, forms and requests are consistent at every moment.
THEOREM FormsConsistent == GuestSpec => []FormInv
<1>1. FormInv /\ [GuestNext]_guestVars => FormInv'
  BY StepKeeps
<1> QED
  BY InitForms, <1>1, PTL DEF GuestSpec

\* What a guest has answered before arrival stays answered: no second submission, no
\* revocation and no edit of the form or of its link changes it (submit_prearrival_form).
THEOREM SubmittedAnswersStand == GuestSpec => AnswersStand
<1>1. FormInv /\ [GuestNext]_guestVars => [Stand]_guestVars
  BY StepKeeps
<1>2. [Stand]_guestVars =>
        [\A f \in Forms : form[f].answer # NoAnswer => form'[f].answer = form[f].answer]_guestVars
  BY DEF Stand
<1> QED
  BY FormsConsistent, <1>1, <1>2, PTL DEF GuestSpec, AnswersStand

-----------------------------------------------------------------------------
(***************************************************************************)
(* The price of a stay.  A save prices a draft again at what its form      *)
(* shows: the sum over the nights, rounded to cents.  A price that has     *)
(* been quoted twice is a number of whole cents a night (Exact), and       *)
(* quoting that again gives the same.  A quote takes a price of nothing    *)
(* for no price at all; what a net contract leaves may be so little, and   *)
(* when the contract goes, the calendar prices the stay anew.  Once that   *)
(* is done no quote comes to less than half a cent a night (Fair).         *)
(***************************************************************************)
LEMMA QuotientBounds ==
  ASSUME NEW a \in Nat, NEW d \in Nat \ {0}
  PROVE  a \div d \in Nat /\ d * (a \div d) <= a /\ a < d * (a \div d) + d
OBVIOUS

LEMMA PercentBounds ==
  ASSUME NEW t \in Nat, NEW p \in 0 .. 100
  PROVE  /\ Money(t * p, 100) \in Nat /\ Money(t * p, 100) <= t
<1> DEFINE m == t * p
<1>1. m \in Nat /\ m <= 100 * t
  OBVIOUS
<1> HIDE DEF m
<1>2. Money(m, 100) = (2 * m + 100) \div 200
  BY <1>1 DEF Money
<1> QED
  BY <1>1, <1>2 DEF m

LEMMA MoneyOfNights ==
  ASSUME NEW o \in Nat \ {0}, NEW q \in Nat PROVE Money(o * q, o) = q
<1> DEFINE m == o * q
<1>1. m \in Nat
  OBVIOUS
<1>2. PICK r \in Nat : r = (2 * m + o) \div (2 * o) /\ 2 * o * r <= 2 * m + o /\ 2 * m + o < 2 * o * r + 2 * o
  BY <1>1, QuotientBounds
<1>3. 2 * o * r = 2 * (o * r) /\ o * r \in Nat
  OBVIOUS
<1>4. ASSUME NEW i \in Nat, NEW j \in Nat, i < j PROVE o * i + o <= o * j
  BY <1>4
<1>5. ~ r < q
  BY <1>1, <1>2, <1>3, <1>4
<1>6. ~ q < r
  BY <1>1, <1>2, <1>3, <1>4
<1>7. r = q
  BY <1>5, <1>6
<1> QED
  BY <1>2, <1>7 DEF Money

LEMMA MoneyPerNight ==
  ASSUME NEW n \in Nat, NEW d \in Nat \ {0}
  PROVE  Money(n, d) \in Nat /\ (2 * n >= d => Money(n, d) >= 1)
<1>1. PICK r \in Nat : r = (2 * n + d) \div (2 * d) /\ 2 * n + d < 2 * d * r + 2 * d
  BY QuotientBounds
<1>2. r = 0 => 2 * n + d < 2 * d
  BY <1>1
<1> QED
  BY <1>1, <1>2 DEF Money

-----------------------------------------------------------------------------
(* Prices. *)

SaleRow == [doc : {"none", "Draft", "Submitted"}, status : {"Confirmed", "Checked Out", "Cancelled"},
            from : Dates, to : Dates, agent : Contracts, voucher : BOOLEAN,
            approval : RateApprovals \cup {NoApproval},
            sum : Nat, over : 1 .. LastDay, quotes : 0 .. 2, discount : Nat, commission : Nat,
            owed : {"", "Pending", "Invoiced", "Paid"}, redemption : {"none", "Reserved", "Released"},
            posted : Nat]

RateTables == calendar \in [Dates -> [rate : Rates, floor : Floors,
                                      closed : {"no", "arrival", "departure", "stay"}]]

\* A price of which a night has half a cent or more, which a quote does not take for none.
Priced(x) == 2 * x.sum >= x.over

LEMMA SaleFields ==
  ASSUME NEW x \in SaleRow
  PROVE  /\ x.doc \in {"none", "Draft", "Submitted"} /\ x.sum \in Nat /\ x.over \in Nat /\ x.over >= 1
         /\ x.from \in Int /\ x.from >= 0 /\ x.to \in Int /\ x.to <= LastDay /\ LastDay \in Nat
         /\ x.quotes \in 0 .. 2
<1>1. LastDay \in Nat
  BY RevenueAssumption
<1>2. x.from \in Dates /\ x.to \in Dates /\ x.over \in 1 .. LastDay /\ x.sum \in Nat /\ x.quotes \in 0 .. 2
      /\ x.doc \in {"none", "Draft", "Submitted"}
  BY DEF SaleRow
<1> QED
  BY <1>1, <1>2 DEF Dates

LEMMA NightsCount ==
  ASSUME NEW x \in SaleRow, x.from < x.to
  PROVE  /\ IsFiniteSet(NightsOf(x)) /\ Cardinality(NightsOf(x)) = x.to - x.from
         /\ x.to - x.from \in 1 .. LastDay /\ NightsOf(x) \subseteq Dates
<1>1. x.from \in Int /\ x.to \in Int /\ x.from >= 0 /\ x.to <= LastDay /\ LastDay \in Nat
  BY SaleFields
<1>2. IsFiniteSet(x.from .. x.to - 1) /\ Cardinality(x.from .. x.to - 1) = x.to - x.from
  <2> DEFINE a == x.from
             z == x.to - 1
  <2>1. a \in Int /\ z \in Int /\ ~ a > z /\ z - a + 1 = x.to - x.from
    BY <1>1
  <2> HIDE DEF a, z
  <2>2. IsFiniteSet(a .. z) /\ Cardinality(a .. z) = z - a + 1
    BY <2>1, FS_Interval
  <2> QED
    BY <2>1, <2>2 DEF a, z
<1> QED
  BY <1>1, <1>2 DEF NightsOf, Dates

LEMMA NightRates ==
  ASSUME RateTables, NEW x \in SaleRow, NEW d \in Dates
  PROVE  /\ NightRate(x, d) \in Nat
         /\ x.sum = 0 \/ Priced(x) => NightRate(x, d) >= 1
         /\ x.sum > 0 => NightRate(x, d) = Money(x.sum, x.over)
<1>1. calendar[d].rate \in Nat /\ calendar[d].rate >= 1
  <2>1. calendar[d].rate \in Rates
    BY DEF RateTables
  <2>2. \A r \in Rates : r \in Nat /\ r >= 1
    BY RevenueAssumption
  <2> QED
    BY <2>1, <2>2
<1>2. x.sum \in Nat /\ x.over \in Nat \ {0}
  BY SaleFields
<1>3. Money(x.sum, x.over) \in Nat /\ (Priced(x) => Money(x.sum, x.over) >= 1)
  BY <1>2, MoneyPerNight DEF Priced
<1> QED
  BY <1>1, <1>2, <1>3 DEF NightRate

\* What the nights of a stay cost.
LEMMA Totals ==
  ASSUME RateTables, NEW x \in SaleRow, x.from < x.to
  PROVE  /\ RoomTotal(x) \in Nat
         /\ (x.sum = 0 \/ Priced(x)) /\ x.agent # "net" => RoomTotal(x) >= x.to - x.from
         /\ x.sum > 0 /\ x.agent # "net" => RoomTotal(x) = (x.to - x.from) * Money(x.sum, x.over)
<1> DEFINE N == NightsOf(x)
           r == [d \in N |-> NightRate(x, d)]
           one == [d \in N |-> 1]
           total == SumFunctionOnSet(r, N)
<1>1. /\ IsFiniteSet(N) /\ Cardinality(N) = x.to - x.from /\ x.to - x.from \in Nat /\ N \subseteq Dates
      /\ x.to - x.from >= 1
  BY NightsCount
<1>2. \A d \in N : /\ r[d] \in Nat
                   /\ x.sum = 0 \/ Priced(x) => r[d] >= 1
                   /\ x.sum > 0 => r[d] = Money(x.sum, x.over)
  BY <1>1, NightRates
<1> HIDE DEF N, r
<1>3. total \in Nat
  BY <1>1, <1>2, SumNatural
<1>4. x.sum = 0 \/ Priced(x) => total >= x.to - x.from
  <2> SUFFICES ASSUME x.sum = 0 \/ Priced(x) PROVE total >= x.to - x.from
    OBVIOUS
  <2>1. SumFunctionOnSet(one, N) = 1 * Cardinality(N)
    BY <1>1, SumConstant
  <2>2. \A d \in N : one[d] \in Int /\ r[d] \in Int /\ one[d] <= r[d]
    BY <1>2
  <2> HIDE DEF one
  <2>3. SumFunctionOnSet(one, N) <= total
    BY <1>1, <2>2, SumBelow
  <2> QED
    BY <1>1, <1>3, <2>1, <2>3
<1>5. x.sum > 0 => total = (x.to - x.from) * Money(x.sum, x.over)
  <2> SUFFICES ASSUME x.sum > 0 PROVE total = (x.to - x.from) * Money(x.sum, x.over)
    OBVIOUS
  <2>1. Money(x.sum, x.over) \in Int
    BY MoneyPerNight, SaleFields
  <2>2. total = Money(x.sum, x.over) * Cardinality(N)
    BY <1>1, <1>2, <2>1, SumConstant
  <2> QED
    BY <1>1, <2>1, <2>2
<1>6. RoomTotal(x) = IF x.agent = "net" THEN total - Money(total * NetDiscount, 100) ELSE total
  BY DEF RoomTotal, r, N
<1>7. /\ Money(total * NetDiscount, 100) \in Nat /\ Money(total * NetDiscount, 100) <= total
  BY <1>3, PercentBounds, RevenueAssumption
<1> HIDE DEF total
<1>8. RoomTotal(x) \in Nat
  BY <1>3, <1>6, <1>7
<1> QED
  BY <1>1, <1>3, <1>4, <1>5, <1>6, <1>8

LEMMA VoucherBounds ==
  ASSUME NEW t \in Nat
  PROVE  /\ VoucherDiscount(t) \in Nat /\ VoucherDiscount(t) <= t
<1>1. Money(t * VoucherPercent, 100) \in Nat /\ Money(t * VoucherPercent, 100) <= t
  BY PercentBounds, RevenueAssumption
<1> QED
  BY <1>1, RevenueAssumption DEF VoucherDiscount

\* What a quote makes of a form.
LEMMA Quotes ==
  ASSUME RateTables, NEW x \in SaleRow, x.from < x.to, NEW y, y = Quoted(x)
  PROVE  /\ y \in SaleRow /\ y.sum = RoomTotal(x) /\ y.over = x.to - x.from
         /\ y.quotes = (IF y.sum = 0 THEN 0 ELSE IF x.quotes < 2 THEN x.quotes + 1 ELSE 2)
         /\ y.from = x.from /\ y.to = x.to /\ y.agent = x.agent /\ y.voucher = x.voucher
         /\ y.doc = x.doc /\ y.discount <= y.sum
<1> DEFINE total == RoomTotal(x)
           discount == IF x.voucher THEN VoucherDiscount(total) ELSE 0
           commission == IF x.agent = "gross" THEN Money((total - discount) * CommissionRate, 100) ELSE 0
<1>1. total \in Nat
  BY Totals
<1>2. discount \in Nat /\ discount <= total
  BY <1>1, VoucherBounds
<1>3. commission \in Nat
  <2>1. total - discount \in Nat
    BY <1>1, <1>2
  <2> HIDE DEF total, discount
  <2> QED
    BY <2>1, PercentBounds, RevenueAssumption
<1>4. x.to - x.from \in 1 .. LastDay
  BY NightsCount
<1>5. y = [x EXCEPT !.sum = total, !.over = x.to - x.from,
                    !.quotes = IF total = 0 THEN 0 ELSE IF @ < 2 THEN @ + 1 ELSE 2,
                    !.discount = discount, !.commission = commission,
                    !.owed = IF commission > 0 /\ @ = "" THEN "Pending" ELSE @]
  BY DEF Quoted
<1> HIDE DEF total, discount, commission
<1>6. (IF total = 0 THEN 0 ELSE IF x.quotes < 2 THEN x.quotes + 1 ELSE 2) \in 0 .. 2
  BY SaleFields
<1>7. (IF commission > 0 /\ x.owed = "" THEN "Pending" ELSE x.owed) \in {"", "Pending", "Invoiced", "Paid"}
  BY DEF SaleRow
<1>8. y \in SaleRow
  BY <1>1, <1>2, <1>3, <1>4, <1>5, <1>6, <1>7 DEF SaleRow
<1>9. /\ y.sum = total /\ y.over = x.to - x.from /\ y.discount = discount
      /\ y.quotes = (IF total = 0 THEN 0 ELSE IF x.quotes < 2 THEN x.quotes + 1 ELSE 2)
      /\ y.from = x.from /\ y.to = x.to /\ y.agent = x.agent /\ y.voucher = x.voucher
      /\ y.doc = x.doc
  BY <1>5 DEF SaleRow
<1> QED
  BY <1>2, <1>8, <1>9 DEF total

-----------------------------------------------------------------------------
(* The type invariant of Revenue. *)

RestTyped ==
  /\ voucherOn \in BOOLEAN
  /\ rateApproval \in [RateApprovals -> [status : {"none", "Pending", "Approved", "Rejected", "Expired"},
                                         rate : Rates \cup {0}, late : BOOLEAN]]
  /\ settlement \in [Settlements -> [status : {"none", "Draft", "Invoiced", "Paid"}, lines : SUBSET Sales,
                                     paid : BOOLEAN]]

LEMMA RevenueTypes == RevenueTypeOK <=> sale \in [Sales -> SaleRow] /\ RateTables /\ RestTyped
BY DEF RevenueTypeOK, SaleRow, RateTables, RestTyped

LEMMA NoSaleTyped == NoSale \in SaleRow
<1>1. 0 \in Dates /\ 1 \in Dates /\ 1 \in 1 .. LastDay
  BY RevenueAssumption DEF Dates
<1> QED
  BY <1>1 DEF NoSale, SaleRow, Contracts

\* One sale is written.
LEMMA WrittenTyped ==
  ASSUME RevenueTypeOK, NEW b \in Sales, NEW x \in SaleRow, Written(b, x)
  PROVE  RevenueTypeOK'
<1>1. sale' \in [Sales -> SaleRow]
  BY RevenueTypes DEF Written
<1>2. RateTables' /\ RestTyped'
  BY RevenueTypes DEF Written, RateTables, RestTyped
<1> QED
  BY <1>1, <1>2 DEF RevenueTypeOK, SaleRow, RateTables, RestTyped

\* The forms a person may save.
LEMMA NewFormsTyped ==
  ASSUME NEW x \in NewForms
  PROVE  x \in SaleRow /\ x.quotes = 0 /\ x.over = 1 /\ x.agent \in Contracts /\ (x.sum = 0 \/ x.sum >= 1)
<1>1. PICK n \in 1 .. LastDay, r \in Rates \cup {0}, k \in Contracts, v \in BOOLEAN : x = NewForm(n, r, k, v)
  BY DEF NewForms
<1>2. n \in Dates /\ r \in Nat
  <2>1. LastDay \in Nat /\ Rates \subseteq Nat
    BY RevenueAssumption
  <2> QED
    BY <2>1 DEF Dates
<1>3. x \in SaleRow
  BY <1>1, <1>2, NoSaleTyped DEF SaleRow, NewForm
<1> QED
  BY <1>1, <1>2, <1>3 DEF NoSale, NewForm

LEMMA SaleFormsTyped ==
  ASSUME NEW b \in Sales, sale[b] \in SaleRow, NEW x \in FormsOf(b)
  PROVE  /\ x \in SaleRow
         /\ x # sale[b] => x.quotes = 0
         /\ (x.sum = 0 \/ Priced(x)) \/ (x.sum = sale[b].sum /\ x.over = sale[b].over)
<1>1. LastDay \in Nat /\ Rates \subseteq Nat \ {0}
  BY RevenueAssumption
<1> DEFINE y == [sale[b] EXCEPT !.quotes = 0]
<1>2. y \in SaleRow /\ y.quotes = 0 /\ y.sum = sale[b].sum /\ y.over = sale[b].over
  <2>1. 0 \in 0 .. 2
    OBVIOUS
  <2> QED
    BY <2>1 DEF SaleRow
<1>3. x = sale[b] \/ (\E r \in Rates \cup {0} : x = [y EXCEPT !.sum = r, !.over = 1])
      \/ (\E n \in 1 .. LastDay : x = [y EXCEPT !.to = n]) \/ (\E k \in Contracts : x = [y EXCEPT !.agent = k])
      \/ (\E v \in BOOLEAN : x = [y EXCEPT !.voucher = v])
      \/ (\E a \in RateApprovals : x = [y EXCEPT !.approval = a])
  BY DEF FormsOf
<1> HIDE DEF y
<1>4. CASE x = sale[b]
  BY <1>4
<1>5. ASSUME NEW r \in Rates \cup {0}, x = [y EXCEPT !.sum = r, !.over = 1]
      PROVE  x \in SaleRow /\ x.quotes = 0 /\ (x.sum = 0 \/ Priced(x))
  <2>1. r \in Nat /\ 1 \in 1 .. LastDay /\ (r = 0 \/ r >= 1)
    BY <1>1, RevenueAssumption
  <2>2. x \in SaleRow /\ x.quotes = 0 /\ x.sum = r /\ x.over = 1
    BY <1>2, <1>5, <2>1 DEF SaleRow
  <2> QED
    BY <2>1, <2>2 DEF Priced
<1>6. ASSUME NEW n \in 1 .. LastDay, x = [y EXCEPT !.to = n]
      PROVE  x \in SaleRow /\ x.quotes = 0 /\ x.sum = y.sum /\ x.over = y.over
  <2>1. n \in Dates
    BY <1>1 DEF Dates
  <2> QED
    BY <1>2, <1>6, <2>1 DEF SaleRow
<1>7. ASSUME NEW k \in Contracts, x = [y EXCEPT !.agent = k]
      PROVE  x \in SaleRow /\ x.quotes = 0 /\ x.sum = y.sum /\ x.over = y.over
  BY <1>2, <1>7 DEF SaleRow
<1>8. ASSUME NEW v \in BOOLEAN, x = [y EXCEPT !.voucher = v]
      PROVE  x \in SaleRow /\ x.quotes = 0 /\ x.sum = y.sum /\ x.over = y.over
  BY <1>2, <1>8 DEF SaleRow
<1>9. ASSUME NEW a \in RateApprovals, x = [y EXCEPT !.approval = a]
      PROVE  x \in SaleRow /\ x.quotes = 0 /\ x.sum = y.sum /\ x.over = y.over
  BY <1>2, <1>9 DEF SaleRow
<1> QED
  BY <1>2, <1>3, <1>4, <1>5, <1>6, <1>7, <1>8, <1>9

LEMMA SubmittedTyped ==
  ASSUME NEW x \in SaleRow, NEW y, y = AsSubmitted(x)
  PROVE  /\ y \in SaleRow /\ y.doc = "Submitted" /\ y.sum = x.sum /\ y.over = x.over
         /\ y.quotes = x.quotes /\ y.agent = x.agent
BY DEF AsSubmitted, SaleRow

LEMMA SaveDraftTyped ==
  ASSUME RevenueTypeOK, NEW b \in Sales, NEW x \in SaleRow, SaveDraft(b, x) PROVE RevenueTypeOK'
<1>1. PICK y : y = Quoted(x)
  OBVIOUS
<1>2. y \in SaleRow
  BY <1>1, Quotes, RevenueTypes DEF SaveDraft, MayQuote
<1>3. [y EXCEPT !.doc = "Draft"] \in SaleRow
  BY <1>2 DEF SaleRow
<1> QED
  BY <1>1, <1>3, WrittenTyped DEF SaveDraft

LEMMA InsertTyped ==
  ASSUME RevenueTypeOK, NEW b \in Sales, NEW x \in SaleRow, InsertAndSubmit(b, x) PROVE RevenueTypeOK'
<1>1. PICK y : y = Quoted(x)
  OBVIOUS
<1>2. y \in SaleRow
  BY <1>1, Quotes, RevenueTypes DEF InsertAndSubmit, MayQuote
<1>3. PICK z : z = Quoted(y)
  OBVIOUS
<1>4. y.from < y.to /\ Written(b, AsSubmitted(z))
  BY <1>1, <1>3 DEF InsertAndSubmit, MayQuote
<1>5. AsSubmitted(z) \in SaleRow
  BY <1>2, <1>3, <1>4, Quotes, RevenueTypes, SubmittedTyped
<1> QED
  BY <1>4, <1>5, WrittenTyped

\* The form that the guest's price of an online booking is written into.
LEMMA OnlineForm ==
  ASSUME RevenueTypeOK, NEW x \in SaleRow, x.from < x.to, NEW q, q = Quoted(x)
  PROVE  [q EXCEPT !.sum = q.sum - q.discount] \in SaleRow
<1>1. q \in SaleRow /\ q.discount <= q.sum
  BY Quotes, RevenueTypes
<1>2. q.sum \in Nat /\ q.discount \in Nat
  BY <1>1 DEF SaleRow
<1>3. q.sum - q.discount \in Nat
  BY <1>1, <1>2
<1> QED
  BY <1>1, <1>3 DEF SaleRow

LEMMA SaleTyped ==
  ASSUME RevenueTypeOK, NEW b \in Sales, SaleOf(b) PROVE RevenueTypeOK'
<1>1. sale[b] \in SaleRow
  BY RevenueTypes
<1>2. ASSUME NEW x \in NewForms, SaveDraft(b, x) \/ QuickBooking(b, x) \/ OnlineBooking(b, x)
      PROVE  RevenueTypeOK'
  <2>1. x \in SaleRow
    BY NewFormsTyped
  <2>2. CASE SaveDraft(b, x)
    BY <2>1, <2>2, SaveDraftTyped
  <2>3. CASE QuickBooking(b, x)
    <3>1. Quoted(x) \in SaleRow
      BY <2>1, <2>3, Quotes, RevenueTypes DEF QuickBooking, MayQuote
    <3> QED
      BY <2>3, <3>1, InsertTyped DEF QuickBooking
  <2>4. CASE OnlineBooking(b, x)
    <3>1. PICK q : q = Quoted(x)
      OBVIOUS
    <3>2. x.from < x.to /\ InsertAndSubmit(b, [q EXCEPT !.sum = q.sum - q.discount])
      BY <2>4, <3>1 DEF OnlineBooking, MayQuote
    <3>3. [q EXCEPT !.sum = q.sum - q.discount] \in SaleRow
      BY <2>1, <3>1, <3>2, OnlineForm
    <3> QED
      BY <3>2, <3>3, InsertTyped
  <2> QED
    BY <1>2, <2>2, <2>3, <2>4
<1>3. ASSUME NEW x \in FormsOf(b), SaveDraft(b, x) PROVE RevenueTypeOK'
  BY <1>1, <1>3, SaleFormsTyped, SaveDraftTyped
<1>4. CASE SubmitSale(b)
  <2>1. Quoted(sale[b]) \in SaleRow
    BY <1>1, <1>4, Quotes, RevenueTypes DEF SubmitSale, MayQuote
  <2> QED
    BY <1>4, <2>1, SubmittedTyped, WrittenTyped DEF SubmitSale
<1>5. CASE CheckOutSale(b)
  <2> DEFINE y == [sale[b] EXCEPT !.status = "Checked Out",
                                  !.owed = IF sale[b].commission > 0 THEN "Pending" ELSE @]
  <2>1. y \in SaleRow
    BY <1>1 DEF SaleRow
  <2> QED
    BY <1>5, <2>1, WrittenTyped DEF CheckOutSale
<1>6. CASE CancelSale(b)
  <2> DEFINE y == [sale[b] EXCEPT !.status = "Cancelled",
                                  !.redemption = IF @ = "Reserved" THEN "Released" ELSE @]
  <2>1. y \in SaleRow
    BY <1>1 DEF SaleRow
  <2> QED
    BY <1>6, <2>1, WrittenTyped DEF CancelSale
<1>7. ASSUME NEW from \in Dates, NEW to \in Dates, AmendSale(b, from, to) PROVE RevenueTypeOK'
  <2>1. [sale[b] EXCEPT !.from = from, !.to = to] \in SaleRow
    BY <1>1 DEF SaleRow
  <2> QED
    BY <1>7, <2>1, WrittenTyped DEF AmendSale
<1> QED
  BY <1>2, <1>3, <1>4, <1>5, <1>6, <1>7 DEF SaleOf

LEMMA RateTyped ==
  ASSUME RevenueTypeOK, RateNext PROVE RevenueTypeOK'
<1>0. sale \in [Sales -> SaleRow] /\ RateTables /\ RestTyped
  BY RevenueTypes
<1>1. ASSUME NEW d \in Dates, NEW r \in Rates, NEW f \in Floors,
             NEW c \in {"no", "arrival", "departure", "stay"},
             SetCalendar(d, [rate |-> r, floor |-> f, closed |-> c])
      PROVE  RevenueTypeOK'
  BY <1>0, <1>1 DEF SetCalendar, RevenueTypeOK, SaleRow, RateTables, RestTyped
<1>2. CASE SwitchVoucher
  BY <1>0, <1>2 DEF SwitchVoucher, RevenueTypeOK, SaleRow, RateTables, RestTyped
<1>3. CASE ExpireRateApprovals
  <2> DEFINE Rows == [status : {"none", "Pending", "Approved", "Rejected", "Expired"},
                      rate : Rates \cup {0}, late : BOOLEAN]
             new == [a \in RateApprovals |-> IF rateApproval[a].status = "Approved" /\ rateApproval[a].late
                       THEN [rateApproval[a] EXCEPT !.status = "Expired"] ELSE rateApproval[a]]
  <2>1. \A a \in RateApprovals : rateApproval[a] \in Rows
    BY <1>0 DEF RestTyped
  <2>2. \A row \in Rows : [row EXCEPT !.status = "Expired"] \in Rows
    OBVIOUS
  <2>3. rateApproval' = new /\ UNCHANGED <<sale, calendar, voucherOn, settlement>>
    BY <1>3 DEF ExpireRateApprovals
  <2>4. new \in [RateApprovals -> Rows]
    <3> HIDE DEF Rows
    <3> QED
      BY <2>1, <2>2
  <2> HIDE DEF new
  <2> QED
    BY <1>0, <2>3, <2>4 DEF RevenueTypeOK, SaleRow, RateTables, RestTyped
<1>4. ASSUME NEW a \in RateApprovals, NEW row, SetApproval(a, row),
             row \in [status : {"none", "Pending", "Approved", "Rejected", "Expired"},
                      rate : Rates \cup {0}, late : BOOLEAN]
      PROVE  RevenueTypeOK'
  BY <1>0, <1>4 DEF SetApproval, RevenueTypeOK, SaleRow, RateTables, RestTyped
<1>5. ASSUME NEW a \in RateApprovals,
             \/ \E r \in Rates : RequestRateApproval(a, r)
             \/ \E st \in {"Pending", "Approved", "Rejected"} : DecideRateApproval(a, st)
             \/ RateApprovalAges(a)
      PROVE  RevenueTypeOK'
  BY <1>0, <1>4, <1>5 DEF RequestRateApproval, DecideRateApproval, RateApprovalAges, RestTyped
<1> QED
  BY <1>1, <1>2, <1>3, <1>5 DEF RateNext

LEMMA OwedTyped ==
  ASSUME RevenueTypeOK, NEW T, NEW st \in {"Invoiced", "Paid"} PROVE Owed(T, st) \in [Sales -> SaleRow]
<1>1. ASSUME NEW b \in Sales PROVE sale[b] \in SaleRow /\ [sale[b] EXCEPT !.owed = st] \in SaleRow
  <2>1. PICK x : x = sale[b]
    OBVIOUS
  <2>2. x \in SaleRow
    BY <2>1, RevenueTypes
  <2>3. [x EXCEPT !.owed = st] \in SaleRow
    BY <2>2 DEF SaleRow
  <2> QED
    BY <2>1, <2>2, <2>3
<1> QED
  BY <1>1 DEF Owed

LEMMA AgentTyped ==
  ASSUME RevenueTypeOK, AgentNext PROVE RevenueTypeOK'
<1>0. sale \in [Sales -> SaleRow] /\ RateTables /\ RestTyped
  BY RevenueTypes
<1> DEFINE Lines == [status : {"none", "Draft", "Invoiced", "Paid"}, lines : SUBSET Sales, paid : BOOLEAN]
<1>1. ASSUME UNCHANGED <<calendar, voucherOn, rateApproval>>, settlement' \in [Settlements -> Lines],
             sale' \in [Sales -> SaleRow]
      PROVE  RevenueTypeOK'
  BY <1>0, <1>1 DEF RevenueTypeOK, SaleRow, RateTables, RestTyped
<1>2. ASSUME NEW t \in Settlements, NEW from \in Dates, NEW to \in Dates, BuildSettlement(t, from, to)
      PROVE  RevenueTypeOK'
  <2>1. Unsettled(from, to) \in SUBSET Sales
    BY DEF Unsettled
  <2>2. [status |-> "Draft", lines |-> Unsettled(from, to), paid |-> FALSE] \in Lines
    BY <2>1
  <2> QED
    BY <1>0, <1>1, <1>2, <2>2 DEF BuildSettlement, RestTyped
<1>3. ASSUME NEW t \in Settlements, InvoiceSettlement(t) PROVE RevenueTypeOK'
  <2>1. sale' \in [Sales -> SaleRow]
    BY <1>3, OwedTyped DEF InvoiceSettlement
  <2> QED
    BY <1>0, <1>1, <1>3, <2>1 DEF InvoiceSettlement, RestTyped
<1>4. ASSUME NEW t \in Settlements, SettlementIsPaid(t) PROVE RevenueTypeOK'
  BY <1>0, <1>1, <1>4 DEF SettlementIsPaid, RestTyped
<1>5. CASE UpdateSettlements
  <2>1. PICK T : /\ sale' = Owed(T, "Paid") /\ UNCHANGED <<calendar, voucherOn, rateApproval>>
                 /\ settlement' = [t \in Settlements |->
                      IF t \in T THEN [settlement[t] EXCEPT !.status = "Paid"] ELSE settlement[t]]
    BY <1>5 DEF UpdateSettlements
  <2>2. sale' \in [Sales -> SaleRow]
    BY <2>1, OwedTyped
  <2>3. settlement' \in [Settlements -> Lines]
    BY <1>0, <2>1 DEF RestTyped
  <2> QED
    BY <1>1, <2>1, <2>2, <2>3
<1> QED
  BY <1>2, <1>3, <1>4, <1>5 DEF AgentNext

LEMMA RevenueTypedInit == RevenueInit => RevenueTypeOK
<1> SUFFICES ASSUME RevenueInit PROVE RevenueTypeOK
  OBVIOUS
<1>1. Max(Rates) \in Rates /\ Min(Floors) \in Floors
  <2>1. Rates \subseteq Int /\ IsFiniteSet(Rates) /\ Rates # {}
    BY RevenueAssumption
  <2>2. Floors \subseteq Nat /\ Floors # {}
    BY RevenueAssumption
  <2>3. \E r \in Rates : \A q \in Rates : q <= r
    BY <2>1, LargestNumber
  <2>4. \E r \in Floors : \A q \in Floors : r <= q
    BY <2>2, LeastNumber
  <2> QED
    BY <2>3, <2>4 DEF Max, Min
<1>2. sale \in [Sales -> SaleRow]
  BY NoSaleTyped DEF RevenueInit
<1>3. RateTables /\ RestTyped
  BY <1>1 DEF RevenueInit, RateTables, RestTyped
<1> QED
  BY <1>2, <1>3, RevenueTypes

LEMMA RevenueTypedStep ==
  ASSUME RevenueTypeOK, [RevenueNext]_revenueVars PROVE RevenueTypeOK'
<1>1. CASE UNCHANGED revenueVars
  BY <1>1 DEF revenueVars, RevenueTypeOK
<1> QED
  BY <1>1, SaleTyped, RateTyped, AgentTyped DEF RevenueNext, SaleNext

\* Every variable of Revenue has its type: no quote, discount or commission (revenue.py, revenue_rules.py)
\* comes to less than nothing, whatever the contract, the voucher and the approved rate take off.
THEOREM RevenueTyped == RevenueSpec => []RevenueTypeOK
<1> QED
  BY RevenueTypedInit, RevenueTypedStep, PTL DEF RevenueSpec

-----------------------------------------------------------------------------
(* A price stands. *)

\* A draft that is quoted has a price, and after two quotes one of whole cents a night.
Fair(x) == x.quotes >= 1 /\ x.agent # "net" => Priced(x)
Exact(x) == x.quotes = 2 /\ x.agent # "net" => \E q \in Nat : x.sum = x.over * q

PricedRow(x) ==
  /\ x.doc = "none" => x.quotes = 0
  /\ x.doc = "Draft" => Fair(x) /\ Exact(x)

PriceInv == \A b \in Sales : PricedRow(sale[b])

\* What PriceSettles says of a row and the row it becomes.
Stands(x, y) == x.quotes = 2 /\ y.quotes # 1 /\ "net" \notin {x.agent, y.agent} =>
  y.quotes = 2 /\ y.sum * x.over = x.sum * y.over

\* A row whose price nobody touched.
SamePrice(x, y) == y.sum = x.sum /\ y.over = x.over /\ y.quotes = x.quotes /\ y.agent = x.agent

LEMMA SamePriceStands ==
  ASSUME NEW x \in SaleRow, NEW y, SamePrice(x, y), y.doc = x.doc, PricedRow(x)
  PROVE  PricedRow(y) /\ Stands(x, y)
<1>1. x.sum \in Nat /\ x.over \in Nat
  BY SaleFields
<1>2. y.sum * x.over = x.sum * y.over
  BY <1>1 DEF SamePrice
<1> QED
  BY <1>2 DEF SamePrice, PricedRow, Fair, Priced, Exact, Stands

\* A second quote of a price of whole cents a night leaves it as it is.
LEMMA QuoteStands ==
  ASSUME RateTables, NEW x \in SaleRow, x.from < x.to, NEW y, y = Quoted(x), Fair(x), Exact(x)
  PROVE  Fair(y) /\ Exact(y) /\ Stands(x, y)
<1> DEFINE n == x.to - x.from
           p == Money(x.sum, x.over)
<1>1. /\ y.sum = RoomTotal(x) /\ y.over = n /\ y.agent = x.agent
      /\ y.quotes = IF y.sum = 0 THEN 0 ELSE IF x.quotes < 2 THEN x.quotes + 1 ELSE 2
  BY Quotes
<1>2. n \in Nat /\ n >= 1
  BY NightsCount
<1>3. x.sum \in Nat /\ x.over \in Nat /\ x.over >= 1 /\ p \in Nat /\ x.quotes \in 0 .. 2
  BY SaleFields, MoneyPerNight
<1>4. CASE x.agent = "net"
  BY <1>1, <1>4 DEF Fair, Exact, Stands
<1>5. CASE x.agent # "net" /\ x.sum = 0
  <2>1. RoomTotal(x) \in Nat /\ RoomTotal(x) >= n
    BY <1>5, Totals
  <2>2. x.quotes = 0
    BY <1>3, <1>5 DEF Fair, Priced
  <2> HIDE DEF n, p
  <2>3. y.quotes = 1
    BY <1>1, <1>2, <2>1, <2>2
  <2>4. Exact(y) /\ Stands(x, y)
    BY <2>2, <2>3 DEF Exact, Stands
  <2>5. Fair(y)
    BY <1>1, <1>2, <2>1 DEF Fair, Priced
  <2> QED
    BY <2>4, <2>5
<1>6. CASE x.agent # "net" /\ x.sum > 0
  <2>1. RoomTotal(x) = n * p /\ (Priced(x) => RoomTotal(x) >= n)
    BY <1>6, Totals
  <2> HIDE DEF n
  <2>2. Fair(y) /\ Exact(y)
    <3> HIDE DEF p
    <3>1. y.sum = n * p
      BY <1>1, <2>1
    <3>2. p >= 1 => n * p >= n
      BY <1>2, <1>3
    <3>3. p = 0 => y.sum = 0 /\ y.quotes = 0
      BY <1>1, <1>2, <3>1
    <3>4. Fair(y)
      BY <1>1, <1>2, <1>3, <3>1, <3>2, <3>3 DEF Fair, Priced
    <3> QED
      BY <1>1, <1>3, <3>1, <3>4 DEF Exact
  <2>3. Stands(x, y)
    <3> SUFFICES ASSUME x.quotes = 2 PROVE y.quotes = 2 /\ y.sum * x.over = x.sum * y.over
      BY DEF Stands
    <3>1. PICK q \in Nat : x.sum = x.over * q
      BY <1>6 DEF Exact
    <3>2. p = q
      BY <1>3, <3>1, MoneyOfNights DEF p
    <3>3. y.sum = n * q /\ y.sum >= n
      BY <1>1, <1>6, <2>1, <3>2 DEF Fair
    <3>4. (n * q) * x.over = (x.over * q) * n
      BY <1>2, <1>3
    <3> QED
      BY <1>1, <1>2, <3>1, <3>3, <3>4
  <2> QED
    BY <2>2, <2>3
<1> QED
  BY <1>3, <1>4, <1>5, <1>6

\* The first quote of a form a person wrote, with a price or without.
LEMMA FirstQuote ==
  ASSUME RateTables, NEW x \in SaleRow, x.from < x.to, NEW y, y = Quoted(x),
         x.quotes = 0, x.agent # "net", x.sum = 0 \/ Priced(x)
  PROVE  y.quotes = 1
<1>1. /\ y.sum = RoomTotal(x)
      /\ y.quotes = IF y.sum = 0 THEN 0 ELSE IF x.quotes < 2 THEN x.quotes + 1 ELSE 2
  BY Quotes
<1>2. x.to - x.from \in Nat /\ x.to - x.from >= 1
  BY NightsCount
<1>3. RoomTotal(x) \in Nat /\ RoomTotal(x) >= x.to - x.from
  BY Totals
<1> QED
  BY <1>1, <1>2, <1>3

\* One sale is written, and its price stands.
LEMMA WrittenStands ==
  ASSUME RevenueTypeOK, PriceInv, NEW b \in Sales, NEW y, Written(b, y), PricedRow(y), Stands(sale[b], y)
  PROVE  PriceInv' /\ \A c \in Sales : Stands(sale[c], sale'[c])
<1>1. \A c \in Sales : sale'[c] = IF c = b THEN y ELSE sale[c]
  BY RevenueTypes DEF Written
<1>2. ASSUME NEW c \in Sales PROVE Stands(sale[c], sale[c])
  BY <1>2, RevenueTypes, SamePriceStands DEF SamePrice, PriceInv
<1> QED
  BY <1>1, <1>2 DEF PriceInv

LEMMA DraftStands ==
  ASSUME RevenueTypeOK, PriceInv, NEW b \in Sales, NEW x \in SaleRow, SaveDraft(b, x),
         \/ x = sale[b] /\ x.doc = "Draft"
         \/ x.quotes = 0 /\ (sale[b].quotes = 2 /\ sale[b].agent # "net" => x.sum = 0 \/ Priced(x))
  PROVE  PriceInv' /\ \A c \in Sales : Stands(sale[c], sale'[c])
<1>1. PICK y : y = Quoted(x)
  OBVIOUS
<1>2. PICK z : z = [y EXCEPT !.doc = "Draft"]
  OBVIOUS
<1>3. x.from < x.to /\ Written(b, z) /\ RateTables
  BY <1>1, <1>2, RevenueTypes DEF SaveDraft, MayQuote
<1>4. y \in SaleRow
  BY <1>1, <1>3, Quotes
<1>5. SamePrice(y, z) /\ z.doc = "Draft"
  BY <1>2, <1>4 DEF SaleRow, SamePrice
<1>6. Fair(y) /\ Exact(y) /\ Stands(sale[b], y)
  <2>1. CASE x = sale[b] /\ x.doc = "Draft"
    <3>1. Fair(x) /\ Exact(x)
      BY <2>1 DEF PriceInv, PricedRow
    <3> QED
      BY <1>1, <1>3, <2>1, <3>1, QuoteStands
  <2>2. CASE /\ x.quotes = 0
             /\ sale[b].quotes = 2 /\ sale[b].agent # "net" => x.sum = 0 \/ Priced(x)
    <3>1. Fair(y) /\ Exact(y)
      <4>1. Fair(x) /\ Exact(x)
        BY <2>2 DEF Fair, Exact
      <4> QED
        BY <1>1, <1>3, <4>1, QuoteStands
    <3>2. ASSUME sale[b].quotes = 2, sale[b].agent # "net", y.agent # "net" PROVE y.quotes = 1
      <4>1. x.agent # "net"
        BY <1>1, <1>3, <3>2, Quotes
      <4> QED
        BY <1>1, <1>3, <2>2, <3>2, <4>1, FirstQuote
    <3> QED
      BY <3>1, <3>2 DEF Stands
  <2> QED
    BY <2>1, <2>2
<1>7. PricedRow(z) /\ Stands(sale[b], z)
  BY <1>5, <1>6 DEF SamePrice, PricedRow, Fair, Priced, Exact, Stands
<1> QED
  BY <1>3, <1>7, WrittenStands

\* A new row is not one whose price has settled.
LEMMA NewStands ==
  ASSUME RevenueTypeOK, PriceInv, NEW b \in Sales, NEW x \in SaleRow, InsertAndSubmit(b, x)
  PROVE  PriceInv' /\ \A c \in Sales : Stands(sale[c], sale'[c])
<1>1. PICK y, z : y = Quoted(x) /\ z = AsSubmitted(Quoted(y))
  OBVIOUS
<1>2. x.from < x.to /\ y.from < y.to /\ RateTables /\ Written(b, z) /\ sale[b].doc = "none"
  BY <1>1, RevenueTypes DEF InsertAndSubmit, MayQuote
<1>3. y \in SaleRow
  BY <1>1, <1>2, Quotes
<1>4. Quoted(y) \in SaleRow
  BY <1>2, <1>3, Quotes
<1>5. z.doc = "Submitted"
  BY <1>1, <1>4, SubmittedTyped
<1>6. sale[b].quotes = 0
  BY <1>2 DEF PriceInv, PricedRow
<1> QED
  BY <1>2, <1>5, <1>6, WrittenStands DEF PricedRow, Stands

LEMMA SaleStands ==
  ASSUME RevenueTypeOK, PriceInv, NEW b \in Sales, SaleOf(b)
  PROVE  PriceInv' /\ \A c \in Sales : Stands(sale[c], sale'[c])
<1> DEFINE Goal == PriceInv' /\ \A c \in Sales : Stands(sale[c], sale'[c])
<1>1. sale[b] \in SaleRow /\ RateTables /\ PricedRow(sale[b])
  BY RevenueTypes DEF PriceInv
<1>2. ASSUME NEW x \in NewForms, SaveDraft(b, x) \/ QuickBooking(b, x) \/ OnlineBooking(b, x)
      PROVE  Goal
  <2>1. x \in SaleRow /\ x.quotes = 0 /\ (x.sum = 0 \/ Priced(x))
    <3>1. x \in SaleRow /\ x.quotes = 0 /\ x.over = 1 /\ (x.sum = 0 \/ x.sum >= 1)
      BY NewFormsTyped
    <3> QED
      BY <3>1, SaleFields DEF Priced
  <2>2. CASE SaveDraft(b, x)
    BY <2>1, <2>2, DraftStands
  <2>3. CASE QuickBooking(b, x)
    <3>1. Quoted(x) \in SaleRow
      BY <1>1, <2>1, <2>3, Quotes DEF QuickBooking, MayQuote
    <3> QED
      BY <2>3, <3>1, NewStands DEF QuickBooking
  <2>4. CASE OnlineBooking(b, x)
    <3>1. PICK q : q = Quoted(x)
      OBVIOUS
    <3>2. x.from < x.to /\ InsertAndSubmit(b, [q EXCEPT !.sum = q.sum - q.discount])
      BY <2>4, <3>1 DEF OnlineBooking, MayQuote
    <3>3. [q EXCEPT !.sum = q.sum - q.discount] \in SaleRow
      BY <2>1, <3>1, <3>2, OnlineForm
    <3> QED
      BY <3>2, <3>3, NewStands
  <2> QED
    BY <1>2, <2>2, <2>3, <2>4
<1>3. ASSUME sale[b].doc = "Draft", NEW x \in FormsOf(b), SaveDraft(b, x) PROVE Goal
  <2>1. sale[b].quotes = 2 /\ sale[b].agent # "net" => Priced(sale[b])
    BY <1>1, <1>3 DEF PricedRow, Fair
  <2>2. /\ x \in SaleRow /\ (x # sale[b] => x.quotes = 0)
        /\ (x.sum = 0 \/ Priced(x)) \/ (x.sum = sale[b].sum /\ x.over = sale[b].over)
    BY <1>1, SaleFormsTyped
  <2>3. sale[b].quotes = 2 /\ sale[b].agent # "net" => x.sum = 0 \/ Priced(x)
    BY <2>1, <2>2 DEF Priced
  <2> QED
    BY <1>3, <2>2, <2>3, DraftStands
<1>4. CASE SubmitSale(b)
  <2>1. PICK y : y = Quoted(sale[b])
    OBVIOUS
  <2>2. PICK z : z = AsSubmitted(y)
    OBVIOUS
  <2>3. sale[b].doc = "Draft" /\ sale[b].from < sale[b].to /\ Written(b, z)
    BY <1>4, <2>1, <2>2 DEF SubmitSale, MayQuote
  <2>4. y \in SaleRow
    BY <1>1, <2>1, <2>3, Quotes
  <2>5. Stands(sale[b], y)
    BY <1>1, <2>1, <2>3, QuoteStands DEF PricedRow
  <2>6. z.doc = "Submitted" /\ z.sum = y.sum /\ z.over = y.over /\ z.quotes = y.quotes /\ z.agent = y.agent
    BY <2>2, <2>4, SubmittedTyped
  <2>7. PricedRow(z) /\ Stands(sale[b], z)
    BY <2>5, <2>6 DEF PricedRow, Stands
  <2> QED
    BY <2>3, <2>7, WrittenStands
<1>5. ASSUME NEW y, Written(b, y), SamePrice(sale[b], y), y.doc = sale[b].doc PROVE Goal
  BY <1>1, <1>5, SamePriceStands, WrittenStands
<1>6. CASE CheckOutSale(b)
  <2> DEFINE y == [sale[b] EXCEPT !.status = "Checked Out",
                                  !.owed = IF sale[b].commission > 0 THEN "Pending" ELSE @]
  <2>1. SamePrice(sale[b], y) /\ y.doc = sale[b].doc
    BY <1>1 DEF SaleRow, SamePrice
  <2> QED
    BY <1>5, <1>6, <2>1 DEF CheckOutSale
<1>7. CASE CancelSale(b)
  <2> DEFINE y == [sale[b] EXCEPT !.status = "Cancelled",
                                  !.redemption = IF @ = "Reserved" THEN "Released" ELSE @]
  <2>1. SamePrice(sale[b], y) /\ y.doc = sale[b].doc
    BY <1>1 DEF SaleRow, SamePrice
  <2> QED
    BY <1>5, <1>7, <2>1 DEF CancelSale
<1>8. ASSUME NEW from \in Dates, NEW to \in Dates, AmendSale(b, from, to) PROVE Goal
  <2>1. PICK y : y = [sale[b] EXCEPT !.from = from, !.to = to]
    OBVIOUS
  <2>2. SamePrice(sale[b], y) /\ y.doc = sale[b].doc
    BY <1>1, <2>1 DEF SaleRow, SamePrice
  <2> QED
    BY <1>5, <1>8, <2>1, <2>2 DEF AmendSale
<1> QED
  BY <1>2, <1>3, <1>4, <1>6, <1>7, <1>8 DEF SaleOf

\* A settlement marks the stays and leaves their prices alone.
LEMMA OwedStands ==
  ASSUME RevenueTypeOK, PriceInv, NEW T, NEW st, sale' = Owed(T, st)
  PROVE  PriceInv' /\ \A c \in Sales : Stands(sale[c], sale'[c])
<1>1. ASSUME NEW c \in Sales PROVE PricedRow(sale'[c]) /\ Stands(sale[c], sale'[c])
  <2>1. PICK x : x = sale[c]
    OBVIOUS
  <2>2. PICK y : y = [x EXCEPT !.owed = st]
    OBVIOUS
  <2>3. x \in SaleRow /\ PricedRow(x)
    BY <2>1, RevenueTypes DEF PriceInv
  <2>4. SamePrice(x, y) /\ y.doc = x.doc /\ SamePrice(x, x)
    BY <2>2, <2>3 DEF SaleRow, SamePrice
  <2>5. sale'[c] = y \/ sale'[c] = x
    BY <2>1, <2>2 DEF Owed
  <2> QED
    BY <2>1, <2>3, <2>4, <2>5, SamePriceStands
<1> QED
  BY <1>1 DEF PriceInv

LEMMA PriceStep ==
  ASSUME RevenueTypeOK, PriceInv, [RevenueNext]_revenueVars
  PROVE  PriceInv' /\ \A c \in Sales : Stands(sale[c], sale'[c])
<1>1. CASE sale' = sale
  <2>1. ASSUME NEW c \in Sales PROVE Stands(sale[c], sale[c])
    BY RevenueTypes, SamePriceStands DEF SamePrice, PriceInv
  <2> QED
    BY <1>1, <2>1 DEF PriceInv
<1>2. CASE SaleNext
  BY <1>2, SaleStands DEF SaleNext
<1>3. CASE RateNext
  <2>1. sale' = sale
    BY <1>3 DEF RateNext, SetCalendar, SwitchVoucher, ExpireRateApprovals, RequestRateApproval,
                DecideRateApproval, RateApprovalAges, SetApproval
  <2> QED
    BY <1>1, <2>1
<1>4. CASE AgentNext
  <2>1. sale' = sale \/ \E T, st : sale' = Owed(T, st)
    BY <1>4 DEF AgentNext, BuildSettlement, InvoiceSettlement, SettlementIsPaid, UpdateSettlements
  <2> QED
    BY <1>1, <2>1, OwedStands
<1> QED
  BY <1>1, <1>2, <1>3, <1>4 DEF RevenueNext, revenueVars

LEMMA PriceInit == RevenueInit => PriceInv
<1>1. NoSale.doc = "none" /\ NoSale.quotes = 0
  BY DEF NoSale
<1>2. PricedRow(NoSale)
  BY <1>1 DEF PricedRow
<1>3. RevenueInit => \A b \in Sales : sale[b] = NoSale
  BY DEF RevenueInit
<1> QED
  BY <1>2, <1>3 DEF PriceInv

\* A price that has been quoted twice (_apply_revenue_quote), of a sale without a net contract, stands
\* until a person writes the form and never comes to nothing, whatever rates, vouchers, dates,
\* settlements and earlier contracts do, and whatever discounts and rates there are.
THEOREM PriceStands == RevenueSpec => PriceSettles
<1>1. ASSUME RevenueTypeOK, PriceInv, [RevenueNext]_revenueVars
      PROVE  PriceInv' /\
             [\A b \in Sales :
                sale[b].quotes = 2 /\ sale'[b].quotes # 1 /\ "net" \notin {sale[b].agent, sale'[b].agent} =>
                  /\ sale'[b].quotes = 2
                  /\ sale'[b].sum * sale[b].over = sale[b].sum * sale'[b].over]_revenueVars
  BY <1>1, PriceStep DEF Stands
<1> QED
  BY <1>1, PriceInit, RevenueTyped, PTL DEF RevenueSpec, PriceSettles

-----------------------------------------------------------------------------
(***************************************************************************)
(* Types of Counter.  A deposit is a sum of payments: as many as there     *)
(* are entries, each of at most MaxAmount; what a hook or a close has      *)
(* read is such a sum too.                                                 *)
(***************************************************************************)
Amounts == 0 .. MaxAmount

Payment == [kind : Kinds, amount : Amounts, shift : Shifts \cup {NoShift}, stay : Stays,
            state : {"none", "Draft", "Submitted", "Cancelled"}]

Drawers == [status : ShiftStatus, expected : Cash, counted : Cash, posClosed : BOOLEAN, stamp : 0 .. MaxRowStamp]

Deposits == [status : {"Confirmed", "Cancelled", "No Show"}, received : Nat, refunded : Nat,
             fee : Nat, refundDue : Nat, documents : SUBSET {"desk", "job"}]

CorrectionForm == [payment : Entries, amount : Amounts, action : {"Delete Draft", "Create Refund", "Manual Review"},
                   status : {"none", "Pending Approval", "Approved", "Executed", "Cancelled"}]

Hook(h) == h.on => /\ h.new \in Payment /\ h.expected \in Cash
                   /\ h.received \in Nat /\ h.refunded \in Nat

LedgerRow == [charges : Amounts, drafts : Nat, exposure : Nat, request : {"none", "Draft", "Submitted", "Cancelled"}]

Credit == /\ approval \in [Approvals -> [amount : Amounts, status : {"none", "Pending", "Approved"}]]
          /\ ledger \in LedgerRow

\* The types, with what the hooks and closes will write.
CounterTyped ==
  /\ entry \in [Entries -> Payment] /\ DOMAIN hook = Entries /\ \A e \in Entries : Hook(hook[e])
  /\ shift \in [Shifts -> Drawers] /\ DOMAIN closer = Shifts
  /\ \A s \in Shifts : closer[s].on => closer[s].expected \in Cash
  /\ resv \in [Stays -> Deposits] /\ correction \in [Corrections -> CorrectionForm] /\ Credit

LEMMA CounterTypes == CounterTyped => CounterTypeOK
<1> SUFFICES ASSUME CounterTyped PROVE CounterTypeOK
  OBVIOUS
<1>1. ASSUME NEW e \in Entries
      PROVE  /\ entry[e].kind \in Kinds /\ entry[e].amount \in 0 .. MaxAmount /\ entry[e].stay \in Stays
             /\ entry[e].shift \in Shifts \cup {NoShift}
             /\ entry[e].state \in {"none", "Draft", "Submitted", "Cancelled"}
             /\ hook[e].on => hook[e].expected \in Cash /\ hook[e].received \in Nat /\ hook[e].refunded \in Nat
  BY DEF CounterTyped, Payment, Amounts, Hook
<1> QED
  BY <1>1 DEF CounterTypeOK, CounterTyped, Credit, LedgerRow, Drawers, ShiftStatus, Deposits, CorrectionForm, Amounts

-----------------------------------------------------------------------------
(* Sums of payments. *)

Most == MaxAmount * Cardinality(Entries)

LEMMA MostIsNat == /\ Most \in Nat /\ Cash = (- Most) .. Most /\ 0 \in Cash /\ Cash \subseteq Int
                   /\ MaxAmount \in Nat /\ \A i, j \in 0 .. Most : i - j \in Cash
<1>1. MaxAmount \in Nat /\ Cardinality(Entries) \in Nat
  BY CounterAssumption, FS_CardinalityType
<1>2. Most \in Nat
  BY <1>1 DEF Most
<1>3. (- MaxAmount) * Cardinality(Entries) = - Most
  BY <1>1 DEF Most
<1>4. Cash = (- Most) .. Most
  BY <1>3 DEF Cash, Most
<1> HIDE DEF Most
<1> QED
  BY <1>1, <1>2, <1>4

LEMMA SumOfPayments ==
  ASSUME NEW E \in [Entries -> Payment], NEW S \in SUBSET Entries PROVE Sum(E, S) \in 0 .. Most
<1> DEFINE V == [e \in Entries |-> E[e].amount]
<1>1. IsFiniteSet(S) /\ Cardinality(S) <= Cardinality(Entries) /\ IsFiniteSet(Entries)
  BY FS_Subset, CounterAssumption
<1>2. \A e \in S : V[e] \in 0 .. MaxAmount
  BY DEF Payment, Amounts
<1> HIDE DEF V
<1>3. SumFunctionOnSet(V, S) \in 0 .. MaxAmount * Cardinality(S)
  BY <1>1, <1>2, MostIsNat, SumWithin
<1>4. MaxAmount * Cardinality(S) <= Most
  BY <1>1, MostIsNat, FS_CardinalityType DEF Most
<1>5. Most \in Nat /\ MaxAmount * Cardinality(S) \in Nat
  BY <1>1, MostIsNat, FS_CardinalityType
<1>6. SumFunctionOnSet(V, S) \in 0 .. Most
  BY <1>3, <1>4, <1>5
<1> QED
  BY <1>6 DEF Sum, V

LEMMA SumsAreCash ==
  ASSUME NEW E \in [Entries -> Payment]
  PROVE  /\ \A s : Expected(E, s) \in Cash
         /\ \A r : Received(E, r) \in Nat /\ Refunded(E, r) \in Nat
<1>1. ASSUME NEW kinds, NEW P PROVE Sum(E, {e \in Of(E, kinds) : E[e].stay = P}) \in 0 .. Most
  <2>1. {e \in Of(E, kinds) : E[e].stay = P} \in SUBSET Entries
    BY DEF Of
  <2> QED
    BY <2>1, SumOfPayments
<1>2. ASSUME NEW kinds, NEW P PROVE Sum(E, {e \in Of(E, kinds) : E[e].shift = P}) \in 0 .. Most
  <2>1. {e \in Of(E, kinds) : E[e].shift = P} \in SUBSET Entries
    BY DEF Of
  <2> QED
    BY <2>1, SumOfPayments
<1>3. ASSUME NEW s PROVE Expected(E, s) \in Cash
  BY <1>2, MostIsNat DEF Expected
<1>4. ASSUME NEW r PROVE Received(E, r) \in Nat /\ Refunded(E, r) \in Nat
  <2>1. Received(E, r) \in 0 .. Most /\ Refunded(E, r) \in 0 .. Most
    BY <1>1 DEF Received, Refunded
  <2> QED
    BY <2>1, MostIsNat
<1> QED
  BY <1>3, <1>4

-----------------------------------------------------------------------------
(* The parts of a step. *)

MoneyVars == <<resv, correction, approval, ledger>>

\* A shift is written.
LEMMA ShiftWritten ==
  ASSUME CounterTyped, NEW s \in Shifts, NEW row \in Drawers, shift' = [shift EXCEPT ![s] = row],
         UNCHANGED <<entry, hook, closer>>, UNCHANGED MoneyVars
  PROVE  CounterTyped'
BY DEF CounterTyped, MoneyVars, Credit

LEMMA DrawerRow ==
  ASSUME NEW row \in Drawers
  PROVE  /\ \A st \in ShiftStatus : [row EXCEPT !.status = st] \in Drawers
         /\ row.stamp < MaxRowStamp => [row EXCEPT !.posClosed = TRUE, !.stamp = @ + 1] \in Drawers
         /\ \A v \in Cash, st \in ShiftStatus : row.stamp < MaxRowStamp =>
              [row EXCEPT !.status = st, !.counted = v, !.stamp = @ + 1] \in Drawers
         /\ \A n \in Cash : row.stamp < MaxRowStamp => [row EXCEPT !.expected = n, !.stamp = @ + 1] \in Drawers
         /\ \A v \in Cash : [row EXCEPT !.counted = v] \in Drawers
<1>1. row.stamp \in 0 .. MaxRowStamp /\ MaxRowStamp \in Nat
  BY CounterAssumption DEF Drawers
<1>2. row.stamp < MaxRowStamp => row.stamp + 1 \in 0 .. MaxRowStamp
  BY <1>1
<1>3. \A n \in Cash : row.stamp < MaxRowStamp => [row EXCEPT !.expected = n, !.stamp = @ + 1] \in Drawers
  BY <1>2 DEF Drawers
<1>4. \A st \in ShiftStatus : [row EXCEPT !.status = st] \in Drawers
  BY DEF Drawers
<1>5. row.stamp < MaxRowStamp => [row EXCEPT !.posClosed = TRUE, !.stamp = @ + 1] \in Drawers
  BY <1>2 DEF Drawers
<1>6. \A v \in Cash : [row EXCEPT !.counted = v] \in Drawers
  BY DEF Drawers
<1>7. \A v \in Cash, st \in ShiftStatus : row.stamp < MaxRowStamp =>
        [row EXCEPT !.status = st, !.counted = v, !.stamp = @ + 1] \in Drawers
  BY <1>2 DEF Drawers
<1> QED
  BY <1>3, <1>4, <1>5, <1>6, <1>7

LEMMA DrawerOf ==
  ASSUME shift \in [Shifts -> Drawers], NEW s \in Shifts, NEW n \in Cash, shift[s].stamp < MaxRowStamp
  PROVE  Drawer(s, n) \in [Shifts -> Drawers]
<1>1. PICK row : row = [shift[s] EXCEPT !.expected = n, !.stamp = @ + 1]
  OBVIOUS
<1>2. row \in Drawers
  BY <1>1, DrawerRow
<1>3. Drawer(s, n) = [shift EXCEPT ![s] = row]
  BY <1>1 DEF Drawer, Drawers
<1> QED
  BY <1>2, <1>3

LEMMA ShiftTyped ==
  ASSUME CounterTyped, ShiftNext PROVE CounterTyped'
<1>0. /\ entry \in [Entries -> Payment] /\ shift \in [Shifts -> Drawers] /\ DOMAIN closer = Shifts
      /\ \A s \in Shifts : closer[s].on => closer[s].expected \in Cash
  BY DEF CounterTyped
<1>1. PICK s \in Shifts :
        \/ OpenCashierShift(s) \/ PosSessionCloses(s) \/ ShowSummary(s) \/ LoadClose(s) \/ CloseFails(s)
        \/ \E counted \in Cash, reason, manager \in BOOLEAN : CommitClose(s, counted, reason, manager)
        \/ \E status \in ShiftStatuses, counted \in Cash : SaveShiftForm(s, status, counted)
  BY Zenon DEF ShiftNext
<1>2. CASE OpenCashierShift(s)
  <2>1. [shift[s] EXCEPT !.status = "Open"] \in Drawers
    BY <1>0, DrawerRow DEF ShiftStatus, ShiftStatuses
  <2> QED
    BY <1>2, <2>1, ShiftWritten DEF OpenCashierShift, MoneyVars
<1>3. CASE PosSessionCloses(s)
  <2>1. [shift[s] EXCEPT !.posClosed = TRUE, !.stamp = @ + 1] \in Drawers
    BY <1>0, <1>3, DrawerRow DEF PosSessionCloses
  <2> QED
    BY <1>3, <2>1, ShiftWritten DEF PosSessionCloses, MoneyVars
<1>4. ASSUME shift' \in [Shifts -> Drawers], UNCHANGED <<entry, hook>>, UNCHANGED MoneyVars,
             DOMAIN closer' = Shifts, \A t \in Shifts : closer'[t].on => closer'[t].expected \in Cash
      PROVE  CounterTyped'
  BY <1>4 DEF CounterTyped, MoneyVars, Credit
<1>5. CASE ShowSummary(s)
  <2>1. shift' \in [Shifts -> Drawers]
    BY <1>0, <1>5, DrawerOf, SumsAreCash DEF ShowSummary
  <2> QED
    BY <1>0, <1>4, <1>5, <2>1 DEF ShowSummary, MoneyVars
<1>6. CASE LoadClose(s)
  <2>1. PICK n \in Cash : n = Expected(entry, s)
    BY <1>0, SumsAreCash
  <2>2. closer' = [closer EXCEPT ![s] = [on |-> TRUE, stamp |-> shift[s].stamp, expected |-> n]]
        /\ UNCHANGED <<entry, hook, shift>> /\ UNCHANGED MoneyVars
    BY <1>6, <2>1 DEF LoadClose, MoneyVars
  <2>3. \A t \in Shifts : closer'[t].on => closer'[t].expected \in Cash
    BY <1>0, <2>2
  <2> QED
    BY <1>0, <1>4, <2>2, <2>3
<1>7. CASE CloseFails(s)
  <2>1. closer' = [closer EXCEPT ![s] = [on |-> FALSE]]
        /\ UNCHANGED <<entry, hook, shift>> /\ UNCHANGED MoneyVars
    BY <1>7 DEF CloseFails, MoneyVars
  <2> QED
    BY <1>0, <1>4, <2>1
<1>8. ASSUME NEW counted \in Cash, NEW reason, NEW manager, CommitClose(s, counted, reason, manager)
      PROVE  CounterTyped'
  <2>1. /\ closer' = [closer EXCEPT ![s] = [on |-> FALSE]] /\ UNCHANGED <<entry, hook>> /\ UNCHANGED MoneyVars
        /\ shift[s].stamp < MaxRowStamp /\ closer[s].on
    BY <1>8 DEF CommitClose, CloseAs, MoneyVars
  <2>2. closer[s].expected \in Cash
    BY <1>0, <2>1
  <2>3. PICK st \in ShiftStatus :
          shift' = [Drawer(s, closer[s].expected) EXCEPT ![s].counted = counted, ![s].status = st]
    <3> DEFINE v == counted - closer[s].expected
               st == IF \/ Threshold > 0 /\ (IF v < 0 THEN - v ELSE v) > Threshold /\ ~ manager
                        \/ s \in PosShifts /\ ~ shift[s].posClosed
                     THEN "Closing Review" ELSE "Closed"
    <3>1. shift' = [Drawer(s, closer[s].expected) EXCEPT ![s].counted = counted, ![s].status = st]
      BY <1>8, Zenon DEF CommitClose, CloseAs
    <3>2. st \in ShiftStatus
      BY DEF ShiftStatus, ShiftStatuses
    <3> HIDE DEF v, st
    <3> QED
      BY <3>1, <3>2
  <2>4. PICK d : d = Drawer(s, closer[s].expected)
    OBVIOUS
  <2>5. d \in [Shifts -> Drawers]
    BY <1>0, <2>1, <2>2, <2>4, DrawerOf
  <2>6. PICK row : row = [[d[s] EXCEPT !.counted = counted] EXCEPT !.status = st]
    OBVIOUS
  <2>7. row \in Drawers
    BY <2>5, <2>6, DrawerRow
  <2>8. shift' = [d EXCEPT ![s] = row]
    <3>1. d[s] \in Drawers
      BY <2>5
    <3> QED
      BY <2>3, <2>4, <2>5, <2>6, <3>1 DEF Drawers
  <2>9. shift' \in [Shifts -> Drawers]
    BY <2>5, <2>7, <2>8
  <2> QED
    BY <1>0, <1>4, <2>1, <2>9
<1>9. ASSUME NEW status \in ShiftStatuses, NEW counted \in Cash, SaveShiftForm(s, status, counted)
      PROVE  CounterTyped'
  <2>1. shift[s].stamp < MaxRowStamp /\ status \in ShiftStatus
    BY <1>9 DEF SaveShiftForm, ShiftStatus
  <2>2. [shift[s] EXCEPT !.status = status, !.counted = counted, !.stamp = @ + 1] \in Drawers
    BY <1>0, <2>1, DrawerRow
  <2>3. /\ shift' = [shift EXCEPT ![s] = [shift[s] EXCEPT !.status = status, !.counted = counted, !.stamp = @ + 1]]
        /\ UNCHANGED <<entry, hook, closer>> /\ UNCHANGED MoneyVars
    BY <1>0, <1>9 DEF SaveShiftForm, MoneyVars
  <2> QED
    BY <2>2, <2>3, ShiftWritten
<1> QED
  BY <1>1, <1>2, <1>3, <1>5, <1>6, <1>7, <1>8, <1>9, Zenon

LEMMA RefreshTyped ==
  ASSUME resv \in [Stays -> Deposits], NEW r \in Stays, NEW n \in Nat, NEW m \in Nat
  PROVE  Refreshed(r, n, m) \in [Stays -> Deposits]
BY DEF Refreshed, Deposits

\* An entry and the totals of its reservation are written.
LEMMA EntryWritten ==
  ASSUME CounterTyped, NEW e \in Entries, NEW row \in Payment, entry' = [entry EXCEPT ![e] = row],
         resv' \in [Stays -> Deposits], correction' \in [Corrections -> CorrectionForm],
         UNCHANGED <<hook, shift, closer, approval, ledger>>
  PROVE  CounterTyped'
BY DEF CounterTyped, Credit

LEMMA DraftTyped ==
  ASSUME CounterTyped, NEW e \in Entries, NEW kind \in Kinds, NEW r \in Stays,
         NEW s \in Shifts \cup {NoShift}, NEW n \in Amounts, Draft(e, kind, r, s, n),
         correction' \in [Corrections -> CorrectionForm],
         UNCHANGED <<hook, shift, closer, approval, ledger>>
  PROVE  CounterTyped'
<1>1. PICK row : row = [kind |-> kind, amount |-> n, shift |-> s, stay |-> r, state |-> "Draft"]
  OBVIOUS
<1>2. row \in Payment
  BY <1>1 DEF Payment
<1>3. Received(entry, r) \in Nat /\ Refunded(entry, r) \in Nat
  BY SumsAreCash DEF CounterTyped
<1>4. resv' \in [Stays -> Deposits]
  BY <1>3, RefreshTyped DEF Draft, CounterTyped
<1>5. entry' = [entry EXCEPT ![e] = row]
  BY <1>1 DEF Draft
<1> QED
  BY <1>2, <1>4, <1>5, EntryWritten

LEMMA AmountsTyped == 1 .. MaxAmount \subseteq Amounts
BY MostIsNat DEF Amounts

LEMMA PaymentTyped ==
  ASSUME CounterTyped, NEW e \in Entries, NEW r \in Stays, NEW s \in Shifts \cup {NoShift}, NEW n \in 1 .. MaxAmount,
         CreateDeposit(e, r, s, n) \/ CreateRefund(e, r, s, n) \/ DraftSale(e, s, n)
  PROVE  CounterTyped'
<1>0. n \in Amounts /\ {"Deposit", "Refund", "Sale"} \subseteq Kinds /\ correction \in [Corrections -> CorrectionForm]
  BY AmountsTyped DEF CounterTyped, Kinds
<1>1. CASE CreateDeposit(e, r, s, n)
  BY <1>0, <1>1, DraftTyped DEF CreateDeposit
<1>2. CASE CreateRefund(e, r, s, n)
  BY <1>0, <1>2, DraftTyped DEF CreateRefund
<1>3. CASE DraftSale(e, s, n)
  <2>1. [entry[e] EXCEPT !.kind = "Sale", !.amount = n, !.shift = s, !.state = "Draft"] \in Payment
    <3>1. entry[e] \in Payment
      BY DEF CounterTyped
    <3> QED
      BY <1>0, <3>1 DEF Payment
  <2>2. /\ entry' = [entry EXCEPT ![e] = [entry[e] EXCEPT !.kind = "Sale", !.amount = n, !.shift = s, !.state = "Draft"]]
        /\ UNCHANGED <<hook, shift, closer, resv, correction, approval, ledger>>
    BY <1>3 DEF DraftSale, CounterTyped
  <2>3. resv' \in [Stays -> Deposits] /\ correction' \in [Corrections -> CorrectionForm]
    BY <2>2 DEF CounterTyped
  <2> QED
    BY <2>1, <2>2, <2>3, EntryWritten
<1> QED
  BY <1>1, <1>2, <1>3

LEMMA LoadHookTyped ==
  ASSUME CounterTyped, NEW e \in Entries, NEW new \in Payment, LoadHook(e, new),
         UNCHANGED <<entry, shift, closer, resv, correction, approval, ledger>>
  PROVE  CounterTyped'
<1>1. PICK E : E = [entry EXCEPT ![e] = new]
  OBVIOUS
<1>2. E \in [Entries -> Payment]
  BY <1>1 DEF CounterTyped
<1>3. PICK h : h = [on |-> TRUE, new |-> new, expected |-> IF new.shift = NoShift THEN 0 ELSE Expected(E, new.shift),
                    received |-> Received(E, new.stay), refunded |-> Refunded(E, new.stay)]
  OBVIOUS
<1>4. h.new = new /\ h.expected \in Cash /\ h.received \in Nat /\ h.refunded \in Nat
  <2>1. Expected(E, new.shift) \in Cash /\ Received(E, new.stay) \in Nat /\ Refunded(E, new.stay) \in Nat
    BY <1>2, SumsAreCash
  <2> QED
    BY <1>3, <2>1, MostIsNat
<1>5. Hook(h)
  BY <1>4 DEF Hook
<1>6. hook' = [hook EXCEPT ![e] = h]
  BY <1>1, <1>3 DEF LoadHook
<1>7. DOMAIN hook' = Entries /\ \A d \in Entries : Hook(hook'[d])
  BY <1>5, <1>6 DEF CounterTyped
<1> QED
  BY <1>7 DEF CounterTyped, Credit

LEMMA CommitHookTyped ==
  ASSUME CounterTyped, NEW e \in Entries, CommitHook(e) PROVE CounterTyped'
<1>1. PICK h : h = hook[e]
  OBVIOUS
<1>2. h.on /\ h.new \in Payment /\ h.expected \in Cash /\ h.received \in Nat /\ h.refunded \in Nat
  BY <1>1 DEF CommitHook, CounterTyped, Hook
<1>3. h.new.shift \in Shifts \cup {NoShift} /\ h.new.stay \in Stays
  BY <1>2 DEF Payment
<1>4. /\ entry' = [entry EXCEPT ![e] = h.new] /\ hook' = [hook EXCEPT ![e] = [on |-> FALSE]]
      /\ UNCHANGED <<closer, correction, approval, ledger>>
      /\ h.new.shift # NoShift => shift[h.new.shift].stamp < MaxRowStamp
      /\ shift' = IF h.new.shift = NoShift THEN shift ELSE Drawer(h.new.shift, h.expected)
      /\ resv' = IF h.new.kind \in {"Deposit", "Refund"} THEN Refreshed(h.new.stay, h.received, h.refunded) ELSE resv
  BY <1>1, Zenon DEF CommitHook
<1>5. shift' \in [Shifts -> Drawers]
  <2>1. shift \in [Shifts -> Drawers]
    BY DEF CounterTyped
  <2>2. CASE h.new.shift = NoShift
    BY <1>4, <2>1, <2>2
  <2>3. CASE h.new.shift # NoShift
    <3>1. shift' = Drawer(h.new.shift, h.expected) /\ h.new.shift \in Shifts
      BY <1>3, <1>4, <2>3
    <3> QED
      BY <1>2, <1>4, <2>1, <2>3, <3>1, DrawerOf
  <2> QED
    BY <2>2, <2>3
<1>6. resv' \in [Stays -> Deposits]
  <2>1. resv \in [Stays -> Deposits]
    BY DEF CounterTyped
  <2> QED
    BY <1>2, <1>3, <1>4, <2>1, RefreshTyped
<1>7. entry' \in [Entries -> Payment]
  BY <1>2, <1>4 DEF CounterTyped
<1>8. DOMAIN hook' = Entries /\ \A d \in Entries : Hook(hook'[d])
  BY <1>4 DEF CounterTyped, Hook
<1> QED
  BY <1>4, <1>5, <1>6, <1>7, <1>8 DEF CounterTyped, Credit

\* The form of a movement.
LEMMA MovementTyped ==
  ASSUME CounterTyped, NEW e \in Entries, NEW row \in Payment, entry' = [entry EXCEPT ![e] = row],
         UNCHANGED <<hook, shift, closer, resv, correction, approval, ledger>>
  PROVE  CounterTyped'
BY DEF CounterTyped, Credit

LEMMA EntryTyped ==
  ASSUME CounterTyped, EntryNext PROVE CounterTyped'
<1>1. PICK e \in Entries :
        \/ \E r \in Stays, s \in Shifts \cup {NoShift}, n \in 1 .. MaxAmount :
             CreateDeposit(e, r, s, n) \/ CreateRefund(e, r, s, n) \/ DraftSale(e, s, n)
        \/ \E s \in Shifts, n \in 1 .. MaxAmount, k \in Movements :
             RecordMovement(e, k, s, n) \/ EnterMovement(e, k, s, n)
        \/ SubmitEntry(e) \/ CancelEntry(e) \/ CancelMovement(e) \/ CommitHook(e)
  BY Zenon DEF EntryNext
<1>2. entry[e] \in Payment
  BY DEF CounterTyped
<1>3. \A st \in {"Submitted", "Cancelled"} : [entry[e] EXCEPT !.state = st] \in Payment
  BY <1>2 DEF Payment
<1>4. ASSUME NEW r \in Stays, NEW s \in Shifts \cup {NoShift}, NEW n \in 1 .. MaxAmount,
             CreateDeposit(e, r, s, n) \/ CreateRefund(e, r, s, n) \/ DraftSale(e, s, n)
      PROVE  CounterTyped'
  BY <1>4, PaymentTyped
<1>5. ASSUME NEW s \in Shifts, NEW n \in 1 .. MaxAmount, NEW k \in Movements,
             RecordMovement(e, k, s, n) \/ EnterMovement(e, k, s, n)
      PROVE  CounterTyped'
  <2>1. n \in Amounts /\ k \in Kinds
    BY AmountsTyped DEF Kinds, Movements
  <2>2. [entry[e] EXCEPT !.kind = k, !.amount = n, !.shift = s, !.state = "Submitted"] \in Payment
    BY <1>2, <2>1 DEF Payment
  <2>3. CASE RecordMovement(e, k, s, n)
    BY <2>2, <2>3, LoadHookTyped DEF RecordMovement
  <2>4. CASE EnterMovement(e, k, s, n)
    BY <1>2, <2>2, <2>4, MovementTyped DEF EnterMovement
  <2> QED
    BY <1>5, <2>3, <2>4
<1>6. CASE SubmitEntry(e)
  BY <1>3, <1>6, LoadHookTyped DEF SubmitEntry
<1>7. CASE CancelEntry(e)
  BY <1>3, <1>7, LoadHookTyped DEF CancelEntry
<1>8. CASE CancelMovement(e)
  BY <1>2, <1>3, <1>8, MovementTyped DEF CancelMovement
<1> QED
  BY <1>1, <1>4, <1>5, <1>6, <1>7, <1>8, CommitHookTyped, Zenon

-----------------------------------------------------------------------------
(* Cancellations, corrections and credit. *)

LEMMA RefundableTyped ==
  ASSUME CounterTyped, NEW r \in Stays, NEW fee \in Nat PROVE Refundable(r, fee) \in Nat
<1>1. Received(entry, r) \in Nat /\ Refunded(entry, r) \in Nat
  BY SumsAreCash DEF CounterTyped
<1>2. NetDeposit(r) \in Int
  BY <1>1 DEF NetDeposit
<1> QED
  BY <1>2 DEF Refundable

\* A cancellation or a no-show writes its reservation.
LEMMA EndedTyped ==
  ASSUME CounterTyped, NEW r \in Stays, NEW status \in {"Cancelled", "No Show"}, NEW fee \in Nat,
         NEW by \in {"desk", "job"}
  PROVE  Ended(r, status, fee, by) \in [Stays -> Deposits]
<1>1. resv \in [Stays -> Deposits]
  BY DEF CounterTyped
<1>2. PICK due : due = Refundable(r, fee)
  OBVIOUS
<1>3. due \in Nat
  BY <1>2, RefundableTyped
<1>4. Ended(r, status, fee, by) = [resv EXCEPT ![r] = [resv[r] EXCEPT !.status = status, !.fee = fee,
                                     !.documents = @ \cup {by}, !.refundDue = due]]
  BY <1>1, <1>2, Zenon DEF Ended, Deposits
<1>5. [resv[r] EXCEPT !.status = status, !.fee = fee, !.documents = @ \cup {by}, !.refundDue = due] \in Deposits
  <2>1. resv[r] \in Deposits
    BY <1>1
  <2>2. resv[r].documents \cup {by} \in SUBSET {"desk", "job"}
    BY <2>1 DEF Deposits
  <2> QED
    BY <1>3, <2>1, <2>2 DEF Deposits
<1> QED
  BY <1>1, <1>4, <1>5

LEMMA CancelTyped ==
  ASSUME CounterTyped, CancelNext PROVE CounterTyped'
<1>1. PICK r \in Stays :
        \/ \E status \in {"Cancelled", "No Show"}, late, waived \in BOOLEAN : ProcessCancellation(r, status, late, waived)
        \/ NoShowJob(r) \/ NoShowJobFails(r)
  BY DEF CancelNext
<1>2. FeeDue \in Nat
  BY CounterAssumption
<1>3. resv' \in [Stays -> Deposits]
  <2>1. ASSUME NEW status \in {"Cancelled", "No Show"}, NEW late \in BOOLEAN, NEW waived \in BOOLEAN,
               ProcessCancellation(r, status, late, waived)
        PROVE  resv' \in [Stays -> Deposits]
    BY <1>2, <2>1, EndedTyped DEF ProcessCancellation
  <2>2. CASE NoShowJob(r)
    BY <1>2, <2>2, EndedTyped DEF NoShowJob
  <2>3. CASE NoShowJobFails(r)
    BY <2>3 DEF NoShowJobFails, CounterTyped, Deposits
  <2> QED
    BY <1>1, <2>1, <2>2, <2>3
<1>4. UNCHANGED <<entry, hook, shift, closer, correction, approval, ledger>>
  BY <1>1 DEF ProcessCancellation, NoShowJob, NoShowJobFails
<1> QED
  BY <1>3, <1>4 DEF CounterTyped, Credit

LEMMA CorrectionTyped ==
  ASSUME CounterTyped, CorrectionNext PROVE CounterTyped'
<1>1. PICK c \in Corrections :
        \/ \E e \in Entries, n \in 1 .. MaxAmount, act \in {"Delete Draft", "Create Refund", "Manual Review"} :
             RequestCorrection(c, e, act, n)
        \/ ApproveCorrection(c) \/ RejectCorrection(c) \/ \E e \in Entries : ExecuteCorrection(c, e)
  BY Zenon DEF CorrectionNext
<1>2. entry \in [Entries -> Payment] /\ correction \in [Corrections -> CorrectionForm]
  BY DEF CounterTyped
<1>3. \A st \in {"Approved", "Executed", "Cancelled"} :
        [correction EXCEPT ![c].status = st] \in [Corrections -> CorrectionForm]
  BY <1>2 DEF CorrectionForm
<1>4. ASSUME correction' \in [Corrections -> CorrectionForm],
             UNCHANGED <<entry, hook, shift, closer, resv, approval, ledger>>
      PROVE  CounterTyped'
  BY <1>4 DEF CounterTyped, Credit
<1>5. ASSUME NEW e \in Entries, NEW n \in 1 .. MaxAmount, NEW act \in {"Delete Draft", "Create Refund", "Manual Review"},
             RequestCorrection(c, e, act, n)
      PROVE  CounterTyped'
  <2>1. PICK k : k = [payment |-> e, action |-> act, amount |-> n, status |-> "Pending Approval"]
    OBVIOUS
  <2>2. k \in CorrectionForm
    BY <2>1, AmountsTyped DEF CorrectionForm
  <2>3. correction' = [correction EXCEPT ![c] = k]
    BY <1>5, <2>1, Zenon DEF RequestCorrection
  <2> QED
    BY <1>2, <1>4, <1>5, <2>2, <2>3 DEF RequestCorrection
<1>6. CASE ApproveCorrection(c)
  BY <1>3, <1>4, <1>6 DEF ApproveCorrection
<1>7. CASE RejectCorrection(c)
  BY <1>3, <1>4, <1>7 DEF RejectCorrection
<1>8. ASSUME NEW e \in Entries, ExecuteCorrection(c, e) PROVE CounterTyped'
  <2>1. PICK k : k = correction[c]
    OBVIOUS
  <2>2. k \in CorrectionForm /\ k.payment \in Entries /\ k.amount \in Amounts
    BY <1>2, <2>1 DEF CorrectionForm
  <2>3. PICK r : r = entry[k.payment].stay
    OBVIOUS
  <2>4. r \in Stays
    BY <1>2, <2>2, <2>3 DEF Payment
  <2>5. PICK s \in Shifts \cup {NoShift} : Draft(e, "Refund", r, s, k.amount)
    BY <1>8, <2>1, <2>3, Zenon DEF ExecuteCorrection
  <2>6. correction' \in [Corrections -> CorrectionForm] /\ UNCHANGED <<hook, shift, closer, approval, ledger>>
    BY <1>3, <1>8 DEF ExecuteCorrection
  <2>7. "Refund" \in Kinds
    BY DEF Kinds
  <2> QED
    BY <2>2, <2>4, <2>5, <2>6, <2>7, DraftTyped
<1> QED
  BY <1>1, <1>5, <1>6, <1>7, <1>8, Zenon

LEMMA LedgerTyped ==
  ASSUME CounterTyped, LedgerNext PROVE CounterTyped'
<1>0. Credit
  BY DEF CounterTyped
<1>1. ASSUME UNCHANGED <<entry, hook, shift, closer, resv, correction>>, Credit' PROVE CounterTyped'
  BY <1>1 DEF CounterTyped
<1>2. UNCHANGED <<entry, hook, shift, closer, resv, correction>>
  BY DEF LedgerNext, RequestDirectBill, ApproveDirectBill, ChargeLedger, InvoiceLedger, SubmitLedgerInvoice,
         PayLedgerInvoice, RequestPayment, CancelPaymentRequest
<1>3. ASSUME NEW a \in Approvals, NEW n \in 1 .. MaxAmount, RequestDirectBill(a, n) \/ ApproveDirectBill(a, n)
      PROVE  Credit'
  <2>1. n \in Amounts
    BY AmountsTyped
  <2> QED
    BY <1>0, <1>3, <2>1 DEF Credit, RequestDirectBill, ApproveDirectBill
<1>4. PICK l : l = ledger
  OBVIOUS
<1>5. l \in LedgerRow /\ l.charges \in Nat /\ l.drafts \in Nat /\ l.exposure \in Nat
  <2>1. l \in LedgerRow
    BY <1>0, <1>4 DEF Credit
  <2> QED
    BY <2>1 DEF LedgerRow, Amounts
<1>6. ASSUME ledger' \in LedgerRow, approval' = approval PROVE Credit'
  BY <1>0, <1>6 DEF Credit
<1>7. ASSUME NEW n \in 1 .. MaxAmount, ChargeLedger(n) PROVE Credit'
  <2>1. n \in Nat /\ l.charges + n <= MaxAmount /\ ledger' = [l EXCEPT !.charges = l.charges + n] /\ approval' = approval
    BY <1>4, <1>7, MostIsNat DEF ChargeLedger
  <2>2. l.charges + n \in Amounts
    BY <1>5, <2>1, MostIsNat DEF Amounts
  <2> QED
    BY <1>5, <1>6, <2>1, <2>2 DEF LedgerRow
<1>8. CASE InvoiceLedger
  <2>1. ledger' = [l EXCEPT !.drafts = l.charges, !.charges = 0] /\ approval' = approval
    BY <1>4, <1>8 DEF InvoiceLedger
  <2>2. 0 \in Amounts
    BY MostIsNat DEF Amounts
  <2>3. ledger' \in LedgerRow
    BY <1>5, <2>1, <2>2 DEF LedgerRow
  <2> QED
    BY <1>1, <1>2, <1>6, <2>1, <2>3
<1>9. CASE SubmitLedgerInvoice
  <2>1. ledger' = [l EXCEPT !.exposure = l.exposure + l.drafts, !.drafts = 0] /\ approval' = approval
    BY <1>4, <1>9 DEF SubmitLedgerInvoice
  <2>2. l.exposure + l.drafts \in Nat
    BY <1>5
  <2>3. ledger' \in LedgerRow
    BY <1>5, <2>1, <2>2 DEF LedgerRow
  <2> QED
    BY <1>1, <1>2, <1>6, <2>1, <2>3
<1>10. CASE PayLedgerInvoice
  <2>1. ledger' = [l EXCEPT !.exposure = 0] /\ approval' = approval
    BY <1>4, <1>10 DEF PayLedgerInvoice
  <2>2. ledger' \in LedgerRow
    BY <1>5, <2>1 DEF LedgerRow
  <2> QED
    BY <1>1, <1>2, <1>6, <2>1, <2>2
<1>11. ASSUME NEW st \in {"Draft", "Submitted", "Cancelled"}, ledger' = [l EXCEPT !.request = st], approval' = approval
       PROVE  Credit'
  <2>1. ledger' \in LedgerRow
    BY <1>5, <1>11 DEF LedgerRow
  <2> QED
    BY <1>6, <1>11, <2>1
<1>12. ASSUME NEW submit \in BOOLEAN, RequestPayment(submit) PROVE Credit'
  BY <1>4, <1>11, <1>12 DEF RequestPayment
<1>13. CASE CancelPaymentRequest
  BY <1>1, <1>2, <1>4, <1>11, <1>13 DEF CancelPaymentRequest
<1> QED
  BY <1>1, <1>2, <1>3, <1>7, <1>8, <1>9, <1>10, <1>12, <1>13 DEF LedgerNext

LEMMA CounterTypedInit == CounterInit => CounterTyped
<1> SUFFICES ASSUME CounterInit PROVE CounterTyped
  OBVIOUS
<1>1. Unset \in Payment
  <2>1. (CHOOSE r \in Stays : TRUE) \in Stays /\ 0 \in Amounts
    BY CounterAssumption, MostIsNat DEF Amounts
  <2> QED
    BY <2>1 DEF Unset, Payment, Kinds
<1>2. entry \in [Entries -> Payment] /\ DOMAIN hook = Entries /\ \A e \in Entries : Hook(hook[e])
  BY <1>1 DEF CounterInit, Hook
<1>3. shift \in [Shifts -> Drawers] /\ DOMAIN closer = Shifts /\ \A s \in Shifts : ~ closer[s].on
  <2>1. 0 \in Cash /\ 0 \in 0 .. MaxRowStamp
    BY MostIsNat, CounterAssumption
  <2>2. [status |-> "none", expected |-> 0, counted |-> 0, posClosed |-> FALSE, stamp |-> 0] \in Drawers
    BY <2>1 DEF Drawers, ShiftStatus
  <2> QED
    BY <2>2 DEF CounterInit
<1>4. resv \in [Stays -> Deposits]
  BY DEF CounterInit, Deposits
<1>5. correction \in [Corrections -> CorrectionForm]
  <2>1. PICK e : e = CHOOSE d \in Entries : TRUE
    OBVIOUS
  <2>2. e \in Entries /\ 0 \in Amounts
    BY <2>1, CounterAssumption, MostIsNat DEF Amounts
  <2>3. correction = [c \in Corrections |-> [payment |-> e, amount |-> 0, action |-> "Manual Review", status |-> "none"]]
    BY <2>1 DEF CounterInit
  <2> QED
    BY <2>2, <2>3 DEF CorrectionForm
<1>6. Credit
  <2>1. 0 \in Amounts
    BY MostIsNat DEF Amounts
  <2> QED
    BY <2>1 DEF CounterInit, Credit, LedgerRow
<1> QED
  BY <1>2, <1>3, <1>4, <1>5, <1>6 DEF CounterTyped

LEMMA CounterTypedStep ==
  ASSUME CounterTyped, [CounterNext]_counterVars PROVE CounterTyped'
<1>1. CASE UNCHANGED counterVars
  BY <1>1 DEF counterVars, CounterTyped, Credit
<1> QED
  BY <1>1, ShiftTyped, EntryTyped, CancelTyped, CorrectionTyped, LedgerTyped DEF CounterNext

LEMMA CounterIsTyped == CounterSpec => []CounterTypeOK
<1> QED
  BY CounterTypedInit, CounterTypedStep, CounterTypes, PTL DEF CounterSpec

-----------------------------------------------------------------------------
(***************************************************************************)
(* Types of GroupEvents.  A row of the schedule that is there has a name   *)
(* (Row), so that what a run or a regeneration has read are names of       *)
(* rows.                                                                   *)
(***************************************************************************)
Numbered == 0 .. Cardinality(Rooms)

GroupForm == [doc : {"none", "Draft", "Submitted", "Cancelled"},
              status : {"Inquiry", "Tentative", "Confirmed", "Event Active", "Closed", "Cancelled"},
              hold : BOOLEAN, cutoff : BOOLEAN, block : {"Active", "Consumed", "Released"},
              size : Numbered, assigned : Numbered,
              room : [Guests -> Rooms \cup {NoRoom}], linked : SUBSET Guests,
              slot : Slots \cup {NoSlot}, routes : Routings,
              first : 0 .. LastDate, last : 0 .. LastDate]

StayRows == [Rooms -> {"none", "Confirmed", "Checked In", "Cancelled"}]
StaysTyped == stay \in [Groups \cup {Individual} -> StayRows]

PapersTyped == paper \in [Groups -> SUBSET {"Quotation", "Sales Order"}]

BeoStatus == {"Draft", "Issued", "Superseded", "Cancelled"}
Revisions == [revision : Seq(BeoStatus), current : Nat]
BeosTyped == /\ beo \in [Groups -> Revisions]
             /\ \A g \in Groups : beo[g].current <= Len(beo[g].revision) /\ Len(beo[g].revision) <= MaxBeo

\* A row that is there has a name.
Row == {row \in [name : 0 .. MaxName, status : Unposted \cup {"none", "Posted", "Cancelled"}] :
          row.status # "none" => row.name >= 1}
RowsOk == posting \in [Groups -> [Services -> Row]]

ChargedFolio == [exists : BOOLEAN, stamp : 0 .. MaxStamp, charged : [Services -> Parts],
                 invoiced : SUBSET (Services \X {1, 2})]

Named == Services \X (1 .. MaxName)

Run(p) == p.on => /\ p.group \in Groups /\ p.stamp \in 0 .. MaxStamp /\ p.due \subseteq Named
                  /\ p.routes \in Routings /\ p.charged \in [Services -> Parts]

Replacing(r) == r.on => r.names \subseteq Named /\ r.services \subseteq Services

RunsTyped == /\ DOMAIN poster = Workers /\ DOMAIN regen = Groups
             /\ \A w \in Workers : Run(poster[w])
             /\ \A g \in Groups : Replacing(regen[g])

GroupTyped ==
  /\ group \in [Groups -> GroupForm] /\ StaysTyped /\ PapersTyped /\ BeosTyped
  /\ RowsOk /\ gfolio \in [Groups -> ChargedFolio] /\ RunsTyped

LEMMA GroupTypes == GroupTyped => GroupTypeOK
<1> SUFFICES ASSUME GroupTyped PROVE GroupTypeOK
  OBVIOUS
<1>1. ASSUME NEW g \in Groups
      PROVE  /\ beo[g].current \in 0 .. Len(beo[g].revision) /\ Len(beo[g].revision) <= MaxBeo
             /\ \A n \in DOMAIN beo[g].revision : beo[g].revision[n] \in {"Draft", "Issued", "Superseded", "Cancelled"}
             /\ regen[g].on => /\ regen[g].names \subseteq Services \X (1 .. MaxName)
                               /\ regen[g].services \subseteq Services
  <2>1. PICK q, n : q = beo[g].revision /\ n = beo[g].current
    OBVIOUS
  <2>2. q \in Seq(BeoStatus) /\ n \in Nat /\ n <= Len(q) /\ Len(q) <= MaxBeo
    BY <2>1 DEF GroupTyped, BeosTyped, Revisions
  <2>3. n \in 0 .. Len(q) /\ \A i \in DOMAIN q : q[i] \in BeoStatus
    BY <2>2
  <2>4. Replacing(regen[g])
    BY DEF GroupTyped, RunsTyped
  <2> QED
    BY <2>1, <2>2, <2>3, <2>4 DEF BeoStatus, Replacing, Named
<1>2. posting \in [Groups -> [Services -> [name : 0 .. MaxName, status : Unposted \cup {"none", "Posted", "Cancelled"}]]]
  <2>1. Row \subseteq [name : 0 .. MaxName, status : Unposted \cup {"none", "Posted", "Cancelled"}]
    BY DEF Row
  <2> HIDE DEF Row
  <2> QED
    BY <2>1 DEF GroupTyped, RowsOk
<1>3. ASSUME NEW w \in Workers, poster[w].on
      PROVE  /\ poster[w].group \in Groups /\ poster[w].stamp \in 0 .. MaxStamp
             /\ poster[w].due \subseteq Services \X (1 .. MaxName) /\ poster[w].routes \in Routings
  BY <1>3 DEF GroupTyped, RunsTyped, Run, Named
<1>4. /\ group \in [Groups -> [doc : {"none", "Draft", "Submitted", "Cancelled"},
           status : {"Inquiry", "Tentative", "Confirmed", "Event Active", "Closed", "Cancelled"},
           hold : BOOLEAN, cutoff : BOOLEAN, block : {"Active", "Consumed", "Released"},
           size : 0 .. Cardinality(Rooms), assigned : 0 .. Cardinality(Rooms),
           room : [Guests -> Rooms \cup {NoRoom}], linked : SUBSET Guests,
           slot : Slots \cup {NoSlot}, routes : Routings, first : 0 .. LastDate, last : 0 .. LastDate]]
  BY DEF GroupTyped, GroupForm, Numbered
<1>5. gfolio \in [Groups -> [exists : BOOLEAN, stamp : 0 .. MaxStamp,
           charged : [Services -> [{1, 2} -> {0, 40, 60, 100}]], invoiced : SUBSET (Services \X {1, 2})]]
  BY DEF GroupTyped, ChargedFolio, Parts
<1> QED
  BY <1>1, <1>2, <1>3, <1>4, <1>5 DEF GroupTypeOK, GroupTyped, StaysTyped, StayRows, PapersTyped

-----------------------------------------------------------------------------
(* The booking. *)

LEMMA RoomsCounted ==
  ASSUME NEW S, S \subseteq Rooms
  PROVE  Cardinality(S) \in Numbered /\ 0 \in Numbered /\ 1 .. Cardinality(Rooms) \subseteq Numbered
<1>1. IsFiniteSet(Rooms) /\ IsFiniteSet(S) /\ Cardinality(S) <= Cardinality(Rooms)
  BY FS_Subset, GroupAssumption
<1>2. Cardinality(S) \in Nat /\ Cardinality(Rooms) \in Nat
  BY <1>1, FS_CardinalityType
<1> QED
  BY <1>1, <1>2 DEF Numbered

\* One field of a booking.
LEMMA FormField ==
  ASSUME NEW b \in GroupForm
  PROVE  /\ \A x \in {"none", "Draft", "Submitted", "Cancelled"} : [b EXCEPT !.doc = x] \in GroupForm
         /\ \A x \in {"Inquiry", "Tentative", "Confirmed", "Event Active", "Closed", "Cancelled"} :
              [b EXCEPT !.status = x] \in GroupForm
         /\ \A x \in {"Active", "Consumed", "Released"} : [b EXCEPT !.block = x] \in GroupForm
         /\ [b EXCEPT !.hold = FALSE] \in GroupForm /\ [b EXCEPT !.cutoff = TRUE] \in GroupForm
         /\ \A n \in Numbered : [b EXCEPT !.size = n] \in GroupForm /\ [b EXCEPT !.assigned = n] \in GroupForm
         /\ \A p \in Guests, r \in Rooms \cup {NoRoom} : [b EXCEPT !.room[p] = r] \in GroupForm
         /\ \A L \in SUBSET Guests : [b EXCEPT !.linked = L] \in GroupForm
         /\ \A x \in Slots \cup {NoSlot} : [b EXCEPT !.slot = x] \in GroupForm
         /\ \A x \in Routings : [b EXCEPT !.routes = x] \in GroupForm
         /\ \A d \in 0 .. LastDate : [b EXCEPT !.last = d] \in GroupForm
<1>1. \A x \in {"none", "Draft", "Submitted", "Cancelled"} : [b EXCEPT !.doc = x] \in GroupForm
  BY DEF GroupForm
<1>2. \A x \in {"Inquiry", "Tentative", "Confirmed", "Event Active", "Closed", "Cancelled"} :
        [b EXCEPT !.status = x] \in GroupForm
  BY DEF GroupForm
<1>3. \A x \in {"Active", "Consumed", "Released"} : [b EXCEPT !.block = x] \in GroupForm
  BY DEF GroupForm
<1>4. [b EXCEPT !.hold = FALSE] \in GroupForm /\ [b EXCEPT !.cutoff = TRUE] \in GroupForm
  BY DEF GroupForm
<1>5. \A n \in Numbered : [b EXCEPT !.size = n] \in GroupForm /\ [b EXCEPT !.assigned = n] \in GroupForm
  BY DEF GroupForm
<1>6. ASSUME NEW p \in Guests, NEW r \in Rooms \cup {NoRoom} PROVE [b EXCEPT !.room[p] = r] \in GroupForm
  BY <1>6 DEF GroupForm
<1>7. \A L \in SUBSET Guests : [b EXCEPT !.linked = L] \in GroupForm
  BY DEF GroupForm
<1>8. \A x \in Slots \cup {NoSlot} : [b EXCEPT !.slot = x] \in GroupForm
  BY DEF GroupForm
<1>9. \A x \in Routings : [b EXCEPT !.routes = x] \in GroupForm
  BY DEF GroupForm
<1>10. \A d \in 0 .. LastDate : [b EXCEPT !.last = d] \in GroupForm
  BY DEF GroupForm
<1> QED
  BY <1>1, <1>2, <1>3, <1>4, <1>5, <1>6, <1>7, <1>8, <1>9, <1>10

LEMMA AssignedTyped ==
  ASSUME NEW b \in GroupForm PROVE Assigned(b) \in GroupForm
<1>1. PICK n : n = Cardinality({b.room[p] : p \in Guests} \ {NoRoom})
  OBVIOUS
<1>2. n \in Numbered
  <2>1. b.room \in [Guests -> Rooms \cup {NoRoom}]
    BY DEF GroupForm
  <2>2. {b.room[p] : p \in Guests} \ {NoRoom} \subseteq Rooms
    BY <2>1
  <2> QED
    BY <1>1, <2>2, RoomsCounted
<1>3. CASE b.size = 0
  BY <1>3 DEF Assigned
<1>4. CASE b.size # 0
  <2>1. PICK st : st = CASE b.block = "Released" -> "Released"
                         [] b.block # "Released" /\ b.size <= n -> "Consumed"
                         [] OTHER -> "Active"
    OBVIOUS
  <2>2. st \in {"Active", "Consumed", "Released"}
    BY <2>1
  <2>3. Assigned(b) = [b EXCEPT !.assigned = n, !.block = st]
    BY <1>1, <1>4, <2>1 DEF Assigned, GroupForm
  <2> QED
    BY <1>2, <2>2, <2>3 DEF GroupForm
<1> QED
  BY <1>3, <1>4

LEMMA GroupWritten ==
  ASSUME GroupTyped, NEW g \in Groups, NEW b \in GroupForm, group' = [group EXCEPT ![g] = b],
         UNCHANGED <<stay, paper, beo, posting, poster, regen>>, gfolio' \in [Groups -> ChargedFolio]
  PROVE  GroupTyped'
BY DEF GroupTyped, StaysTyped, PapersTyped, BeosTyped, RowsOk, RunsTyped

LEMMA FormTyped ==
  ASSUME GroupTyped, FormNext PROVE GroupTyped'
<1>1. PICK g \in Groups :
        \/ \E s \in {"Inquiry", "Tentative"} : CreateGroup(g, s)
        \/ \E b \in Edits(g) : EditGroup(g, b)
        \/ SubmitGroup(g) \/ CancelGroup(g)
  BY Zenon DEF FormNext
<1>2. group \in [Groups -> GroupForm] /\ gfolio \in [Groups -> ChargedFolio]
  BY DEF GroupTyped
<1>3. PICK b : b = group[g]
  OBVIOUS
<1>4. b \in GroupForm
  BY <1>2, <1>3
<1>5. ASSUME NEW s \in {"Inquiry", "Tentative"}, CreateGroup(g, s) PROVE GroupTyped'
  <2>1. PICK c : c = [b EXCEPT !.doc = "Draft", !.status = s]
    OBVIOUS
  <2>2. c \in GroupForm
    BY <1>4, <2>1 DEF GroupForm
  <2> QED
    BY <1>2, <1>3, <1>5, <2>1, <2>2, GroupWritten DEF CreateGroup
<1>6. ASSUME NEW c \in Edits(g), EditGroup(g, c) PROVE GroupTyped'
  <2>1. c \in GroupForm
    <3>1. /\ 1 .. Cardinality(Rooms) \subseteq Numbered
          /\ StatusOf(b) \subseteq {"Inquiry", "Tentative", "Confirmed", "Event Active", "Closed", "Cancelled"}
      BY RoomsCounted DEF StatusOf
    <3> DEFINE Sized == {[b EXCEPT !.size = n] : n \in 1 .. Cardinality(Rooms)}
               Roomed == {[b EXCEPT !.room[p] = r] : p \in Guests, r \in Rooms \cup {NoRoom}}
               Slotted == {[b EXCEPT !.slot = s] : s \in Slots \cup {NoSlot}}
               Rerouted == {[b EXCEPT !.routes = r] : r \in Routings}
               Longer == {[b EXCEPT !.last = d] : d \in 0 .. LastDate}
               Stated == {[b EXCEPT !.status = s] : s \in StatusOf(b)}
    <3>2. ASSUME c \in Sized PROVE c \in GroupForm
      BY <1>4, <3>1, <3>2, FormField
    <3>3. ASSUME c \in Roomed PROVE c \in GroupForm
      <4>1. PICK p \in Guests, r \in Rooms \cup {NoRoom} : c = [b EXCEPT !.room[p] = r]
        BY <3>3
      <4> QED
        BY <1>4, <4>1, FormField
    <3>4. ASSUME c \in Slotted PROVE c \in GroupForm
      BY <1>4, <3>4, FormField
    <3>5. ASSUME c \in Rerouted PROVE c \in GroupForm
      BY <1>4, <3>5, FormField
    <3>6. ASSUME c \in Longer PROVE c \in GroupForm
      BY <1>4, <3>6, FormField
    <3>7. ASSUME c \in Stated PROVE c \in GroupForm
      BY <1>4, <3>1, <3>7, FormField
    <3>8. c \in Sized \cup Roomed \cup Slotted \cup Rerouted \cup Longer \cup Stated
      BY <1>3, <1>6 DEF Edits
    <3> HIDE DEF Sized, Roomed, Slotted, Rerouted, Longer, Stated
    <3> QED
      BY <3>2, <3>3, <3>4, <3>5, <3>6, <3>7, <3>8
  <2> QED
    BY <1>2, <1>6, <2>1, AssignedTyped, GroupWritten DEF EditGroup
<1>7. CASE SubmitGroup(g)
  <2>1. PICK c : c = Assigned(b)
    OBVIOUS
  <2>2. c \in GroupForm
    BY <1>4, <2>1, AssignedTyped
  <2>3. PICK st : st = IF c.status \in {"Inquiry", "Tentative"} THEN "Confirmed" ELSE c.status
    OBVIOUS
  <2>4. st \in {"Inquiry", "Tentative", "Confirmed", "Event Active", "Closed", "Cancelled"}
    BY <2>2, <2>3 DEF GroupForm
  <2>5. PICK d : d = [c EXCEPT !.doc = "Submitted", !.status = st]
    OBVIOUS
  <2>6. d \in GroupForm
    BY <2>2, <2>4, <2>5 DEF GroupForm
  <2>7. group' = [group EXCEPT ![g] = d]
    BY <1>3, <1>7, <2>1, <2>2, <2>3, <2>5 DEF SubmitGroup, GroupForm
  <2>8. gfolio' \in [Groups -> ChargedFolio]
    BY <1>2, <1>7 DEF SubmitGroup, ChargedFolio
  <2> QED
    BY <1>7, <2>6, <2>7, <2>8, GroupWritten DEF SubmitGroup
<1>8. CASE CancelGroup(g)
  <2>1. PICK c : c = [b EXCEPT !.doc = "Cancelled", !.status = "Cancelled"]
    OBVIOUS
  <2>2. c \in GroupForm
    BY <1>4, <2>1 DEF GroupForm
  <2>3. group' = [group EXCEPT ![g] = c]
    BY <1>2, <1>3, <1>4, <1>8, <2>1 DEF CancelGroup, GroupForm
  <2> QED
    BY <1>2, <1>8, <2>2, <2>3, GroupWritten DEF CancelGroup
<1> QED
  BY <1>1, <1>5, <1>6, <1>7, <1>8, Zenon

LEMMA HoldTyped ==
  ASSUME GroupTyped, HoldNext PROVE GroupTyped'
<1>1. group \in [Groups -> GroupForm] /\ gfolio \in [Groups -> ChargedFolio]
  BY DEF GroupTyped
<1>2. ASSUME group' \in [Groups -> GroupForm], UNCHANGED <<stay, paper, beo, posting, gfolio, poster, regen>>
      PROVE  GroupTyped'
  BY <1>2 DEF GroupTyped, StaysTyped, PapersTyped, BeosTyped, RowsOk, RunsTyped
<1>3. ASSUME NEW b \in GroupForm
      PROVE  /\ [b EXCEPT !.status = "Cancelled", !.block = "Released"] \in GroupForm
             /\ [b EXCEPT !.block = "Released"] \in GroupForm
  BY DEF GroupForm
<1>4. CASE ExpireHolds
  <2>1. group' = [g \in Groups |-> IF g \in Lapsed
                    THEN [group[g] EXCEPT !.status = "Cancelled", !.block = "Released"] ELSE group[g]]
        /\ UNCHANGED <<stay, paper, beo, posting, gfolio, poster, regen>>
    BY <1>4, Zenon DEF ExpireHolds
  <2>2. \A g \in Groups : group[g] \in GroupForm
                          /\ [group[g] EXCEPT !.status = "Cancelled", !.block = "Released"] \in GroupForm
    BY <1>1, <1>3
  <2>3. group' \in [Groups -> GroupForm]
    BY <2>1, <2>2
  <2> QED
    BY <1>2, <2>1, <2>3
<1>5. CASE ReleaseBlocks
  <2>1. PICK late : group' = [g \in Groups |-> IF g \in late THEN [group[g] EXCEPT !.block = "Released"] ELSE group[g]]
    BY <1>5, Zenon DEF ReleaseBlocks
  <2>2. \A g \in Groups : group[g] \in GroupForm /\ [group[g] EXCEPT !.block = "Released"] \in GroupForm
    BY <1>1, <1>3
  <2>3. group' \in [Groups -> GroupForm]
    BY <2>1, <2>2
  <2> QED
    BY <1>2, <1>5, <2>3 DEF ReleaseBlocks
<1>6. ASSUME NEW g \in Groups, HoldLapses(g) \/ CutoffPasses(g) PROVE GroupTyped'
  <2>1. PICK b : b = group[g]
    OBVIOUS
  <2>2. [b EXCEPT !.hold = FALSE] \in GroupForm /\ [b EXCEPT !.cutoff = TRUE] \in GroupForm
    BY <1>1, <2>1, FormField
  <2>3. group' = [group EXCEPT ![g] = [b EXCEPT !.hold = FALSE]] \/ group' = [group EXCEPT ![g] = [b EXCEPT !.cutoff = TRUE]]
    BY <1>1, <1>6, <2>1 DEF HoldLapses, CutoffPasses
  <2>4. UNCHANGED <<stay, paper, beo, posting, gfolio, poster, regen>>
    BY <1>6 DEF HoldLapses, CutoffPasses
  <2> QED
    BY <1>1, <2>2, <2>3, <2>4, GroupWritten
<1> QED
  BY <1>4, <1>5, <1>6 DEF HoldNext

-----------------------------------------------------------------------------
(* Stays and papers. *)

LEMMA StayTyped ==
  ASSUME GroupTyped, StayNext PROVE GroupTyped'
<1>1. group \in [Groups -> GroupForm] /\ stay \in [Groups \cup {Individual} -> StayRows]
  BY DEF GroupTyped, StaysTyped
<1>2. ASSUME group' \in [Groups -> GroupForm], stay' \in [Groups \cup {Individual} -> StayRows],
             UNCHANGED <<paper, beo, posting, gfolio, poster, regen>>
      PROVE  GroupTyped'
  BY <1>2 DEF GroupTyped, StaysTyped, PapersTyped, BeosTyped, RowsOk, RunsTyped
<1>3. ASSUME NEW h \in Groups \cup {Individual}, NEW r \in Rooms, NEW st \in {"Confirmed", "Checked In", "Cancelled"},
             stay' = [stay EXCEPT ![h][r] = st]
      PROVE  stay' \in [Groups \cup {Individual} -> StayRows]
  BY <1>1, <1>3 DEF StayRows
<1>4. ASSUME NEW g \in Groups, CreateReservations(g) PROVE GroupTyped'
  <2>1. PICK rooms, new : 
          /\ stay' = [stay EXCEPT ![g] = [r \in Rooms |-> IF r \in new THEN "Confirmed" ELSE @[r]]]
          /\ group' = [group EXCEPT ![g].linked = @ \cup UNION {Waiting(g, r) : r \in rooms}]
          /\ UNCHANGED <<paper, beo, posting, gfolio, poster, regen>>
    BY <1>4, Zenon DEF CreateReservations
  <2>2. PICK row : row = [r \in Rooms |-> IF r \in new THEN "Confirmed" ELSE stay[g][r]]
    OBVIOUS
  <2>3. row \in StayRows
    BY <1>1, <2>2 DEF StayRows
  <2>4. stay' = [stay EXCEPT ![g] = row]
    BY <1>1, <2>1, <2>2
  <2>5. stay' \in [Groups \cup {Individual} -> StayRows]
    BY <1>1, <2>3, <2>4
  <2>6. PICK b, L : b = group[g] /\ L = group[g].linked \cup UNION {Waiting(g, r) : r \in rooms}
    OBVIOUS
  <2>7. L \in SUBSET Guests
    <3>1. \A r \in rooms : Waiting(g, r) \subseteq Guests
      BY DEF Waiting
    <3>2. group[g].linked \in SUBSET Guests
      BY <1>1 DEF GroupForm
    <3> QED
      BY <2>6, <3>1, <3>2
  <2>8. group' = [group EXCEPT ![g] = [b EXCEPT !.linked = L]]
    BY <1>1, <2>1, <2>6, Zenon
  <2>9. group' \in [Groups -> GroupForm]
    BY <1>1, <2>6, <2>7, <2>8, FormField
  <2> QED
    BY <1>2, <2>1, <2>5, <2>9
<1>5. ASSUME NEW r \in Rooms, BookIndividual(r) PROVE GroupTyped'
  <2>1. Individual \in Groups \cup {Individual}
    OBVIOUS
  <2> QED
    BY <1>1, <1>2, <1>3, <1>5, <2>1 DEF BookIndividual
<1>6. ASSUME NEW r \in Rooms, NEW h \in Groups \cup {Individual}, CheckInStay(h, r) \/ CancelStay(h, r) PROVE GroupTyped'
  BY <1>1, <1>2, <1>3, <1>6 DEF CheckInStay, CancelStay
<1> QED
  BY <1>4, <1>5, <1>6 DEF StayNext

LEMMA BeoWritten ==
  ASSUME GroupTyped, NEW g \in Groups, NEW q \in Seq(BeoStatus), NEW n \in Nat, n <= Len(q), Len(q) <= MaxBeo,
         beo' = [beo EXCEPT ![g] = [revision |-> q, current |-> n]],
         UNCHANGED <<group, stay, paper, posting, gfolio, poster, regen>>
  PROVE  GroupTyped'
<1>1. PICK c : c = [revision |-> q, current |-> n]
  OBVIOUS
<1>2. c \in Revisions /\ c.current <= Len(c.revision) /\ Len(c.revision) <= MaxBeo
  BY <1>1 DEF Revisions
<1>3. beo' = [beo EXCEPT ![g] = c]
  BY <1>1
<1>4. BeosTyped'
  BY <1>2, <1>3 DEF GroupTyped, BeosTyped
<1> QED
  BY <1>4 DEF GroupTyped, StaysTyped, PapersTyped, RowsOk, RunsTyped

LEMMA BeoFields ==
  ASSUME GroupTyped, NEW g \in Groups
  PROVE  /\ beo[g] \in Revisions /\ beo[g].revision \in Seq(BeoStatus) /\ beo[g].current \in Nat
         /\ beo[g].current <= Len(beo[g].revision) /\ Len(beo[g].revision) \in Nat /\ Len(beo[g].revision) <= MaxBeo
<1>1. beo[g] \in Revisions
  BY DEF GroupTyped, BeosTyped
<1>2. beo[g].revision \in Seq(BeoStatus) /\ beo[g].current \in Nat
  BY <1>1 DEF Revisions
<1>3. Len(beo[g].revision) \in Nat
  BY <1>2
<1> QED
  BY <1>1, <1>2, <1>3 DEF GroupTyped, BeosTyped

LEMMA PaperTyped ==
  ASSUME GroupTyped, PaperNext PROVE GroupTyped'
<1>1. PICK g \in Groups : CreateQuotation(g) \/ CreateSalesOrder(g) \/ CreateBeo(g)
                          \/ \E n \in 1 .. MaxBeo : IssueBeo(g, n) \/ CancelBeo(g, n)
  BY Zenon DEF PaperNext
<1>2. CASE CreateQuotation(g) \/ CreateSalesOrder(g)
  <2>1. PapersTyped' /\ UNCHANGED <<group, stay, beo, posting, gfolio, poster, regen>>
    BY <1>2 DEF CreateQuotation, CreateSalesOrder, GroupTyped, PapersTyped
  <2> QED
    BY <2>1 DEF GroupTyped, StaysTyped, BeosTyped, RowsOk, RunsTyped
<1>3. PICK q, c : q = beo[g].revision /\ c = beo[g].current
  OBVIOUS
<1>4. q \in Seq(BeoStatus) /\ c \in Nat /\ c <= Len(q) /\ Len(q) \in Nat /\ Len(q) <= MaxBeo
      /\ beo[g] = [revision |-> q, current |-> c] /\ beo \in [Groups -> Revisions]
  <2>1. beo[g] = [revision |-> q, current |-> c] /\ beo \in [Groups -> Revisions]
    BY <1>3 DEF GroupTyped, BeosTyped, Revisions
  <2> QED
    BY <1>3, <2>1, BeoFields
<1>5. CASE CreateBeo(g)
  <2>1. PICK d : d = Append(q, "Draft")
    OBVIOUS
  <2>2. d \in Seq(BeoStatus) /\ Len(d) = Len(q) + 1
    BY <1>4, <2>1 DEF BeoStatus
  <2>3. /\ beo' = [beo EXCEPT ![g] = [revision |-> d, current |-> Len(q) + 1]] /\ Len(q) + 1 <= MaxBeo
        /\ UNCHANGED <<group, stay, paper, posting, gfolio, poster, regen>>
    BY <1>3, <1>4, <1>5, <2>1 DEF CreateBeo
  <2>4. Len(q) + 1 \in Nat /\ Len(q) + 1 <= Len(d) /\ Len(d) <= MaxBeo
    BY <1>4, <2>2, <2>3
  <2> QED
    BY <2>2, <2>3, <2>4, BeoWritten
<1>6. ASSUME NEW n \in 1 .. MaxBeo, IssueBeo(g, n) PROVE GroupTyped'
  <2>1. PICK d : d = [m \in DOMAIN q |-> IF m = n THEN "Issued" ELSE IF q[m] = "Issued" THEN "Superseded" ELSE q[m]]
    OBVIOUS
  <2>2. d \in Seq(BeoStatus) /\ Len(d) = Len(q)
    <3>1. DOMAIN d = 1 .. Len(q) /\ \A m \in 1 .. Len(q) : d[m] \in BeoStatus
      BY <1>4, <2>1 DEF BeoStatus
    <3>2. d \in [1 .. Len(q) -> BeoStatus]
      BY <2>1, <3>1
    <3> QED
      BY <1>4, <3>1, <3>2
  <2>3. /\ beo' = [beo EXCEPT ![g] = [revision |-> d, current |-> n]]
        /\ UNCHANGED <<group, stay, paper, posting, gfolio, poster, regen>> /\ n \in DOMAIN q
    BY <1>3, <1>4, <1>6, <2>1 DEF IssueBeo
  <2>4. n \in Nat /\ n <= Len(d)
    BY <1>4, <2>2, <2>3
  <2> QED
    BY <1>4, <2>2, <2>3, <2>4, BeoWritten
<1>7. ASSUME NEW n \in 1 .. MaxBeo, CancelBeo(g, n) PROVE GroupTyped'
  <2>1. PICK d : d = [q EXCEPT ![n] = "Cancelled"]
    OBVIOUS
  <2>2. d \in Seq(BeoStatus) /\ Len(d) = Len(q)
    <3>1. DOMAIN d = 1 .. Len(q) /\ \A m \in 1 .. Len(q) : d[m] \in BeoStatus
      BY <1>4, <2>1 DEF BeoStatus
    <3>2. d \in [1 .. Len(q) -> BeoStatus]
      BY <2>1, <3>1
    <3> QED
      BY <1>4, <3>1, <3>2
  <2>3. /\ beo' = [beo EXCEPT ![g] = [revision |-> d, current |-> c]]
        /\ UNCHANGED <<group, stay, paper, posting, gfolio, poster, regen>>
    <3>1. [beo[g] EXCEPT !.revision = [q EXCEPT ![n] = "Cancelled"]] = [revision |-> d, current |-> c]
      BY <1>4, <2>1
    <3>2. beo' = [beo EXCEPT ![g] = [beo[g] EXCEPT !.revision = [q EXCEPT ![n] = "Cancelled"]]]
      BY <1>3, <1>7, <1>4, Zenon DEF CancelBeo
    <3> QED
      BY <1>7, <3>1, <3>2 DEF CancelBeo
  <2> QED
    BY <1>4, <2>2, <2>3, BeoWritten
<1> QED
  BY <1>1, <1>2, <1>5, <1>6, <1>7, Zenon

-----------------------------------------------------------------------------
(* The schedule. *)

LEMMA RowFields ==
  ASSUME GroupTyped, NEW g \in Groups, NEW s \in Services
  PROVE  /\ posting[g][s] \in Row /\ posting[g][s].name \in 0 .. MaxName
         /\ posting[g][s].status \in Unposted \cup {"none", "Posted", "Cancelled"}
         /\ posting[g][s].status # "none" => posting[g][s].name \in 1 .. MaxName
<1>1. posting[g][s] \in Row
  BY DEF GroupTyped, RowsOk
<1>2. /\ posting[g][s].name \in 0 .. MaxName
      /\ posting[g][s].status \in Unposted \cup {"none", "Posted", "Cancelled"}
      /\ posting[g][s].status # "none" => posting[g][s].name >= 1
  BY <1>1 DEF Row
<1> QED
  BY <1>1, <1>2, GroupAssumption

LEMMA NamesTyped ==
  ASSUME GroupTyped, NEW g \in Groups, NEW T \in SUBSET Services
  PROVE  Names(g, T) \subseteq Named
<1>1. ASSUME NEW s \in T, posting[g][s].status \in Unposted PROVE posting[g][s].name \in 1 .. MaxName
  BY <1>1, RowFields DEF Unposted
<1> QED
  BY <1>1 DEF Names, Named

LEMMA DatesTyped ==
  ASSUME NEW c, NEW first \in 0 .. LastDate, NEW last \in 0 .. LastDate
  PROVE  ServiceDates(c, first, last) \subseteq 0 .. LastDate
<1>1. {first} \subseteq 0 .. LastDate /\ first .. last \subseteq 0 .. LastDate /\ first .. last - 1 \subseteq 0 .. LastDate
  BY GroupAssumption
<1> QED
  BY <1>1 DEF ServiceDates

LEMMA PackageTyped ==
  ASSUME NEW b \in GroupForm PROVE PackageServices(b) \subseteq Services
<1>1. b.first \in 0 .. LastDate /\ b.last \in 0 .. LastDate
  BY DEF GroupForm
<1>2. \A c \in Components : ServiceDates(c, b.first, b.last) \subseteq 0 .. LastDate
  BY <1>1, DatesTyped
<1>3. \A c \in Components : {c} \X ServiceDates(c, b.first, b.last) \subseteq Services
  BY <1>2 DEF Services
<1> QED
  BY <1>3 DEF PackageServices

\* A step of the schedule moves the rows, the folio, or a run.
LEMMA ScheduleWritten ==
  ASSUME GroupTyped, RowsOk', gfolio' \in [Groups -> ChargedFolio], RunsTyped', UNCHANGED <<group, stay, paper, beo>>
  PROVE  GroupTyped'
BY DEF GroupTyped, StaysTyped, PapersTyped, BeosTyped

LEMMA RegenWritten ==
  ASSUME GroupTyped, NEW g \in Groups, NEW r, Replacing(r), regen' = [regen EXCEPT ![g] = r], UNCHANGED poster
  PROVE  RunsTyped'
BY DEF GroupTyped, RunsTyped

LEMMA PosterWritten ==
  ASSUME GroupTyped, NEW w \in Workers, NEW p, Run(p), poster' = [poster EXCEPT ![w] = p], UNCHANGED regen
  PROVE  RunsTyped'
BY DEF GroupTyped, RunsTyped

LEMMA IdleTyped == Run(Idle) /\ Replacing(Idle)
BY DEF Run, Replacing, Idle

LEMMA RegenTyped ==
  ASSUME GroupTyped, NEW g \in Groups, LoadSchedule(g) \/ CommitSchedule(g) \/ ScheduleFails(g)
  PROVE  GroupTyped'
<1>1. group[g] \in GroupForm /\ RowsOk /\ gfolio \in [Groups -> ChargedFolio] /\ RunsTyped
  BY DEF GroupTyped
<1>2. CASE LoadSchedule(g)
  <2>1. PICK r : r = [on |-> TRUE, names |-> Names(g, Services), services |-> PackageServices(group[g])]
    OBVIOUS
  <2>2. Names(g, Services) \subseteq Named /\ PackageServices(group[g]) \subseteq Services
    BY <1>1, NamesTyped, PackageTyped
  <2>3. Replacing(r)
    BY <2>1, <2>2 DEF Replacing
  <2>4. RunsTyped' /\ RowsOk'
    BY <1>1, <1>2, <2>1, <2>3, RegenWritten DEF LoadSchedule, RowsOk
  <2> QED
    BY <1>1, <1>2, <2>4, ScheduleWritten DEF LoadSchedule
<1>3. CASE CommitSchedule(g)
  <2>1. RunsTyped'
    BY <1>3, IdleTyped, RegenWritten DEF CommitSchedule
  <2> DEFINE gone(s) == posting[g][s].status = "none" \/ <<s, posting[g][s].name>> \in regen[g].names
             new == {s \in regen[g].services : gone(s)}
             rows == [s \in Services |->
               CASE s \in new -> [name |-> posting[g][s].name + 1, status |-> "Scheduled"]
                 [] s \notin new /\ gone(s) -> [posting[g][s] EXCEPT !.status = "none"]
                 [] OTHER -> posting[g][s]]
  <2>2. /\ \A s \in new : posting[g][s].name < MaxName
        /\ posting' = [posting EXCEPT ![g] = rows]
    BY <1>3, Zenon DEF CommitSchedule
  <2> HIDE DEF gone, new
  <2>4. ASSUME NEW s \in Services PROVE rows[s] \in Row
    <3>1. posting[g][s] \in Row /\ posting[g][s].name \in 0 .. MaxName
      BY RowFields
    <3>2. CASE s \in new
      <4>1. posting[g][s].name + 1 \in 0 .. MaxName /\ posting[g][s].name + 1 >= 1
        BY <2>2, <3>1, <3>2, GroupAssumption
      <4> QED
        BY <3>2, <4>1 DEF Row, Unposted
    <3>3. CASE s \notin new /\ gone(s)
      <4>1. [posting[g][s] EXCEPT !.status = "none"] \in Row
        BY <3>1 DEF Row
      <4> QED
        BY <3>3, <4>1
    <3>4. CASE s \notin new /\ ~ gone(s)
      BY <3>1, <3>4
    <3> QED
      BY <3>2, <3>3, <3>4
  <2>5. rows \in [Services -> Row]
    BY <2>4
  <2> HIDE DEF rows
  <2>6. RowsOk'
    BY <1>1, <2>2, <2>5 DEF RowsOk
  <2> QED
    BY <1>1, <1>3, <2>1, <2>6, ScheduleWritten DEF CommitSchedule
<1>4. CASE ScheduleFails(g)
  <2>1. RunsTyped' /\ RowsOk'
    BY <1>1, <1>4, IdleTyped, RegenWritten DEF ScheduleFails, RowsOk
  <2> QED
    BY <1>1, <1>4, <2>1, ScheduleWritten DEF ScheduleFails
<1> QED
  BY <1>2, <1>3, <1>4

LEMMA MarkTyped ==
  ASSUME GroupTyped, NEW g \in Groups, NEW s \in Services, NEW st \in {"Prepared", "Served", "Cancelled"},
         MarkService(g, s, st)
  PROVE  GroupTyped'
<1>1. RowsOk /\ gfolio \in [Groups -> ChargedFolio] /\ RunsTyped
  BY DEF GroupTyped
<1>2. PICK row : row = [posting[g][s] EXCEPT !.status = st]
  OBVIOUS
<1>3. posting[g][s] \in Row /\ posting[g][s].status # "none"
  BY RowFields DEF MarkService
<1>4. row \in Row
  BY <1>2, <1>3 DEF Row, Unposted
<1>5. posting' = [posting EXCEPT ![g] = [posting[g] EXCEPT ![s] = row]]
  BY <1>1, <1>2 DEF MarkService, RowsOk
<1>6. [posting[g] EXCEPT ![s] = row] \in [Services -> Row]
  BY <1>1, <1>4 DEF RowsOk
<1>7. RowsOk' /\ RunsTyped'
  BY <1>1, <1>5, <1>6 DEF RowsOk, MarkService, RunsTyped
<1> QED
  BY <1>1, <1>7, ScheduleWritten DEF MarkService

LEMMA FolioFields ==
  ASSUME GroupTyped, NEW g \in Groups
  PROVE  /\ gfolio[g] \in ChargedFolio /\ gfolio[g].stamp \in 0 .. MaxStamp /\ gfolio[g].charged \in [Services -> Parts]
         /\ gfolio[g].invoiced \subseteq Services \X {1, 2}
<1>1. gfolio[g] \in ChargedFolio
  BY DEF GroupTyped
<1> QED
  BY <1>1 DEF ChargedFolio

LEMMA LoadDueTyped ==
  ASSUME GroupTyped, NEW w \in Workers, NEW g \in Groups, NEW date \in 0 .. LastDate, LoadDue(w, g, date)
  PROVE  GroupTyped'
<1>1. group[g] \in GroupForm /\ RowsOk /\ gfolio \in [Groups -> ChargedFolio] /\ RunsTyped
  BY DEF GroupTyped
<1>2. PICK due : due = Names(g, {s \in Services : s[2] <= date})
  OBVIOUS
<1>3. due \subseteq Named
  BY <1>2, NamesTyped
<1>4. PICK p : p = [on |-> TRUE, group |-> g, stamp |-> gfolio[g].stamp,
                    charged |-> gfolio[g].charged, routes |-> group[g].routes, due |-> due]
  OBVIOUS
<1>5. group[g].routes \in Routings
  BY <1>1 DEF GroupForm
<1>6. Run(p)
  BY <1>3, <1>4, <1>5, FolioFields DEF Run
<1>7. poster' = [poster EXCEPT ![w] = p] /\ UNCHANGED regen
  BY <1>2, <1>4 DEF LoadDue
<1>8. RunsTyped' /\ RowsOk'
  BY <1>1, <1>6, <1>7, PosterWritten DEF LoadDue, RowsOk
<1>9. gfolio' \in [Groups -> ChargedFolio]
  <2>1. [gfolio[g] EXCEPT !.exists = TRUE] \in ChargedFolio
    BY <1>1 DEF ChargedFolio
  <2> QED
    BY <1>1, <2>1 DEF LoadDue
<1> QED
  BY <1>8, <1>9, ScheduleWritten DEF LoadDue

\* The percent of a route, one of those a part may have.
LEMMA RouteShare ==
  ASSUME NEW r \in Routings, NEW k \in DOMAIN r PROVE r[k] \in {0, 40, 60, 100}
<1>1. CASE r = << 100 >>
  BY <1>1
<1>2. CASE r = <<60, 40>>
  BY <1>2
<1>3. CASE r = << 60 >>
  BY <1>3
<1> QED
  BY <1>1, <1>2, <1>3 DEF Routings

LEMMA PostTyped ==
  ASSUME GroupTyped, NEW w \in Workers, CommitPostSchedule(w)
  PROVE  GroupTyped'
<1>1. RowsOk /\ gfolio \in [Groups -> ChargedFolio] /\ RunsTyped
  BY DEF GroupTyped
<1>2. PICK p, g : p = poster[w] /\ g = poster[w].group
  OBVIOUS
<1>3. Run(p) /\ p.on /\ Post(w)
  BY <1>1, <1>2 DEF RunsTyped, CommitPostSchedule
<1>4. /\ g \in Groups /\ p.group = g /\ p.due \subseteq Named /\ p.routes \in Routings
      /\ p.charged \in [Services -> Parts] /\ gfolio[g].stamp < MaxStamp
  BY <1>2, <1>3 DEF Run, CommitPostSchedule
<1>5. gfolio' \in [Groups -> ChargedFolio]
  <2>1. CASE Added(p) = {}
    BY <1>1, <1>2, <1>3, <2>1 DEF Post
  <2>2. CASE Added(p) # {}
    <3>1. PICK ch : ch = [s \in Services |-> [k \in {1, 2} |-> IF <<s, k>> \in Added(p) THEN p.routes[k] ELSE p.charged[s][k]]]
      OBVIOUS
    <3>2. ASSUME NEW s \in Services, NEW k \in {1, 2}
          PROVE  (IF <<s, k>> \in Added(p) THEN p.routes[k] ELSE p.charged[s][k]) \in {0, 40, 60, 100}
      <4>1. p.charged[s][k] \in {0, 40, 60, 100}
        BY <1>4 DEF Parts
      <4>2. ASSUME <<s, k>> \in Added(p) PROVE p.routes[k] \in {0, 40, 60, 100}
        <5>1. k \in DOMAIN p.routes
          BY <4>2 DEF Added
        <5> QED
          BY <1>4, <5>1, RouteShare
      <4> QED
        BY <4>1, <4>2
    <3>3. ch \in [Services -> Parts]
      BY <3>1, <3>2 DEF Parts
    <3>4. PICK f : f = [gfolio[g] EXCEPT !.stamp = @ + 1, !.charged = ch]
      OBVIOUS
    <3>5. gfolio' = [gfolio EXCEPT ![g] = f]
      BY <1>1, <1>2, <1>3, <1>4, <2>2, <3>1, <3>4 DEF Post
    <3>6. gfolio[g].stamp + 1 \in 0 .. MaxStamp
      BY <1>4, FolioFields, GroupAssumption
    <3>7. f \in ChargedFolio
      BY <1>4, <3>3, <3>4, <3>6, FolioFields DEF ChargedFolio
    <3> QED
      BY <1>1, <1>4, <3>5, <3>7
  <2> QED
    BY <2>1, <2>2
<1>6. RowsOk'
  <2>1. PICK rows : rows = [s \in Services |->
          IF <<s, posting[g][s].name>> \in p.due /\ posting[g][s].status # "none"
          THEN [posting[g][s] EXCEPT !.status = "Posted"] ELSE posting[g][s]]
    OBVIOUS
  <2>2. ASSUME NEW s \in Services PROVE rows[s] \in Row
    <3>1. posting[g][s] \in Row
      BY <1>4, RowFields
    <3>2. posting[g][s].status # "none" => [posting[g][s] EXCEPT !.status = "Posted"] \in Row
      BY <3>1 DEF Row
    <3> QED
      BY <2>1, <3>1, <3>2
  <2>3. rows \in [Services -> Row]
    BY <2>1, <2>2
  <2>4. posting' = [posting EXCEPT ![g] = rows]
    BY <1>1, <1>2, <1>3, <1>4, <2>1 DEF Post, RowsOk
  <2> QED
    BY <1>1, <2>3, <2>4 DEF RowsOk
<1>7. RunsTyped'
  BY <1>3, IdleTyped, PosterWritten DEF Post
<1> QED
  BY <1>3, <1>5, <1>6, <1>7, ScheduleWritten DEF Post

LEMMA InvoiceTyped ==
  ASSUME GroupTyped, NEW g \in Groups, InvoiceGroup(g)
  PROVE  GroupTyped'
<1>1. RowsOk /\ gfolio \in [Groups -> ChargedFolio] /\ RunsTyped
  BY DEF GroupTyped
<1>2. PICK open : /\ open \subseteq Services \X {1, 2} /\ gfolio[g].stamp < MaxStamp
                  /\ gfolio' = [gfolio EXCEPT ![g].invoiced = @ \cup open, ![g].stamp = @ + 1]
  <2>1. PICK o : o = {part \in Services \X {1, 2} : gfolio[g].charged[part[1]][part[2]] > 0} \ gfolio[g].invoiced
    OBVIOUS
  <2> QED
    BY <2>1 DEF InvoiceGroup
<1>3. PICK f : f = [gfolio[g] EXCEPT !.invoiced = gfolio[g].invoiced \cup open, !.stamp = gfolio[g].stamp + 1]
  OBVIOUS
<1>4. gfolio[g].stamp + 1 \in 0 .. MaxStamp
  BY <1>2, FolioFields, GroupAssumption
<1>5. f \in ChargedFolio
  BY <1>2, <1>3, <1>4, FolioFields DEF ChargedFolio
<1>6. gfolio' = [gfolio EXCEPT ![g] = f]
  BY <1>1, <1>2, <1>3
<1>7. gfolio' \in [Groups -> ChargedFolio]
  BY <1>1, <1>5, <1>6
<1>8. RowsOk' /\ RunsTyped'
  BY <1>1 DEF InvoiceGroup, RowsOk, RunsTyped
<1> QED
  BY <1>7, <1>8, ScheduleWritten DEF InvoiceGroup

LEMMA ScheduleMoves ==
  ASSUME GroupTyped, ScheduleNext PROVE GroupTyped'
<1>1. ASSUME NEW w \in Workers, PostScheduleFails(w) PROVE GroupTyped'
  <2>1. RowsOk /\ gfolio \in [Groups -> ChargedFolio]
    BY DEF GroupTyped
  <2>2. RunsTyped' /\ RowsOk'
    BY <1>1, <2>1, IdleTyped, PosterWritten DEF PostScheduleFails, RowsOk
  <2> QED
    BY <1>1, <2>1, <2>2, ScheduleWritten DEF PostScheduleFails
<1>2. ASSUME NEW g \in Groups, LoadSchedule(g) \/ CommitSchedule(g) \/ ScheduleFails(g) \/ InvoiceGroup(g)
      PROVE  GroupTyped'
  BY <1>2, RegenTyped, InvoiceTyped
<1>3. ASSUME NEW g \in Groups, NEW s \in Services, NEW st \in {"Prepared", "Served", "Cancelled"}, MarkService(g, s, st)
      PROVE  GroupTyped'
  BY <1>3, MarkTyped
<1>4. ASSUME NEW w \in Workers, NEW g \in Groups, NEW date \in 0 .. LastDate, LoadDue(w, g, date) PROVE GroupTyped'
  BY <1>4, LoadDueTyped
<1>5. ASSUME NEW w \in Workers, CommitPostSchedule(w) PROVE GroupTyped'
  BY <1>5, PostTyped
<1> QED
  BY <1>1, <1>2, <1>3, <1>4, <1>5, Zenon DEF ScheduleNext

LEMMA GroupInitTyped == GroupInit => GroupTyped
<1> SUFFICES ASSUME GroupInit PROVE GroupTyped
  OBVIOUS
<1>1. PICK b : b = [doc |-> "none", status |-> "Inquiry", hold |-> TRUE,
       cutoff |-> FALSE, block |-> "Active", size |-> 0, assigned |-> 0,
       room |-> [p \in Guests |-> NoRoom], linked |-> {}, slot |-> NoSlot,
       routes |-> << 100 >>, first |-> 0, last |-> 0]
  OBVIOUS
<1>2. b \in GroupForm
  <2>1. 0 \in Numbered /\ 0 \in 0 .. LastDate
    BY RoomsCounted, GroupAssumption
  <2>2. [p \in Guests |-> NoRoom] \in [Guests -> Rooms \cup {NoRoom}]
    OBVIOUS
  <2>3. NoSlot \in Slots \cup {NoSlot} /\ << 100 >> \in Routings /\ {} \in SUBSET Guests
    BY DEF Routings
  <2> QED
    BY <1>1, <2>1, <2>2, <2>3 DEF GroupForm
<1>3. group \in [Groups -> GroupForm]
  BY <1>1, <1>2 DEF GroupInit
<1>4. StaysTyped /\ PapersTyped
  BY DEF GroupInit, StaysTyped, PapersTyped, StayRows
<1>5. BeosTyped
  <2>1. PICK r : r = [revision |-> << >>, current |-> 0]
    OBVIOUS
  <2>2. r \in Revisions /\ r.current <= Len(r.revision) /\ Len(r.revision) <= MaxBeo
    BY <2>1, GroupAssumption DEF Revisions
  <2>3. beo = [g \in Groups |-> r]
    BY <2>1 DEF GroupInit
  <2> QED
    BY <2>2, <2>3 DEF BeosTyped
<1>6. RowsOk
  <2>1. PICK r : r = [name |-> 0, status |-> "none"]
    OBVIOUS
  <2>2. r \in Row
    BY <2>1, GroupAssumption DEF Row
  <2>3. [s \in Services |-> r] \in [Services -> Row]
    BY <2>2
  <2>4. posting = [g \in Groups |-> [s \in Services |-> r]]
    BY <2>1 DEF GroupInit
  <2> QED
    BY <2>3, <2>4 DEF RowsOk
<1>7. gfolio \in [Groups -> ChargedFolio]
  <2>1. PICK f : f = [exists |-> FALSE, stamp |-> 0,
                      charged |-> [s \in Services |-> [k \in {1, 2} |-> 0]], invoiced |-> {}]
    OBVIOUS
  <2>2. [s \in Services |-> [k \in {1, 2} |-> 0]] \in [Services -> Parts]
    BY DEF Parts
  <2>3. f \in ChargedFolio
    BY <2>1, <2>2, GroupAssumption DEF ChargedFolio
  <2>4. gfolio = [g \in Groups |-> f]
    BY <2>1 DEF GroupInit
  <2> QED
    BY <2>3, <2>4
<1>8. RunsTyped
  BY IdleTyped DEF GroupInit, RunsTyped
<1> QED
  BY <1>3, <1>4, <1>5, <1>6, <1>7, <1>8 DEF GroupTyped

LEMMA GroupStepTyped == GroupTyped /\ [GroupNext]_groupVars => GroupTyped'
<1>1. ASSUME GroupTyped, UNCHANGED groupVars PROVE GroupTyped'
  BY <1>1 DEF groupVars, GroupTyped, StaysTyped, PapersTyped, BeosTyped, RowsOk, RunsTyped
<1> QED
  BY <1>1, FormTyped, HoldTyped, StayTyped, PaperTyped, ScheduleMoves DEF GroupNext

LEMMA GroupIsTyped == GroupSpec => []GroupTypeOK
<1>1. GroupInit => GroupTyped
  BY GroupInitTyped
<1>2. GroupTyped /\ [GroupNext]_groupVars => GroupTyped'
  BY GroupStepTyped
<1>3. GroupTyped => GroupTypeOK
  BY GroupTypes
<1> QED
  BY <1>1, <1>2, <1>3, PTL DEF GroupSpec

-----------------------------------------------------------------------------
(***************************************************************************)
(* Types of GuestAccess, but for the links, the forms and their requests,  *)
(* which FormsTyped has.                                                   *)
(***************************************************************************)
ProfileRow == [status : {"none", "Active", "Restricted", "Anonymized"}, record : Bans \cup {0}, hold : BOOLEAN]
BanLevels == {"Warning", "Block Online", "Block All"}
BanRow == [status : {"none", "Draft", "Active", "Revoked", "Expired"}, guest : People \cup {NoOne},
           level : BanLevels, over : BOOLEAN]
PrivacyRow == [guest : People \cup {NoOne}, ripe : BOOLEAN, type : {"Anonymization", "Data Access"},
               status : {"none", "Received", "Cooling Period", "Approved", "Completed", "Rejected"}]
FileTyped == /\ person \in [People -> People \cup {NoOne}] /\ profile \in [People -> ProfileRow]
             /\ ban \in [Bans -> BanRow] /\ privacy \in [PrivacyRequests -> PrivacyRow]

BookingRow == [status : {"none", "Confirmed", "Checked In", "Checked Out", "Cancelled"}, guest : People \cup {NoOne}]
RegistrationRow == [status : {"none", "Draft", "Completed", "Verified"}, document : BOOLEAN, purged : BOOLEAN]
DepositRow == [received : 0 .. Required, order : 0 .. Required, invoice : BOOLEAN,
               requests : SUBSET {"Sales Order", "Sales Invoice"}]
BookingsTyped == /\ booking \in [Bookings -> BookingRow] /\ registration \in [Bookings -> RegistrationRow]
                 /\ deposit \in [Bookings -> DepositRow]

LaundryRow == [status : LaundryStates \cup {"none"}, booking : Bookings, posted : BOOLEAN,
               items : 0 .. MaxItems, charged : 0 .. MaxItems]
OutingRow == [status : {"none", "Requested", "Confirmed"}, people : 0 .. Seats, over : BOOLEAN, posted : BOOLEAN]
ServicesTyped == laundry \in [Orders -> LaundryRow] /\ outing \in [Outings -> OutingRow]

GuestTyped == FileTyped /\ BookingsTyped /\ ServicesTyped

LEMMA GuestTypes == GuestTyped /\ FormsTyped => GuestTypeOK
<1>1. ASSUME FormsTyped, NEW w \in Writers, writer[w].on
      PROVE  writer[w].form \in Forms /\ writer[w].stamp \in 0 .. MaxFormStamp
  BY <1>1 DEF FormsTyped, Request
<1> QED
  BY <1>1 DEF GuestTyped, FileTyped, BookingsTyped, ServicesTyped, FormsTyped, GuestTypeOK, ProfileRow, BanLevels,
              BanRow, PrivacyRow, BookingRow, RegistrationRow, DepositRow, LaundryRow, OutingRow, LinkRow, FormRow

LEMMA GuestInitTyped == GuestInit => GuestTyped
<1> SUFFICES ASSUME GuestInit PROVE GuestTyped
  OBVIOUS
<1>1. (CHOOSE b \in Bookings : TRUE) \in Bookings
  BY GuestAssumption
<1>2. FileTyped
  BY DEF GuestInit, FileTyped, ProfileRow, BanLevels, BanRow, PrivacyRow
<1>3. BookingsTyped
  <2>1. 0 \in 0 .. Required
    BY GuestAssumption
  <2> QED
    BY <2>1 DEF GuestInit, BookingsTyped, BookingRow, RegistrationRow, DepositRow
<1>4. ServicesTyped
  <2>1. 0 \in 0 .. MaxItems /\ 0 \in 0 .. Seats
    BY GuestAssumption
  <2>2. PICK b0 : b0 = CHOOSE b \in Bookings : TRUE
    OBVIOUS
  <2>3. [status |-> "none", booking |-> b0, posted |-> FALSE, items |-> 0, charged |-> 0] \in LaundryRow
    BY <1>1, <2>1, <2>2 DEF LaundryRow
  <2>4. [status |-> "none", people |-> 0, over |-> FALSE, posted |-> FALSE] \in OutingRow
    BY <2>1 DEF OutingRow
  <2>5. laundry = [o \in Orders |-> [status |-> "none", booking |-> b0, posted |-> FALSE, items |-> 0, charged |-> 0]]
    BY <2>2 DEF GuestInit
  <2> QED
    BY <2>3, <2>4, <2>5 DEF GuestInit, ServicesTyped
<1> QED
  BY <1>2, <1>3, <1>4 DEF GuestTyped

LEMMA ProfileMade ==
  ASSUME GuestTyped, NEW c \in People PROVE WithProfile(c) \in [People -> ProfileRow]
<1>1. PICK r : r = [profile[c] EXCEPT !.status = IF profile[c].status = "none" THEN "Active" ELSE profile[c].status]
  OBVIOUS
<1>2. profile \in [People -> ProfileRow] /\ profile[c] \in ProfileRow
  BY DEF GuestTyped, FileTyped
<1>3. r \in ProfileRow
  BY <1>1, <1>2 DEF ProfileRow
<1>4. WithProfile(c) = [profile EXCEPT ![c] = r]
  BY <1>1, <1>2 DEF WithProfile
<1> QED
  BY <1>2, <1>3, <1>4

LEMMA BookingMovesTyped ==
  ASSUME GuestTyped, BookingNext PROVE GuestTyped'
<1>1. /\ person \in [People -> People \cup {NoOne}] /\ profile \in [People -> ProfileRow]
      /\ booking \in [Bookings -> BookingRow] /\ registration \in [Bookings -> RegistrationRow]
  BY DEF GuestTyped, FileTyped, BookingsTyped
<1>2. ASSUME person' \in [People -> People \cup {NoOne}], profile' \in [People -> ProfileRow],
             booking' \in [Bookings -> BookingRow], registration' \in [Bookings -> RegistrationRow],
             UNCHANGED <<ban, privacy, deposit, laundry, outing>>
      PROVE  GuestTyped'
  BY <1>2 DEF GuestTyped, FileTyped, BookingsTyped, ServicesTyped
<1>3. ASSUME NEW b \in Bookings, NEW c \in People \cup {NoOne},
             booking' = [booking EXCEPT ![b] = [status |-> "Confirmed", guest |-> c]]
      PROVE  booking' \in [Bookings -> BookingRow]
  <2>1. [status |-> "Confirmed", guest |-> c] \in BookingRow
    BY DEF BookingRow
  <2> QED
    BY <1>1, <1>3, <2>1
<1>4. ASSUME NEW b \in Bookings, NEW st \in {"Confirmed", "Checked In", "Checked Out", "Cancelled"},
             booking' = [booking EXCEPT ![b].status = st]
      PROVE  booking' \in [Bookings -> BookingRow]
  BY <1>1, <1>4 DEF BookingRow
<1>5. PICK b \in Bookings :
        \/ \E p \in People, l \in Links : CreatePublicBooking(b, p, l) \/ RetryPublicBooking(b, p, l)
        \/ \E c \in People, manager \in BOOLEAN : BookAtDesk(b, c, manager)
        \/ ArriveAtDesk(b) \/ LeaveHotel(b)
        \/ \E l \in Links : CancelByGuest(l, b) \/ IssuePortalLink(l, b)
  BY Zenon DEF BookingNext
<1>6. ASSUME NEW p \in People, NEW l \in Links, CreatePublicBooking(b, p, l) PROVE GuestTyped'
  <2>1. PICK c : c = CustomerOf(p)
    OBVIOUS
  <2>2. c \in People
    BY <1>1, <2>1 DEF CustomerOf
  <2>3. /\ person' = [person EXCEPT ![p] = c] /\ profile' = WithProfile(c)
        /\ booking' = [booking EXCEPT ![b] = [status |-> "Confirmed", guest |-> c]]
        /\ UNCHANGED <<ban, privacy, registration, deposit, laundry, outing>>
    BY <1>6, <2>1 DEF CreatePublicBooking, serviceVars
  <2>4. person' \in [People -> People \cup {NoOne}]
    BY <1>1, <2>2, <2>3
  <2> QED
    BY <1>1, <1>2, <1>3, <2>2, <2>3, <2>4, ProfileMade
<1>7. ASSUME NEW p \in People, NEW l \in Links, RetryPublicBooking(b, p, l) PROVE GuestTyped'
  BY <1>1, <1>2, <1>7 DEF RetryPublicBooking, guestFile, serviceVars
<1>8. ASSUME NEW c \in People, NEW manager \in BOOLEAN, BookAtDesk(b, c, manager) PROVE GuestTyped'
  BY <1>1, <1>2, <1>3, <1>8 DEF BookAtDesk, guestFile, serviceVars
<1>9. CASE ArriveAtDesk(b)
  BY <1>1, <1>2, <1>4, <1>9 DEF ArriveAtDesk, guestFile, serviceVars
<1>10. CASE LeaveHotel(b)
  <2>1. Purged(b) \in RegistrationRow
    BY <1>1 DEF Purged, RegistrationRow
  <2>2. registration' \in [Bookings -> RegistrationRow]
    BY <1>1, <1>10, <2>1 DEF LeaveHotel
  <2> QED
    BY <1>1, <1>2, <1>4, <1>10, <2>2 DEF LeaveHotel, guestFile, serviceVars
<1>11. ASSUME NEW l \in Links, CancelByGuest(l, b) PROVE GuestTyped'
  BY <1>1, <1>2, <1>4, <1>11 DEF CancelByGuest, guestFile, serviceVars
<1>12. ASSUME NEW l \in Links, IssuePortalLink(l, b) PROVE GuestTyped'
  BY <1>1, <1>2, <1>12 DEF IssuePortalLink, guestFile, serviceVars
<1> QED
  BY <1>5, <1>6, <1>7, <1>8, <1>9, <1>10, <1>11, <1>12

\* Steps on links and forms leave the rest alone.
LEMMA LinkMovesTyped ==
  ASSUME GuestTyped, LinkNext \/ PrearrivalNext PROVE GuestTyped'
<1>1. UNCHANGED <<guestFile, booking, registration, deposit, serviceVars>>
  <2>1. CASE LinkNext
    BY <2>1 DEF LinkNext, LinkAges, EditLink, ExpireLinks
  <2>2. CASE PrearrivalNext
    BY <2>2 DEF PrearrivalNext, IssueForm, EditForm, LoadForm, CommitRevoke, WriterFails, CommitSubmit
  <2> QED
    BY <2>1, <2>2
<1> QED
  BY <1>1 DEF GuestTyped, FileTyped, BookingsTyped, ServicesTyped, guestFile, serviceVars

\* What is due of a deposit.
LEMMA DueTyped ==
  ASSUME NEW n \in 0 .. Required PROVE Required - n \in 0 .. Required
BY GuestAssumption

LEMMA PortalMovesTyped ==
  ASSUME GuestTyped, PortalNext PROVE GuestTyped'
<1>1. registration \in [Bookings -> RegistrationRow] /\ deposit \in [Bookings -> DepositRow]
  BY DEF GuestTyped, BookingsTyped
<1>2. ASSUME registration' \in [Bookings -> RegistrationRow], deposit' \in [Bookings -> DepositRow],
             UNCHANGED <<guestFile, booking, serviceVars>>
      PROVE  GuestTyped'
  BY <1>2 DEF GuestTyped, FileTyped, BookingsTyped, ServicesTyped, guestFile, serviceVars
<1>3. ASSUME NEW b \in Bookings, NEW st \in {"Draft", "Completed", "Verified"},
             registration' = [registration EXCEPT ![b].status = st]
      PROVE  registration' \in [Bookings -> RegistrationRow]
  BY <1>1, <1>3 DEF RegistrationRow
<1>4. ASSUME NEW b \in Bookings, NEW l \in Links, SubmitSelfCheckin(l, b) PROVE GuestTyped'
  BY <1>1, <1>2, <1>3, <1>4 DEF SubmitSelfCheckin
<1>5. ASSUME NEW b \in Bookings, NEW l \in Links, RequestOnlinePayment(l, b) PROVE GuestTyped'
  <2>1. PICK d : d = deposit[b]
    OBVIOUS
  <2>2. d \in DepositRow /\ d.received \in 0 .. Required /\ d.order \in 0 .. Required
        /\ d.requests \in SUBSET {"Sales Order", "Sales Invoice"}
    BY <1>1, <2>1 DEF DepositRow
  <2>3. Required - d.received \in 0 .. Required
    BY <2>2, DueTyped
  <2>4. PICK o : o = IF d.order = 0 THEN Required - d.received ELSE d.order
    OBVIOUS
  <2>5. o \in 0 .. Required
    BY <2>2, <2>3, <2>4
  <2>6. PICK e : e = [d EXCEPT !.requests = d.requests \cup {"Sales Invoice"}]
    OBVIOUS
  <2>7. PICK f : f = [d EXCEPT !.requests = d.requests \cup {"Sales Order"}, !.order = o]
    OBVIOUS
  <2>8. e \in DepositRow /\ f \in DepositRow
    BY <2>2, <2>5, <2>6, <2>7 DEF DepositRow
  <2>9. deposit' = [deposit EXCEPT ![b] = IF d.invoice THEN e ELSE f]
    <3>1. e = [d EXCEPT !.requests = @ \cup {"Sales Invoice"}]
      BY <2>2, <2>6 DEF DepositRow
    <3>2. f = [d EXCEPT !.requests = @ \cup {"Sales Order"}, !.order = IF @ = 0 THEN Required - d.received ELSE @]
      BY <2>2, <2>4, <2>7 DEF DepositRow
    <3> QED
      BY <1>5, <2>1, <3>1, <3>2, Zenon DEF RequestOnlinePayment
  <2>10. deposit' \in [Bookings -> DepositRow]
    BY <1>1, <2>8, <2>9
  <2> QED
    BY <1>1, <1>2, <1>5, <2>10 DEF RequestOnlinePayment
<1>6. ASSUME NEW b \in Bookings, NEW l \in Links, NEW staff \in BOOLEAN, UploadDocument(l, b, staff) PROVE GuestTyped'
  <2>1. registration' \in [Bookings -> RegistrationRow]
    BY <1>1, <1>6 DEF UploadDocument, RegistrationRow
  <2> QED
    BY <1>1, <1>2, <1>6, <2>1 DEF UploadDocument
<1>7. ASSUME NEW b \in Bookings, NEW st \in {"Draft", "Completed", "Verified"}, EditRegistration(b, st) PROVE GuestTyped'
  BY <1>1, <1>2, <1>3, <1>7 DEF EditRegistration
<1>8. ASSUME NEW b \in Bookings, EnsureRegistration(b) PROVE GuestTyped'
  BY <1>1, <1>2, <1>3, <1>8 DEF EnsureRegistration
<1>9. \A b \in Bookings : registration[b] \in RegistrationRow /\ Purged(b) \in RegistrationRow
  BY <1>1 DEF Purged, RegistrationRow
<1>10. ASSUME NEW b \in Bookings, PurgeByStaff(b) PROVE GuestTyped'
  <2>1. registration' \in [Bookings -> RegistrationRow]
    BY <1>1, <1>9, <1>10 DEF PurgeByStaff
  <2> QED
    BY <1>1, <1>2, <1>10, <2>1 DEF PurgeByStaff
<1>11. ASSUME NEW b \in Bookings, NEW n \in 0 .. Required, NEW i \in BOOLEAN,
              NEW R \in SUBSET {"Sales Order", "Sales Invoice"},
              MoneyMoves(b, [deposit[b] EXCEPT !.received = n, !.invoice = i, !.requests = R])
       PROVE  GuestTyped'
  <2>1. PICK d : d = [deposit[b] EXCEPT !.received = n, !.invoice = i, !.requests = R]
    OBVIOUS
  <2>2. d \in DepositRow
    BY <1>1, <2>1 DEF DepositRow
  <2>3. deposit' = [deposit EXCEPT ![b] = d]
    BY <1>11, <2>1 DEF MoneyMoves
  <2>4. deposit' \in [Bookings -> DepositRow]
    BY <1>1, <2>2, <2>3
  <2> QED
    BY <1>1, <1>2, <1>11, <2>4 DEF MoneyMoves
<1>12. CASE PurgeDaily
  <2>1. PICK old : registration' = [b \in Bookings |-> IF b \in old THEN Purged(b) ELSE registration[b]]
    BY <1>12, Zenon DEF PurgeDaily
  <2>2. registration' \in [Bookings -> RegistrationRow]
    BY <1>9, <2>1
  <2> QED
    BY <1>1, <1>2, <1>12, <2>2 DEF PurgeDaily
<1> QED
  BY <1>4, <1>5, <1>6, <1>7, <1>8, <1>10, <1>11, <1>12 DEF PortalNext

-----------------------------------------------------------------------------
LEMMA ProfileShown ==
  ASSUME GuestTyped, NEW k \in Bans, NEW r PROVE Shown(k, r) \in [People -> ProfileRow]
<1>1. profile \in [People -> ProfileRow]
  BY DEF GuestTyped, FileTyped
<1>2. ASSUME NEW n \in Bans \cup {0}, NEW st \in {"Active", "Restricted"}, NEW f,
             f = [profile EXCEPT ![r.guest].record = n, ![r.guest].status = st]
      PROVE  f \in [People -> ProfileRow]
  <2>1. ASSUME NEW c \in People PROVE f[c] \in ProfileRow
    <3>1. profile[c] \in ProfileRow /\ [profile[c] EXCEPT !.record = n, !.status = st] \in ProfileRow
      BY <1>1 DEF ProfileRow
    <3>2. CASE c = r.guest
      <4>1. f[c] = [profile[c] EXCEPT !.record = n, !.status = st]
        BY <1>1, <1>2, <3>1, <3>2 DEF ProfileRow
      <4> QED
        BY <3>1, <4>1
    <3>3. CASE c # r.guest
      BY <1>1, <1>2, <3>1, <3>3
    <3> QED
      BY <3>2, <3>3
  <2>2. f = [c \in People |-> f[c]]
    BY <1>1, <1>2
  <2> QED
    BY <2>1, <2>2
<1>3. \/ Shown(k, r) = [profile EXCEPT ![r.guest].record = k,
            ![r.guest].status = IF r.level = "Warning" THEN "Active" ELSE "Restricted"]
      \/ Shown(k, r) = [profile EXCEPT ![r.guest].record = 0, ![r.guest].status = "Active"]
      \/ Shown(k, r) = profile
  BY Zenon DEF Shown
<1>4. CASE Shown(k, r) = [profile EXCEPT ![r.guest].record = k,
             ![r.guest].status = IF r.level = "Warning" THEN "Active" ELSE "Restricted"]
  <2>1. (IF r.level = "Warning" THEN "Active" ELSE "Restricted") \in {"Active", "Restricted"}
    OBVIOUS
  <2> QED
    BY <1>2, <1>4, <2>1
<1>5. CASE Shown(k, r) = [profile EXCEPT ![r.guest].record = 0, ![r.guest].status = "Active"]
  BY <1>2, <1>5
<1> QED
  BY <1>1, <1>3, <1>4, <1>5

LEMMA BanSaved ==
  ASSUME GuestTyped, NEW k \in Bans, NEW r \in BanRow, SaveBan(k, r)
  PROVE  GuestTyped'
<1>1. profile' \in [People -> ProfileRow]
  BY ProfileShown DEF SaveBan
<1>2. ban' \in [Bans -> BanRow]
  BY DEF SaveBan, GuestTyped, FileTyped
<1> QED
  BY <1>1, <1>2 DEF SaveBan, GuestTyped, FileTyped, BookingsTyped, ServicesTyped, serviceVars

\* A step on the file of the guests.
LEMMA FileWritten ==
  ASSUME GuestTyped, FileTyped', UNCHANGED <<booking, registration, deposit, serviceVars>>
  PROVE  GuestTyped'
BY DEF GuestTyped, BookingsTyped, ServicesTyped, serviceVars

LEMMA BanMovesTyped ==
  ASSUME GuestTyped, NEW k \in Bans,
         \/ \E c \in People, level \in {"Warning", "Block Online", "Block All"} : CreateBan(k, c, level)
         \/ BanEnds(k) \/ ExpireBan(k) \/ \E st \in {"Draft", "Active", "Revoked"} : EditBan(k, st)
  PROVE  GuestTyped'
<1>1. FileTyped /\ ban[k] \in BanRow
  BY DEF GuestTyped, FileTyped
<1>2. \A st \in {"Draft", "Active", "Revoked", "Expired"} : [ban[k] EXCEPT !.status = st] \in BanRow
  BY <1>1 DEF BanRow
<1>3. ASSUME NEW c \in People, NEW level \in {"Warning", "Block Online", "Block All"}, CreateBan(k, c, level)
      PROVE  GuestTyped'
  <2>1. PICK r : r = [status |-> "Draft", guest |-> c, level |-> level, over |-> FALSE]
    OBVIOUS
  <2>2. r \in BanRow
    BY <2>1 DEF BanRow, BanLevels
  <2> QED
    BY <1>3, <2>1, <2>2, BanSaved DEF CreateBan
<1>4. CASE BanEnds(k)
  <2>1. [ban[k] EXCEPT !.over = TRUE] \in BanRow
    BY <1>1 DEF BanRow
  <2>2. ban' = [ban EXCEPT ![k] = [ban[k] EXCEPT !.over = TRUE]]
    BY <1>4, Zenon DEF BanEnds
  <2>3. FileTyped'
    BY <1>1, <1>4, <2>1, <2>2 DEF BanEnds, FileTyped
  <2> QED
    BY <1>4, <2>3, FileWritten DEF BanEnds
<1>5. CASE ExpireBan(k)
  BY <1>2, <1>5, BanSaved DEF ExpireBan
<1>6. ASSUME NEW st \in {"Draft", "Active", "Revoked"}, EditBan(k, st) PROVE GuestTyped'
  BY <1>2, <1>6, BanSaved DEF EditBan
<1> QED
  BY <1>3, <1>4, <1>5, <1>6

LEMMA MergeTyped ==
  ASSUME GuestTyped, NEW c \in People, NEW d \in People, MergeGuests(d, c)
  PROVE  GuestTyped'
<1>1. FileTyped
  BY DEF GuestTyped
<1> DEFINE moved(x) == IF x = d THEN c ELSE x
<1>2. \A x \in People \cup {NoOne} : moved(x) \in People \cup {NoOne}
  OBVIOUS
<1>3. /\ person' = [p \in People |-> moved(person[p])]
      /\ profile' = [profile EXCEPT ![d] = [status |-> "none", record |-> 0, hold |-> FALSE]]
      /\ ban' = [k \in Bans |-> [ban[k] EXCEPT !.guest = moved(@)]]
      /\ privacy' = [q \in PrivacyRequests |-> [privacy[q] EXCEPT !.guest = moved(@)]]
  BY Zenon DEF MergeGuests
<1> HIDE DEF moved
<1>4. person' \in [People -> People \cup {NoOne}]
  BY <1>1, <1>2, <1>3 DEF FileTyped
<1>5. profile' \in [People -> ProfileRow]
  BY <1>1, <1>3 DEF FileTyped, ProfileRow
<1>6. ban' \in [Bans -> BanRow]
  <2>1. \A k \in Bans : [ban[k] EXCEPT !.guest = moved(@)] \in BanRow
    BY <1>1, <1>2 DEF FileTyped, BanRow
  <2> QED
    BY <1>3, <2>1
<1>7. privacy' \in [PrivacyRequests -> PrivacyRow]
  <2>1. \A q \in PrivacyRequests : [privacy[q] EXCEPT !.guest = moved(@)] \in PrivacyRow
    BY <1>1, <1>2 DEF FileTyped, PrivacyRow
  <2> QED
    BY <1>3, <2>1
<1>8. FileTyped'
  BY <1>4, <1>5, <1>6, <1>7 DEF FileTyped
<1> QED
  BY <1>8, FileWritten DEF MergeGuests

LEMMA HoldMovesTyped ==
  ASSUME GuestTyped, NEW c \in People, EditHold(c) \/ OpenGuestProfile(c)
  PROVE  GuestTyped'
<1>1. FileTyped /\ profile[c] \in ProfileRow
  BY DEF GuestTyped, FileTyped
<1>2. CASE EditHold(c)
  <2>1. profile' \in [People -> ProfileRow]
    <3>1. PICK h : h = ~ profile[c].hold
      OBVIOUS
    <3>2. h \in BOOLEAN
      BY <3>1, Zenon
    <3>3. [profile[c] EXCEPT !.hold = h] \in ProfileRow
      BY <1>1, <3>2 DEF ProfileRow
    <3>4. profile' = [profile EXCEPT ![c] = [profile[c] EXCEPT !.hold = h]]
      BY <1>1, <1>2, <3>1 DEF EditHold, FileTyped, ProfileRow
    <3> QED
      BY <1>1, <3>3, <3>4 DEF FileTyped
  <2>2. FileTyped'
    BY <1>1, <1>2, <2>1 DEF EditHold, FileTyped
  <2> QED
    BY <1>2, <2>2, FileWritten DEF EditHold
<1>3. CASE OpenGuestProfile(c)
  <2>1. FileTyped'
    BY <1>1, <1>3, ProfileMade DEF OpenGuestProfile, FileTyped
  <2> QED
    BY <1>3, <2>1, FileWritten DEF OpenGuestProfile
<1> QED
  BY <1>2, <1>3

LEMMA PrivacyTyped ==
  ASSUME GuestTyped, NEW q \in PrivacyRequests,
         \/ \E l \in Links, b \in Bookings, type \in {"Anonymization", "Data Access"} :
              SubmitPrivacyRequest(l, b, q, type)
         \/ \E st \in {"Cooling Period", "Approved", "Rejected"} : EditPrivacyRequest(q, st)
         \/ CoolingEnds(q) \/ ProcessPrivacyRequest(q)
  PROVE  GuestTyped'
<1>1. FileTyped /\ privacy[q] \in PrivacyRow /\ booking \in [Bookings -> BookingRow]
  BY DEF GuestTyped, FileTyped, BookingsTyped
<1>2. ASSUME NEW r \in PrivacyRow, privacy' = [privacy EXCEPT ![q] = r],
             person' \in [People -> People \cup {NoOne}], profile' \in [People -> ProfileRow],
             UNCHANGED <<ban, booking, registration, deposit, serviceVars>>
      PROVE  GuestTyped'
  <2>1. FileTyped'
    BY <1>1, <1>2 DEF FileTyped
  <2> QED
    BY <1>2, <2>1, FileWritten
<1>3. /\ \A st \in {"Cooling Period", "Approved", "Rejected", "Completed"} : [privacy[q] EXCEPT !.status = st] \in PrivacyRow
      /\ [privacy[q] EXCEPT !.ripe = TRUE] \in PrivacyRow
  BY <1>1 DEF PrivacyRow
<1>4. person \in [People -> People \cup {NoOne}] /\ profile \in [People -> ProfileRow]
  BY <1>1 DEF FileTyped
<1>5. ASSUME NEW l \in Links, NEW b \in Bookings, NEW type \in {"Anonymization", "Data Access"},
             SubmitPrivacyRequest(l, b, q, type)
      PROVE  GuestTyped'
  <2>1. PICK r : r = [guest |-> booking[b].guest, ripe |-> FALSE, type |-> type, status |-> "Received"]
    OBVIOUS
  <2>2. booking[b].guest \in People \cup {NoOne}
    BY <1>1 DEF BookingRow
  <2>3. r \in PrivacyRow
    BY <2>1, <2>2 DEF PrivacyRow
  <2> QED
    BY <1>2, <1>4, <1>5, <2>1, <2>3 DEF SubmitPrivacyRequest
<1>6. ASSUME NEW st \in {"Cooling Period", "Approved", "Rejected"}, EditPrivacyRequest(q, st) PROVE GuestTyped'
  <2>1. PICK r : r = [privacy[q] EXCEPT !.status = st]
    OBVIOUS
  <2>2. privacy' = [privacy EXCEPT ![q] = r]
    BY <1>6, <2>1, Zenon DEF EditPrivacyRequest
  <2> QED
    BY <1>2, <1>3, <1>4, <1>6, <2>1, <2>2 DEF EditPrivacyRequest
<1>7. CASE CoolingEnds(q)
  <2>1. PICK r : r = [privacy[q] EXCEPT !.ripe = TRUE]
    OBVIOUS
  <2>2. privacy' = [privacy EXCEPT ![q] = r]
    BY <1>7, <2>1, Zenon DEF CoolingEnds
  <2> QED
    BY <1>2, <1>3, <1>4, <1>7, <2>1, <2>2 DEF CoolingEnds
<1>8. CASE ProcessPrivacyRequest(q)
  <2>1. PICK r, c, an : /\ r = [privacy[q] EXCEPT !.status = "Completed"]
                        /\ c = privacy[q].guest /\ an = (privacy[q].type = "Anonymization")
    OBVIOUS
  <2>2. privacy' = [privacy EXCEPT ![q] = r]
    BY <1>8, <2>1, Zenon DEF ProcessPrivacyRequest
  <2>3. person' \in [People -> People \cup {NoOne}]
    <3>1. person' = [p \in People |-> IF privacy[q].type = "Anonymization" /\ person[p] = privacy[q].guest
                                      THEN NoOne ELSE person[p]]
      BY <1>8, Zenon DEF ProcessPrivacyRequest
    <3> QED
      BY <1>4, <3>1
  <2>4. profile' \in [People -> ProfileRow]
    <3>1. \/ profile' = [profile EXCEPT ![c].status = "Anonymized", ![c].hold = FALSE]
          \/ profile' = profile
      BY <1>8, <2>1, Zenon DEF ProcessPrivacyRequest
    <3>2. ASSUME profile' = [profile EXCEPT ![c].status = "Anonymized", ![c].hold = FALSE]
          PROVE  profile' \in [People -> ProfileRow]
      <4>1. ASSUME NEW x \in People PROVE profile'[x] \in ProfileRow
        <5>1. profile[x] \in ProfileRow /\ [profile[x] EXCEPT !.status = "Anonymized", !.hold = FALSE] \in ProfileRow
          BY <1>4 DEF ProfileRow
        <5>2. CASE x = c
          <6>1. profile'[x] = [profile[x] EXCEPT !.status = "Anonymized", !.hold = FALSE]
            BY <1>4, <3>2, <5>1, <5>2 DEF ProfileRow
          <6> QED
            BY <5>1, <6>1
        <5>3. CASE x # c
          BY <1>4, <3>2, <5>1, <5>3
        <5> QED
          BY <5>2, <5>3
      <4>2. profile' = [x \in People |-> profile'[x]]
        BY <1>4, <3>2
      <4> QED
        BY <4>1, <4>2
    <3> QED
      BY <1>4, <3>1, <3>2
  <2> QED
    BY <1>2, <1>3, <1>8, <2>1, <2>2, <2>3, <2>4 DEF ProcessPrivacyRequest
<1> QED
  BY <1>5, <1>6, <1>7, <1>8

LEMMA FileMovesTyped ==
  ASSUME GuestTyped, FileNext PROVE GuestTyped'
BY BanMovesTyped, MergeTyped, HoldMovesTyped, PrivacyTyped DEF FileNext

-----------------------------------------------------------------------------
LEMMA LaundryTyped ==
  ASSUME GuestTyped, NEW o \in Orders,
         \/ \E l \in Links, b \in Bookings : RequestLaundry(l, b, o)
         \/ \E n \in 0 .. MaxItems : CountLaundry(o, n)
         \/ PostLaundry(o) \/ \E st \in LaundryStates : UpdateLaundry(o, st)
  PROVE  GuestTyped'
<1>1. laundry \in [Orders -> LaundryRow] /\ outing \in [Outings -> OutingRow]
  BY DEF GuestTyped, ServicesTyped
<1>2. PICK r : r = laundry[o]
  OBVIOUS
<1>3. r \in LaundryRow
  BY <1>1, <1>2
<1>4. ASSUME NEW s \in LaundryRow, laundry' = [laundry EXCEPT ![o] = s],
             UNCHANGED <<guestFile, booking, registration, deposit, outing>>
      PROVE  GuestTyped'
  BY <1>1, <1>4 DEF GuestTyped, FileTyped, BookingsTyped, ServicesTyped, guestFile
<1>5. Posted(r) \in LaundryRow
  BY <1>3 DEF Posted, LaundryRow, LaundryStates
<1>6. ASSUME NEW l \in Links, NEW b \in Bookings, RequestLaundry(l, b, o) PROVE GuestTyped'
  <2>1. PICK s : s = [r EXCEPT !.status = "Requested", !.booking = b]
    OBVIOUS
  <2>2. s \in LaundryRow
    BY <1>3, <2>1 DEF LaundryRow, LaundryStates
  <2>3. laundry' = [laundry EXCEPT ![o] = s]
    BY <1>1, <1>2, <1>3, <1>6, <2>1 DEF RequestLaundry, LaundryRow
  <2> QED
    BY <1>4, <1>6, <2>2, <2>3 DEF RequestLaundry
<1>7. ASSUME NEW n \in 0 .. MaxItems, CountLaundry(o, n) PROVE GuestTyped'
  <2>1. PICK s : s = [r EXCEPT !.items = n]
    OBVIOUS
  <2>2. s \in LaundryRow
    BY <1>3, <2>1 DEF LaundryRow
  <2>3. laundry' = [laundry EXCEPT ![o] = s]
    BY <1>2, <1>7, <2>1, Zenon DEF CountLaundry
  <2> QED
    BY <1>4, <1>7, <2>2, <2>3 DEF CountLaundry
<1>8. CASE PostLaundry(o)
  <2>1. laundry' = [laundry EXCEPT ![o] = Posted(r)]
    BY <1>2, <1>8, Zenon DEF PostLaundry
  <2> QED
    BY <1>4, <1>5, <1>8, <2>1 DEF PostLaundry
<1>9. ASSUME NEW st \in LaundryStates, UpdateLaundry(o, st) PROVE GuestTyped'
  <2>1. PICK s : s = [r EXCEPT !.status = st]
    OBVIOUS
  <2>2. s \in LaundryRow
    BY <1>3, <2>1 DEF LaundryRow
  <2>3. laundry' = [laundry EXCEPT ![o] = Posted(r)] \/ laundry' = [laundry EXCEPT ![o] = s]
    BY <1>2, <1>9, <2>1, Zenon DEF UpdateLaundry
  <2> QED
    BY <1>4, <1>5, <1>9, <2>2, <2>3 DEF UpdateLaundry
<1> QED
  BY <1>6, <1>7, <1>8, <1>9

LEMMA OutingTyped ==
  ASSUME GuestTyped, SessionTakesPlace \/ \E x \in Outings :
           \/ \E l \in Links, b \in Bookings, n \in 1 .. Seats : BookExperience(l, b, x, n)
           \/ ConfirmExperience(x) \/ PostExperience(x)
  PROVE  GuestTyped'
<1>1. outing \in [Outings -> OutingRow]
  BY DEF GuestTyped, ServicesTyped
<1>2. ASSUME outing' \in [Outings -> OutingRow],
             UNCHANGED <<guestFile, booking, registration, deposit, laundry>>
      PROVE  GuestTyped'
  BY <1>2 DEF GuestTyped, FileTyped, BookingsTyped, ServicesTyped, guestFile
<1>3. CASE SessionTakesPlace
  <2>1. \A x \in Outings : [outing[x] EXCEPT !.over = TRUE] \in OutingRow
    BY <1>1 DEF OutingRow
  <2> QED
    BY <1>2, <1>3, <2>1 DEF SessionTakesPlace
<1>4. ASSUME NEW x \in Outings, NEW l \in Links, NEW b \in Bookings, NEW n \in 1 .. Seats, BookExperience(l, b, x, n)
      PROVE  GuestTyped'
  <2>1. n \in 0 .. Seats
    OBVIOUS
  <2>2. outing' \in [Outings -> OutingRow]
    BY <1>1, <1>4, <2>1 DEF BookExperience, OutingRow
  <2> QED
    BY <1>2, <1>4, <2>2 DEF BookExperience
<1>5. ASSUME NEW x \in Outings, ConfirmExperience(x) \/ PostExperience(x) PROVE GuestTyped'
  <2>1. \A st \in {"Requested", "Confirmed"} : [outing[x] EXCEPT !.status = st] \in OutingRow
    BY <1>1 DEF OutingRow
  <2>2. [outing[x] EXCEPT !.posted = TRUE] \in OutingRow
    BY <1>1 DEF OutingRow
  <2>3. \/ outing' = [outing EXCEPT ![x] = [outing[x] EXCEPT !.status = "Confirmed"]]
        \/ outing' = [outing EXCEPT ![x] = [outing[x] EXCEPT !.posted = TRUE]]
    BY <1>5, Zenon DEF ConfirmExperience, PostExperience
  <2>4. outing' \in [Outings -> OutingRow]
    BY <1>1, <2>1, <2>2, <2>3
  <2> QED
    BY <1>2, <1>5, <2>4 DEF ConfirmExperience, PostExperience
<1> QED
  BY <1>3, <1>4, <1>5

LEMMA GuestStepTyped == GuestTyped /\ [GuestNext]_guestVars => GuestTyped'
<1>1. ASSUME GuestTyped, UNCHANGED guestVars PROVE GuestTyped'
  BY <1>1 DEF guestVars, GuestTyped, FileTyped, BookingsTyped, ServicesTyped
<1>2. ASSUME GuestTyped, GuestServiceNext PROVE GuestTyped'
  BY <1>2, LaundryTyped, OutingTyped DEF GuestServiceNext
<1> QED
  BY <1>1, <1>2, BookingMovesTyped, LinkMovesTyped, PortalMovesTyped, FileMovesTyped DEF GuestNext

LEMMA GuestIsTyped == GuestSpec => []GuestTypeOK
<1> QED
  BY FormsConsistent, GuestInitTyped, GuestStepTyped, GuestTypes, PTL DEF GuestSpec, FormInv

-----------------------------------------------------------------------------
(***************************************************************************)
(* The four modules together, and the instance that TLC checks.            *)
(***************************************************************************)

\* Every variable of the four modules has its type, for any groups, entries, guests and sales:
\* no step of group_booking.py, services.py, guest_portal.py or revenue.py writes a status, a
\* number or a reference that its table does not allow.
THEOREM CommerceTyped ==
  GroupSpec /\ CounterSpec /\ GuestSpec /\ RevenueSpec => []CommerceTypeOK
<1>1. GroupTypeOK /\ CounterTypeOK /\ GuestTypeOK /\ RevenueTypeOK => CommerceTypeOK
  BY DEF CommerceTypeOK
<1> QED
  BY <1>1, GroupIsTyped, CounterIsTyped, GuestIsTyped, RevenueTyped, PTL

\* A step of a traffic is a step of its module, and stutters in the others.
LEMMA TrafficSteps ==
  ASSUME [MCNext]_commerceVars
  PROVE  /\ [GroupNext]_groupVars /\ [CounterNext]_counterVars
         /\ [GuestNext]_guestVars /\ [RevenueNext]_revenueVars
<1>1. CASE UNCHANGED commerceVars
  BY <1>1 DEF commerceVars
<1>2. MCGroups => GroupNext
  BY DEF MCGroups, GroupNext
<1>3. MCCounter => CounterNext
  BY DEF MCCounter, CounterNext
<1>4. MCGuests => GuestNext
  <2>1. EnsureRegistration(b1) \/ EditRegistration(b1, "Verified") => PortalNext
    BY MCCommerceAssumption DEF PortalNext
  <2> QED
    BY <2>1 DEF MCGuests, GuestNext
<1>5. MCRevenue => RevenueNext
  BY MCCommerceAssumption DEF MCRevenue, RevenueNext, SaleNext
<1> QED
  BY <1>1, <1>2, <1>3, <1>4, <1>5 DEF MCNext

\* What TLC explores are behaviours of the four modules as they are specified, so that
\* each theorem on one of them holds of the instances, and the instances add nothing to it.
THEOREM InstancesAreBehaviours ==
  MCSpec => GroupSpec /\ CounterSpec /\ GuestSpec /\ RevenueSpec
<1>1. MCInit => GroupInit /\ CounterInit /\ GuestInit /\ RevenueInit
  BY DEF MCInit
<1> QED
  BY <1>1, TrafficSteps, PTL DEF MCSpec, GroupSpec, CounterSpec, GuestSpec, RevenueSpec
=============================================================================
