---------------------------- MODULE FolioLedger ----------------------------
(***************************************************************************)
(* What the folios of a property promise about money, with no rows, forms  *)
(* or hooks in them: a charge is posted once; its amount is open on a      *)
(* folio or billed on one; it is moved, billed and given back, and none    *)
(* appears or is lost.  A bill takes everything that is open on its folio. *)
(* One operation breaks the promise, and is a step of its own: reversing   *)
(* the reversal of a split forgets the remainder, and reversing that in    *)
(* turn finds it again.                                                    *)
(*                                                                         *)
(* FolioBilling, the model of the code, is checked to implement it.        *)
(***************************************************************************)
EXTENDS Integers

CONSTANTS Folios,
          Charges,
          Worth      \* Worth[c]: the amount of charge c

VARIABLES posted,    \* the charges posted so far
          open,      \* open[f]: charged on folio f and on no active invoice
          billed,    \* billed[f]: on the draft and submitted invoices of f
          lost       \* what is forgotten of the remainders of splits

vars == <<posted, open, billed, lost>>

Init ==
    /\ posted = {}
    /\ open = [f \in Folios |-> 0]
    /\ billed = [f \in Folios |-> 0]
    /\ lost = 0

Post(f, c) ==
    /\ c \notin posted
    /\ posted' = posted \cup {c}
    /\ open' = [open EXCEPT ![f] = @ + Worth[c]]
    /\ UNCHANGED <<billed, lost>>

Move(f, g) ==
    /\ f # g
    /\ UNCHANGED <<posted, billed, lost>>
    /\ \E v \in 1..open[f] : open' = [open EXCEPT ![f] = @ - v, ![g] = @ + v]

\* the whole charge leaves f, only the part that was once moved arrives at g
Forget(f, g) ==
    /\ f # g
    /\ UNCHANGED <<posted, billed>>
    /\ \E v \in 1..open[f] : \E rest \in 1..(v - 1) :
          /\ open' = [open EXCEPT ![f] = @ - v, ![g] = @ + (v - rest)]
          /\ lost' = lost + rest

\* and the whole charge is back on g
Recall(f, g) ==
    /\ f # g
    /\ UNCHANGED <<posted, billed>>
    /\ \E v \in 1..open[f] : \E rest \in 1..lost :
          /\ open' = [open EXCEPT ![f] = @ - v, ![g] = @ + (v + rest)]
          /\ lost' = lost - rest

Bill(f) ==
    /\ open[f] > 0
    /\ billed' = [billed EXCEPT ![f] = @ + open[f]]
    /\ open' = [open EXCEPT ![f] = 0]
    /\ UNCHANGED <<posted, lost>>

\* an invoice is cancelled
GiveBack(f) ==
    /\ UNCHANGED <<posted, lost>>
    /\ \E v \in 1..billed[f] :
          /\ billed' = [billed EXCEPT ![f] = @ - v]
          /\ open' = [open EXCEPT ![f] = @ + v]

\* Every step changes what is open; TLC looks at that first.
Next ==
    /\ open' # open
    /\ \E f \in Folios :
          \/ \E c \in Charges : Post(f, c)
          \/ \E g \in Folios : Move(f, g) \/ Forget(f, g) \/ Recall(f, g)
          \/ Bill(f)
          \/ GiveBack(f)

Spec == Init /\ [][Next]_vars
=============================================================================
