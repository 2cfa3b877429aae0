---------------------------- MODULE FolioBilling ----------------------------
(***************************************************************************)
(* Folios, charge transfers and Sales Invoices (billing.py, sync.py,       *)
(* reconcile.py, integrations/, the invoice commands of api/__init__.py    *)
(* and group_booking.py).                                                  *)
(*                                                                         *)
(* A handler loads folios (get_doc, reload), changes the document in       *)
(* memory and saves it.  doc.save() compares the modification time of the  *)
(* folio with the loaded one and raises if it has moved, and it writes     *)
(* EVERY charge row back as it was loaded or changed.  A hook writes       *)
(* single fields with db.set_value: on the folio that moves the time, on a *)
(* charge row, or with update_modified=False, it does not.                 *)
(*                                                                         *)
(* A handler is therefore two steps, Load and the commit of its saves.     *)
(* Whoever moves the time of a loaded folio makes the handler fail: all    *)
(* its save can do is raise, and it is rolled back at once.  The locks     *)
(* that a transfer takes before it reloads spare it that failure and       *)
(* change no outcome.                                                      *)
(*                                                                         *)
(* A transfer has one line, a folio one customer and one tax profile.      *)
(***************************************************************************)
EXTENDS Integers, FiniteSets, FiniteSetsExt

CONSTANTS
    Folios,           \* guest, group and city ledger folios
    PricedFolios,     \* folios whose rows carry an amount when they are saved
    Charges,          \* idempotency keys of posted charges
    PosCharges,       \* those that mirror lines of a POS Invoice
    Worth,            \* Worth[c]: qty * rate of charge c
    Amounts,          \* what a request may ask to move; 0: the whole row
    Transfers,        \* idempotency keys of transfers and reversals
    Workers,          \* web workers and background jobs
    MaxRevision,      \* bound on the retries of one invoice key
    Kinds,            \* which handlers run
    RepeatableRead,   \* the isolation level reconciliation runs at
    None              \* no folio, row, invoice or transfer

AllKinds == {"post", "transfer", "reverse", "invoice", "reconcile", "pos_cancel"}

ASSUME FolioAssumption ==
    /\ PricedFolios \subseteq Folios
    /\ PosCharges \subseteq Charges
    /\ Worth \in [Charges -> Nat \ {0}]
    /\ Amounts \subseteq Nat
    /\ Charges \cap (Transfers \X {"moved", "rest"}) = {}
    /\ MaxRevision \in Nat
    /\ Kinds \subseteq AllKinds
    /\ RepeatableRead \in BOOLEAN

\* A charge row is posted, or appended by a transfer: the part that moved and,
\* of a split, the remainder that stayed.
Rows == Charges \cup (Transfers \X {"moved", "rest"})

\* A Sales Invoice is named by its sync key: the rows it was made of and a revision.
Invoice == [rows : SUBSET Rows, revision : 1..MaxRevision]

ASSUME NoneAssumption == None \notin Folios \cup Rows \cup Transfers \cup Invoice \cup Workers

VARIABLES
    rows,        \* the charge rows of all folios
    billed,      \* billed[f]: the status of folio f is Invoiced, not Open
    transfers,   \* tabHotel Folio Transfer with its line
    drafts, submitted, cancelled   \* the Sales Invoices by docstatus

db == <<rows, billed, transfers, drafts, submitted, cancelled>>

VARIABLES
    req,         \* the request each worker serves, or NoRequest
    loaded,      \* the folios it has loaded
    form         \* their rows and status as loaded, and the invoices active then

handlers == <<req, loaded, form>>

vars == <<rows, billed, transfers, drafts, submitted, cancelled, req, loaded, form>>
-----------------------------------------------------------------------------
\* A row that exists is on a folio and worth something.
Row == [folio : Folios, value : Nat \ {0}, void : BOOLEAN,
        invoice : Invoice \cup {None}, invoiced : BOOLEAN]

NoRow == [folio |-> None, value |-> 0, void |-> FALSE, invoice |-> None, invoiced |-> FALSE]

Transfer == [status : {"None", "Applied", "Reversed"}, reversal : BOOLEAN,
             source : Rows \cup {None}, moved : Rows \cup {None}, rest : Rows \cup {None}]

NoTransfer == [status |-> "None", reversal |-> FALSE,
               source |-> None, moved |-> None, rest |-> None]

Request ==
    [kind : {"post"}, folio : Folios, charge : Charges]
    \cup [kind : {"transfer"}, key : Transfers, source : Rows, to : Folios, amount : Nat]
    \cup [kind : {"reverse"}, key : Transfers, transfer : Transfers]
    \cup [kind : {"invoice", "reconcile"}, folio : Folios]

NoRequest == [kind |-> "none"]

Active == drafts \cup submitted

Form == [rows : [Rows -> Row \cup {NoRow}], billed : [Folios -> BOOLEAN],
         active : SUBSET Invoice, submitted : SUBSET Invoice]

NoForm == [rows |-> [r \in Rows |-> NoRow], billed |-> [f \in Folios |-> FALSE],
           active |-> {}, submitted |-> {}]

TypeOK ==
    /\ rows \in [Rows -> Row \cup {NoRow}]
    /\ billed \in [Folios -> BOOLEAN]
    /\ transfers \in [Transfers -> Transfer]
    /\ drafts \subseteq Invoice /\ submitted \subseteq Invoice /\ cancelled \subseteq Invoice
    /\ req \in [Workers -> Request \cup {NoRequest}]
    /\ loaded \in [Workers -> SUBSET Folios]
    /\ form \in [Workers -> Form]

Init ==
    /\ rows = [r \in Rows |-> NoRow]
    /\ billed = [f \in Folios |-> FALSE]
    /\ transfers = [t \in Transfers |-> NoTransfer]
    /\ drafts = {} /\ submitted = {} /\ cancelled = {}
    /\ req = [w \in Workers |-> NoRequest]
    /\ loaded = [w \in Workers |-> {}]
    /\ form = [w \in Workers |-> NoForm]
-----------------------------------------------------------------------------
(* Loading documents, and what others do to a loaded one. *)

\* The folios of the request are read; what the request does not use is not kept.
Load(w, q, folios) ==
    /\ req[w] = NoRequest
    /\ q.kind \in Kinds
    /\ req' = [req EXCEPT ![w] = q]
    /\ loaded' = [loaded EXCEPT ![w] = folios]
    /\ form' = [form EXCEPT ![w] =
          [rows |-> [r \in Rows |-> IF rows[r].folio \in folios THEN rows[r] ELSE NoRow],
           billed |-> [f \in Folios |-> f \in folios /\ billed[f]],
           active |-> IF q.kind = "reconcile" THEN Active ELSE {},
           submitted |-> IF q.kind = "reconcile" THEN submitted ELSE {}]]
    /\ UNCHANGED db

\* mutant: a save overwrites a folio that was changed after it was loaded
MutOutdatedNever(v, fs) == FALSE

\* Worker v compares the modification times of its folios, and one of fs has moved.
\* Reconciliation saves no document and compares nothing.
Outdated(v, fs) ==
    req[v].kind # "reconcile" /\ loaded[v] \cap fs # {}

\* Worker w (or nobody) ends its request and moves the times of the folios in fs:
\* the outdated requests end in TimestampMismatchError.
Touch(w, fs) ==
    /\ req' = [v \in Workers |-> IF v = w \/ Outdated(v, fs) THEN NoRequest ELSE req[v]]
    /\ loaded' = [v \in Workers |-> IF v = w \/ Outdated(v, fs) THEN {} ELSE loaded[v]]
    /\ form' = [v \in Workers |-> IF v = w \/ Outdated(v, fs) THEN NoForm ELSE form[v]]

\* a refused request, or any other exception
Rollback(w) ==
    /\ req[w] # NoRequest
    /\ Touch(w, {})
    /\ UNCHANGED db

\* The rows that the saves of worker w write, before the changes it made to them.
Saved(w) ==
    [r \in Rows |-> IF form[w].rows[r].folio \in loaded[w] THEN form[w].rows[r] ELSE rows[r]]

SavedBilled(w) == [f \in Folios |-> IF f \in loaded[w] THEN form[w].billed[f] ELSE billed[f]]
-----------------------------------------------------------------------------
(* Posting: night audit, laundry, experiences, fees, mirrored POS lines. *)

\* Lines of a POS Invoice are mirrored into guest folios.
LoadPost(w, f, c) ==
    /\ c \in PosCharges => f \notin PricedFolios
    /\ Load(w, [kind |-> "post", folio |-> f, charge |-> c], {f})

NewRow(f, v) == [folio |-> f, value |-> v, void |-> FALSE, invoice |-> None, invoiced |-> FALSE]

\* A key that exists is skipped; night audit saves the folio all the same.
CommitPost(w) ==
    LET q == req[w] IN
    /\ q.kind = "post"
    /\ rows' = [Saved(w) EXCEPT ![q.charge] =
                   IF rows[q.charge].folio # None THEN @
                   ELSE IF q.charge \in PosCharges
                        THEN [NewRow(q.folio, Worth[q.charge]) EXCEPT !.invoiced = TRUE]
                        ELSE NewRow(q.folio, Worth[q.charge])]
    /\ billed' = SavedBilled(w)
    /\ UNCHANGED <<transfers, drafts, submitted, cancelled>>
-----------------------------------------------------------------------------
(* Transfers and their reversals. *)

LoadTransfer(w, key, source, to, amount) ==
    /\ transfers[key].status = "None"
    /\ rows[source].folio \notin {None, to}
    /\ Load(w, [kind |-> "transfer", key |-> key, source |-> source, to |-> to,
                amount |-> amount], {rows[source].folio, to})

Billable(row) == ~row.void /\ ~row.invoiced /\ row.invoice = None

\* Only the save of a group folio fills the amounts of rows; elsewhere they are zero.
AmountOf(row) == IF row.folio \in PricedFolios THEN row.value ELSE 0

\* The amount asked for, or the whole row.
AmountToMove(q, row) == IF q.amount > 0 THEN q.amount ELSE AmountOf(row)

\* mutant: more may be moved than the row is worth
MutTransferableAny(row, amount) == Billable(row) /\ amount > 0

Transferable(row, amount) == Billable(row) /\ 0 < amount /\ amount <= AmountOf(row)

\* mutant: a remainder is appended although nothing remains
MutRestRowAlways(row, rest) == NewRow(row.folio, rest)

RestRow(row, rest) == IF rest > 0 THEN NewRow(row.folio, rest) ELSE NoRow

\* transfer_folio_charges: the row is voided and its parts are appended.
CommitTransfer(w) ==
    LET q == req[w]
        row == form[w].rows[q.source]
        amount == AmountToMove(q, row)
        rest == row.value - amount
    IN  /\ q.kind = "transfer"
        /\ transfers[q.key].status = "None"
        /\ Transferable(row, amount)
        /\ rows' = [Saved(w) EXCEPT
                       ![q.source] = [row EXCEPT !.void = TRUE],
                       ![<<q.key, "moved">>] = NewRow(q.to, amount),
                       ![<<q.key, "rest">>] = RestRow(row, rest)]
        /\ transfers' = [transfers EXCEPT ![q.key] =
                            [status |-> "Applied", reversal |-> FALSE,
                             source |-> q.source, moved |-> <<q.key, "moved">>,
                             rest |-> IF rest > 0 THEN <<q.key, "rest">> ELSE None]]
        /\ billed' = SavedBilled(w)
        /\ UNCHANGED <<drafts, submitted, cancelled>>

\* Any applied transfer can be reversed, a reversal too.
LoadReverse(w, key, t) ==
    /\ transfers[key].status = "None"
    /\ transfers[t].status = "Applied"
    /\ Load(w, [kind |-> "reverse", key |-> key, transfer |-> t],
            {rows[transfers[t].source].folio, rows[transfers[t].moved].folio})

\* mutant: the rows a transfer made are voided without asking what became of them
MutUntouchedAny(row) == TRUE

Untouched(row) == Billable(row)

\* reverse_folio_transfer: the parts are voided and the row revived.  The line of
\* the reversal names the two rows and no remainder.
CommitReverse(w) ==
    LET q == req[w]
        t == transfers[q.transfer]
        generated == {t.moved, t.rest} \ {None}
    IN  /\ q.kind = "reverse"
        /\ transfers[q.key].status = "None"
        /\ t.status = "Applied"
        /\ \A r \in generated : Untouched(form[w].rows[r])
        /\ rows' = [r \in Rows |->
                       IF r \in generated THEN [Saved(w)[r] EXCEPT !.void = TRUE]
                       ELSE IF r = t.source THEN [Saved(w)[r] EXCEPT !.void = FALSE]
                       ELSE Saved(w)[r]]
        /\ transfers' = [transfers EXCEPT
                            ![q.key] = [status |-> "Applied", reversal |-> TRUE,
                                        source |-> t.moved, moved |-> t.source, rest |-> None],
                            ![q.transfer].status = "Reversed"]
        /\ billed' = SavedBilled(w)
        /\ UNCHANGED <<drafts, submitted, cancelled>>
-----------------------------------------------------------------------------
(* Invoices: create_sales_invoice, create_city_ledger_sales_invoice and       *)
(* create_group_sales_invoices over create_document_once, and the hooks.       *)

LoadInvoice(w, f) == Load(w, [kind |-> "invoice", folio |-> f], {f})

\* create_document_once: an active target of the key is used again; if all are
\* cancelled the key gets the next revision, as long as there is one.
Targets(S) ==
    LET targets == {i \in Active \cup cancelled : i.rows = S}
    IN  IF targets \cap Active # {} THEN targets \cap Active
        ELSE {[rows |-> S, revision |-> n] : n \in {Cardinality(targets) + 1} \cap 1..MaxRevision}

\* mutant: rows that are on a draft are taken again
MutChargesOfDrafts(fm, f) ==
    {r \in Rows : fm.rows[r].folio = f /\ ~fm.rows[r].void /\ ~fm.rows[r].invoiced}

\* _active_invoice_rows, and its like for the other folios
ChargesOf(fm, f) == {r \in Rows : fm.rows[r].folio = f /\ Billable(fm.rows[r])}

CommitInvoice(w) ==
    LET q == req[w]
        charges == ChargesOf(form[w], q.folio)
    IN  /\ q.kind = "invoice"
        /\ charges # {}
        /\ \E i \in Targets(charges) :
              /\ drafts' = drafts \cup ({i} \ submitted)
              /\ rows' = [r \in Rows |-> IF r \in charges
                                         THEN [Saved(w)[r] EXCEPT !.invoice = i] ELSE Saved(w)[r]]
        /\ billed' = [SavedBilled(w) EXCEPT ![q.folio] = TRUE]
        /\ UNCHANGED <<transfers, submitted, cancelled>>

FoliosOf(S) == {rows[r].folio : r \in S}

\* mutant: the hooks take every invoiced row of the folio
MutLinkedOfFolio(i) == {r \in Rows : rows[r].folio \in FoliosOf(i.rows) /\ rows[r].invoice # None}

Linked(i) == {r \in Rows : rows[r].invoice = i}

\* on_submit: the rows that name the invoice are invoiced for good.
Submit(i) ==
    /\ i \in drafts
    /\ drafts' = drafts \ {i}
    /\ submitted' = submitted \cup {i}
    /\ rows' = [r \in Rows |-> IF r \in Linked(i) THEN [rows[r] EXCEPT !.invoiced = TRUE]
                               ELSE rows[r]]
    /\ billed' = [f \in Folios |-> f \in FoliosOf(i.rows) \/ billed[f]]
    /\ Touch(None, FoliosOf(i.rows))
    /\ UNCHANGED <<transfers, cancelled>>

\* mutant: the folio is opened although another invoice of it is active
MutRemainingNone(rs, f) == FALSE

Remaining(rs, f) == \E r \in Rows : rs[r].folio = f /\ rs[r].invoice # None

\* on_cancel: the rows of this invoice, and no others, are released.
Cancel(i) ==
    /\ i \in submitted
    /\ submitted' = submitted \ {i}
    /\ cancelled' = cancelled \cup {i}
    /\ rows' = [r \in Rows |-> IF r \in Linked(i)
                               THEN [rows[r] EXCEPT !.invoice = None, !.invoiced = FALSE]
                               ELSE rows[r]]
    /\ billed' = [f \in Folios |-> IF f \in FoliosOf(i.rows)
                                   THEN Remaining(rows', f) ELSE billed[f]]
    /\ Touch(None, FoliosOf(i.rows))
    /\ UNCHANGED <<transfers, drafts>>

\* pos_invoice.on_cancel: set_value on the row, the folio keeps its time.
PosCancel(c) ==
    /\ "pos_cancel" \in Kinds
    /\ rows[c].folio # None
    /\ rows' = [rows EXCEPT ![c].void = TRUE]
    /\ UNCHANGED <<billed, transfers, drafts, submitted, cancelled, handlers>>
-----------------------------------------------------------------------------
(* The daily reconciliation of links, one folio at a time. *)

LoadReconcile(w, f) == Load(w, [kind |-> "reconcile", folio |-> f], {f})

\* mutant: the rows of drafts are released too
MutAliveSubmitted(i, active, final) == i \in final

Alive(i, active, final) == i \in active

\* The rows are read first; then each invoice they name is looked up, in the
\* snapshot or as it is by now, and single fields of the rows and of the folio
\* are repaired without moving any time.  The status is written if it was read
\* different, or if the folio names another of its invoices than the last row:
\* that link is not in the model, and may do so.
CommitReconcile(w) ==
    LET q == req[w]
        active == IF RepeatableRead THEN form[w].active ELSE Active
        final == IF RepeatableRead THEN form[w].submitted ELSE submitted
        seen(r) == form[w].rows[r]
        linked == {r \in Rows : seen(r).folio = q.folio /\ seen(r).invoice # None}
        alive(r) == Alive(seen(r).invoice, active, final)
        expected == \E r \in linked : alive(r)
    IN  /\ q.kind = "reconcile"
        /\ rows' = [r \in Rows |->
              CASE r \in linked /\ ~alive(r) ->
                      [rows[r] EXCEPT !.invoice = None, !.invoiced = FALSE]
                [] r \in linked /\ alive(r) /\ seen(r).invoiced # (seen(r).invoice \in final) ->
                      [rows[r] EXCEPT !.invoiced = (seen(r).invoice \in final)]
                [] OTHER -> rows[r]]
        /\ \/ billed' = [billed EXCEPT ![q.folio] = expected]
           \/ form[w].billed[q.folio] = expected /\ UNCHANGED billed
        /\ UNCHANGED <<transfers, drafts, submitted, cancelled>>
-----------------------------------------------------------------------------
LoadSome(w) ==
    \/ \E f \in Folios, c \in Charges : LoadPost(w, f, c)
    \/ \E key \in Transfers, source \in Rows, to \in Folios :
          \E amount \in Amounts : LoadTransfer(w, key, source, to, amount)
    \/ \E key \in Transfers, t \in Transfers : LoadReverse(w, key, t)
    \/ \E f \in Folios : LoadInvoice(w, f)
    \/ \E f \in Folios : LoadReconcile(w, f)

\* The saves of a handler find the times of its folios unmoved, and move them.
Commit(w) ==
    /\ \/ CommitPost(w)
       \/ CommitTransfer(w)
       \/ CommitReverse(w)
       \/ CommitInvoice(w)
       \/ CommitReconcile(w)
    /\ Touch(w, IF req[w].kind = "reconcile" THEN {} ELSE loaded[w])

Next ==
    \/ \E w \in Workers : LoadSome(w) \/ Commit(w) \/ Rollback(w)
    \/ \E i \in Active : Submit(i) \/ Cancel(i)
    \/ \E c \in PosCharges : PosCancel(c)

Spec == Init /\ [][Next]_vars
-----------------------------------------------------------------------------
(* Properties. *)

Sum(S) == SumFunctionOnSet([r \in Rows |-> rows[r].value], S)

Live == {r \in Rows : rows[r].folio # None /\ ~rows[r].void}

\* No charge is on two active invoices, whatever forms were open when its rows were
\* invoiced, released and invoiced again: sync keys, row links and version checks.
BilledOnce == \A i, j \in Active : i # j => i.rows \cap j.rows = {}

\* A row that a transfer or a reversal has voided is on no active invoice: nobody
\* pays for a charge that was moved away.
VoidIsNotBilled == \A i \in Active : \A r \in i.rows : ~rows[r].void

\* A row names an active invoice exactly if it is one of the rows the invoice was
\* made of, and is marked as invoiced exactly if that one is submitted: the hooks
\* of submit and cancel, and saves from forms loaded before.
LinksAgree ==
    \A r \in Rows \ PosCharges :
        /\ rows[r].invoice # None => rows[r].invoice \in Active /\ r \in rows[r].invoice.rows
        /\ \A i \in Active : r \in i.rows => rows[r].invoice = i
        /\ rows[r].invoiced <=> rows[r].invoice \in submitted

\* A folio says Invoiced exactly if one of its rows is on an active invoice: what
\* on_cancel leaves, and what later saves write back.
StatusAgrees ==
    \A f \in Folios :
        billed[f] <=> \E r \in Rows : rows[r].folio = f /\ rows[r].invoice # None

\* The charges posted so far; what is open on a folio, and what its invoices bill.
Charged == {c \in Charges \ PosCharges : rows[c].folio # None}

OpenRows(f) == {r \in Live \ PosCharges : rows[r].folio = f /\ rows[r].invoice = None}

OpenAmounts == [f \in Folios |-> Sum(OpenRows(f))]

BilledAmounts ==
    [f \in Folios |->
        SumFunctionOnSet([i \in Active |-> Sum({r \in i.rows : rows[r].folio = f})], Active)]

\* t is a split that was reversed, and the reversal was reversed: the part that moved is
\* back on its folio and the remainder is not, since a reversal names no remainder.
Forgotten(t) ==
    /\ transfers[t].rest # None
    /\ \E u \in Transfers :
          /\ transfers[u].status = "Applied" /\ transfers[u].reversal
          /\ transfers[u].source = transfers[t].source
          /\ transfers[u].moved = transfers[t].moved

LostRows == {transfers[t].rest : t \in {u \in Transfers : Forgotten(u)}}

\* Transfers and reversals, splits among them and reversals of reversals, keep the total
\* of what was posted, but for the remainders that a reversed reversal of a split leaves
\* void: exactly these are missing, and only as long as that reversal stands.
AmountsConserved == Sum(Live \ PosCharges) + Sum(LostRows) = Sum(Charged)

\* Folios and invoices implement the ledger: every commit moves money, bills all
\* that is open on a folio, gives one bill back, or forgets or recalls the remainder of
\* a split.
Ledger == INSTANCE FolioLedger WITH
    Charges <- Charges \ PosCharges,
    posted <- Charged,
    open <- OpenAmounts,
    billed <- BilledAmounts,
    lost <- Sum(LostRows)

ImplementsLedger == Ledger!Spec
=============================================================================
