------------------------- MODULE FolioBillingProofs -------------------------
(***************************************************************************)
(* Proofs about FolioBilling, for any folios, charges, transfers, workers  *)
(* and number of retries, with any mix of handlers; if reconciliation      *)
(* runs, it runs at repeatable read.                                       *)
(*                                                                         *)
(* The argument: a handler that may still commit holds the rows and the    *)
(* status of its folios as they are (Current), because whoever changes     *)
(* them ends it; only the void mark of a mirrored POS line and, beside a   *)
(* reconciliation, the status may have changed.  So its saves write back   *)
(* what is there, plus its own change, and links of rows and invoices      *)
(* (Links) stay one to one.  A reconciliation holds a snapshot in which    *)
(* they agree (Snapshot), and repairs no row.                              *)
(***************************************************************************)
EXTENDS FolioBilling, TLAPS

\* Two versions of row r differ in nothing but the void mark of a POS line.
Agree(r, a, b) ==
    /\ a.folio = b.folio
    /\ a.value = b.value
    /\ a.invoice = b.invoice
    /\ a.invoiced = b.invoiced
    /\ r \notin PosCharges => a.void = b.void

\* Reconciliation may write a status that it read long before.
NoReconciliation == "reconcile" \notin Kinds

StatusKept == NoReconciliation => StatusAgrees

\* Links, marks and invoices agree; drafts and submitted invoices are apart.
Links ==
    /\ \A r \in Rows : rows[r].invoice # None =>
          /\ rows[r].invoice \in Active
          /\ r \in rows[r].invoice.rows
          /\ ~rows[r].void
    /\ \A i \in Active : \A r \in i.rows : rows[r].invoice = i
    /\ \A r \in Rows \ PosCharges : rows[r].invoiced <=> rows[r].invoice \in submitted
    /\ \A c \in PosCharges :
          /\ rows[c].invoice = None
          /\ rows[c].folio # None => rows[c].invoiced
    /\ drafts \cap submitted = {}

\* A transfer key that is free has no rows; the line of one that is taken names rows.
Lines ==
    \A t \in Transfers :
        IF transfers[t].status = "None"
        THEN rows[<<t, "moved">>].folio = None /\ rows[<<t, "rest">>].folio = None
        ELSE /\ transfers[t].source \in Rows /\ transfers[t].moved \in Rows
             /\ rows[transfers[t].source].folio # None /\ rows[transfers[t].moved].folio # None
             /\ transfers[t].rest # None =>
                   /\ transfers[t].rest \in Rows
                   /\ rows[transfers[t].rest].folio = rows[transfers[t].source].folio

\* A request is of a kind that runs, and the folios it is about are loaded.
Requested(w) ==
    /\ req[w].kind \in Kinds \cup {"none"}
    /\ req[w].kind \in {"post", "invoice", "reconcile"} => req[w].folio \in loaded[w]
    /\ req[w].kind = "transfer" => req[w].to \in loaded[w]
    /\ req[w].kind = "reverse" =>
          LET t == transfers[req[w].transfer] IN
          /\ t.status # "None"
          /\ rows[t.source].folio \in loaded[w] /\ rows[t.moved].folio \in loaded[w]

\* The form has the loaded folios and nothing else; that of a handler that compares
\* modification times is as the folios are.
Current(w) ==
    /\ \A r \in Rows : form[w].rows[r].folio \in loaded[w] \/ form[w].rows[r] = NoRow
    /\ req[w].kind # "reconcile" =>
          /\ \A r \in Rows :
                form[w].rows[r].folio \in loaded[w] \/ rows[r].folio \in loaded[w] =>
                    Agree(r, form[w].rows[r], rows[r])
          /\ NoReconciliation => \A f \in loaded[w] : form[w].billed[f] = billed[f]

\* What a reconciliation has read agrees.
Snapshot(w) ==
    req[w].kind = "reconcile" =>
        \A r \in Rows : form[w].rows[r].invoice # None =>
            /\ form[w].rows[r].invoice \in form[w].active
            /\ form[w].rows[r].invoiced <=> form[w].rows[r].invoice \in form[w].submitted

Handlers == \A w \in Workers : Requested(w) /\ Current(w) /\ Snapshot(w)

IInv == TypeOK /\ Links /\ StatusKept /\ Lines /\ Handlers

\* Under read committed reconciliation takes links from rows invoiced again meanwhile.
ReconcilesAtRepeatableRead == RepeatableRead \/ "reconcile" \notin Kinds
-----------------------------------------------------------------------------
(* Facts about the data. *)

LEMMA Apart ==
    /\ None \notin Folios /\ None \notin Rows /\ None \notin Invoice /\ None \notin Workers
    /\ PosCharges \subseteq Rows /\ Charges \subseteq Rows
    /\ \A t \in Transfers : /\ <<t, "moved">> \in Rows /\ <<t, "rest">> \in Rows
                            /\ <<t, "moved">> \notin Charges /\ <<t, "rest">> \notin Charges
BY NoneAssumption, FolioAssumption DEF Rows

LEMMA RowFacts ==
    ASSUME NEW row \in Row \cup {NoRow}
    PROVE  /\ row.folio \in Folios \cup {None}
           /\ row.invoice \in Invoice \cup {None}
           /\ row.value \in Nat /\ row.void \in BOOLEAN /\ row.invoiced \in BOOLEAN
           /\ row.folio # None => row \in Row
           /\ row.folio = None => row = NoRow
           /\ row.invoice # None => row \in Row
<1>1. CASE row = NoRow
  BY <1>1 DEF NoRow
<1>2. CASE row \in Row
  BY <1>2, Apart DEF Row
<1> QED
  BY <1>1, <1>2

LEMMA RowUpdates ==
    ASSUME NEW row \in Row
    PROVE  /\ \A b \in BOOLEAN : [row EXCEPT !.void = b] \in Row
           /\ \A b \in BOOLEAN : [row EXCEPT !.invoiced = b] \in Row
           /\ \A i \in Invoice : [row EXCEPT !.invoice = i] \in Row
           /\ [row EXCEPT !.invoice = None, !.invoiced = FALSE] \in Row
           /\ row.folio # None
BY Apart DEF Row

LEMMA RowFields ==
    ASSUME NEW row \in Row
    PROVE  /\ \A b : LET new == [row EXCEPT !.void = b] IN
                  /\ new.void = b /\ new.value = row.value
                  /\ new.folio = row.folio /\ new.invoice = row.invoice /\ new.invoiced = row.invoiced
           /\ \A i : LET new == [row EXCEPT !.invoice = i] IN
                  /\ new.invoice = i /\ new.value = row.value
                  /\ new.folio = row.folio /\ new.void = row.void /\ new.invoiced = row.invoiced
           /\ LET new == [row EXCEPT !.invoice = None, !.invoiced = FALSE] IN
                  /\ new.folio = row.folio /\ new.value = row.value
                  /\ new.invoice = None /\ ~new.invoiced
BY DEF Row

LEMMA NewRowType ==
    ASSUME NEW f \in Folios, NEW v \in Nat \ {0}
    PROVE  NewRow(f, v) \in Row /\ [NewRow(f, v) EXCEPT !.invoiced = TRUE] \in Row
BY DEF NewRow, Row

LEMMA RequestFields ==
    ASSUME NEW q \in Request \cup {NoRequest}
    PROVE  /\ q.kind = "post" => q.folio \in Folios /\ q.charge \in Charges
           /\ q.kind = "transfer" => /\ q.key \in Transfers /\ q.source \in Rows
                                     /\ q.to \in Folios /\ q.amount \in Nat
           /\ q.kind = "reverse" => q.key \in Transfers /\ q.transfer \in Transfers
           /\ q.kind \in {"invoice", "reconcile"} => q.folio \in Folios
BY DEF Request, NoRequest

LEMMA NoFormType == NoForm \in Form
BY DEF NoForm, Form, NoRow
-----------------------------------------------------------------------------
(* The initial state, loading, and the handlers that a commit does not end. *)

LEMMA InitIInv == Init => IInv
<1> SUFFICES ASSUME Init PROVE IInv
  OBVIOUS
<1>1. \A r \in Rows : rows[r] = NoRow /\ rows[r].folio = None /\ rows[r].invoice = None
                      /\ ~rows[r].invoiced
  BY DEF Init, NoRow
<1>2. TypeOK
  BY NoFormType DEF Init, TypeOK, Transfer, NoTransfer
<1>3. Links
  BY <1>1, Apart DEF Init, Links, Active
<1>4. StatusKept
  BY <1>1 DEF Init, StatusKept, StatusAgrees
<1>5. Lines
  BY <1>1, Apart DEF Init, Lines, NoTransfer
<1>6. Handlers
  <2> SUFFICES ASSUME NEW w \in Workers PROVE Requested(w) /\ Current(w) /\ Snapshot(w)
    BY DEF Handlers
  <2>1. req[w].kind = "none" /\ loaded[w] = {} /\ form[w] = NoForm
    BY DEF Init, NoRequest
  <2>2. \A r \in Rows : form[w].rows[r] = NoRow
    BY <2>1 DEF NoForm
  <2> QED
    BY <2>1, <2>2, <1>1, Apart DEF Requested, Current, Snapshot
<1> QED
  BY <1>2, <1>3, <1>4, <1>5, <1>6 DEF IInv

(* A worker loads what is there. *)
LEMMA LoadStep ==
    ASSUME IInv, NEW w \in Workers, NEW q \in Request, NEW folios \in SUBSET Folios,
           Load(w, q, folios),
           q.kind \in {"post", "invoice", "reconcile"} => q.folio \in folios,
           q.kind = "transfer" => q.to \in folios,
           q.kind = "reverse" =>
              /\ transfers[q.transfer].status # "None"
              /\ rows[transfers[q.transfer].source].folio \in folios
              /\ rows[transfers[q.transfer].moved].folio \in folios
    PROVE  IInv'
<1> DEFINE fm == [rows |-> [r \in Rows |-> IF rows[r].folio \in folios THEN rows[r] ELSE NoRow],
                  billed |-> [f \in Folios |-> f \in folios /\ billed[f]],
                  active |-> IF q.kind = "reconcile" THEN Active ELSE {},
                  submitted |-> IF q.kind = "reconcile" THEN submitted ELSE {}]
<1>1. fm \in Form
  <2>1. fm.rows \in [Rows -> Row \cup {NoRow}]
    BY DEF IInv, TypeOK
  <2>2. fm.active \in SUBSET Invoice /\ fm.submitted \in SUBSET Invoice
    BY DEF IInv, TypeOK, Active
  <2>3. fm.billed \in [Folios -> BOOLEAN]
    BY DEF IInv, TypeOK
  <2> QED
    BY <2>1, <2>2, <2>3 DEF Form
<1>2. /\ req' = [req EXCEPT ![w] = q]
      /\ loaded' = [loaded EXCEPT ![w] = folios]
      /\ form' = [form EXCEPT ![w] = fm]
      /\ UNCHANGED <<rows, billed, transfers, drafts, submitted, cancelled>>
  BY DEF Load, db
<1> HIDE DEF fm
<1>3. TypeOK'
  BY <1>1, <1>2 DEF IInv, TypeOK
<1>4. Links' /\ StatusKept' /\ Lines'
  BY <1>2 DEF IInv, Links, StatusKept, StatusAgrees, Lines, Active
<1>5. ASSUME NEW v \in Workers, v # w PROVE Requested(v)' /\ Current(v)' /\ Snapshot(v)'
  <2>1. req'[v] = req[v] /\ loaded'[v] = loaded[v] /\ form'[v] = form[v]
    BY <1>2, <1>5 DEF IInv, TypeOK
  <2>2. Requested(v) /\ Current(v) /\ Snapshot(v)
    BY <1>5 DEF IInv, Handlers
  <2> QED
    BY <2>1, <2>2, <1>2 DEF Requested, Current, Snapshot
<1>6. Requested(w)' /\ Current(w)' /\ Snapshot(w)'
  <2>1. req'[w] = q /\ loaded'[w] = folios /\ form'[w] = fm
    BY <1>2 DEF IInv, TypeOK
  <2>2. \A r \in Rows : fm.rows[r] = IF rows[r].folio \in folios THEN rows[r] ELSE NoRow
    BY DEF fm
  <2>3. \A f \in folios : fm.billed[f] = billed[f]
    BY DEF fm, IInv, TypeOK
  <2>4. Requested(w)'
    BY <2>1, <1>2 DEF Requested, Load
  <2>5. Current(w)'
    <3>1. NoRow.folio \notin folios
      BY Apart DEF NoRow
    <3> QED
      BY <2>1, <2>2, <2>3, <3>1, <1>2 DEF Current, Agree
  <2>6. Snapshot(w)'
    <3> SUFFICES ASSUME q.kind = "reconcile"
                 PROVE  \A r \in Rows : fm.rows[r].invoice # None =>
                            /\ fm.rows[r].invoice \in fm.active
                            /\ fm.rows[r].invoiced <=> fm.rows[r].invoice \in fm.submitted
      BY <2>1 DEF Snapshot
    <3>1. fm.active = Active /\ fm.submitted = submitted
      BY DEF fm
    <3>2. NoRow.invoice = None /\ NoRow.folio \notin folios
      BY Apart DEF NoRow
    <3> QED
      BY <2>2, <3>1, <3>2 DEF IInv, Links
  <2> QED
    BY <2>4, <2>5, <2>6
<1> QED
  BY <1>3, <1>4, <1>5, <1>6 DEF IInv, Handlers

LEMMA LoadSomeStep ==
    ASSUME IInv, NEW w \in Workers, LoadSome(w)
    PROVE  IInv'
<1>1. ASSUME NEW f \in Folios, NEW c \in Charges, LoadPost(w, f, c) PROVE IInv'
  <2>1. [kind |-> "post", folio |-> f, charge |-> c] \in Request
    BY DEF Request
  <2> QED
    BY <1>1, <2>1, LoadStep DEF LoadPost
<1>2. ASSUME NEW key \in Transfers, NEW source \in Rows, NEW to \in Folios, NEW amount \in Amounts,
             LoadTransfer(w, key, source, to, amount)
      PROVE  IInv'
  <2>1. [kind |-> "transfer", key |-> key, source |-> source, to |-> to, amount |-> amount] \in Request
    BY FolioAssumption DEF Request
  <2>2. {rows[source].folio, to} \in SUBSET Folios
    BY <1>2, RowFacts DEF LoadTransfer, IInv, TypeOK
  <2> QED
    BY <1>2, <2>1, <2>2, LoadStep DEF LoadTransfer
<1>3. ASSUME NEW key \in Transfers, NEW t \in Transfers, LoadReverse(w, key, t) PROVE IInv'
  <2>1. [kind |-> "reverse", key |-> key, transfer |-> t] \in Request
    BY DEF Request
  <2>2. {rows[transfers[t].source].folio, rows[transfers[t].moved].folio} \in SUBSET Folios
    BY <1>3, RowFacts DEF LoadReverse, IInv, TypeOK, Lines
  <2> QED
    BY <1>3, <2>1, <2>2, LoadStep DEF LoadReverse
<1>4. ASSUME NEW f \in Folios, LoadInvoice(w, f) PROVE IInv'
  <2>1. [kind |-> "invoice", folio |-> f] \in Request
    BY DEF Request
  <2> QED
    BY <1>4, <2>1, LoadStep DEF LoadInvoice
<1>5. ASSUME NEW f \in Folios, LoadReconcile(w, f) PROVE IInv'
  <2>1. [kind |-> "reconcile", folio |-> f] \in Request
    BY DEF Request
  <2> QED
    BY <1>5, <2>1, LoadStep DEF LoadReconcile
<1> QED
  BY <1>1, <1>2, <1>3, <1>4, <1>5 DEF LoadSome

(* A step that moves the times of the folios it changes leaves the other handlers *)
(* with forms that are as their folios are.                                      *)
LEMMA OthersStay ==
    ASSUME IInv, NEW w, NEW fs \in SUBSET Folios, Touch(w, fs),
           \A r \in Rows :
              \/ Agree(r, rows'[r], rows[r])
              \/ rows'[r].folio \in fs /\ rows[r].folio \in {None, rows'[r].folio},
           NoReconciliation => \A f \in Folios \ fs : billed'[f] = billed[f],
           \A t \in Transfers : transfers[t].status # "None" =>
              /\ transfers'[t].status # "None"
              /\ transfers'[t].source = transfers[t].source
              /\ transfers'[t].moved = transfers[t].moved
    PROVE  /\ Handlers'
           /\ req' \in [Workers -> Request \cup {NoRequest}]
           /\ loaded' \in [Workers -> SUBSET Folios]
           /\ form' \in [Workers -> Form]
<1>1. /\ req' \in [Workers -> Request \cup {NoRequest}]
      /\ loaded' \in [Workers -> SUBSET Folios]
      /\ form' \in [Workers -> Form]
  BY NoFormType DEF Touch, IInv, TypeOK
<1>2. ASSUME NEW v \in Workers, v = w \/ Outdated(v, fs)
      PROVE  Requested(v)' /\ Current(v)' /\ Snapshot(v)'
  <2>1. req'[v].kind = "none" /\ loaded'[v] = {} /\ form'[v] = NoForm
    BY <1>2 DEF Touch, NoRequest
  <2>2. \A r \in Rows : form'[v].rows[r] = NoRow
    BY <2>1 DEF NoForm
  <2> QED
    BY <2>1, <2>2 DEF Requested, Current, Snapshot
<1>3. ASSUME NEW v \in Workers, v # w, ~Outdated(v, fs)
      PROVE  Requested(v)' /\ Current(v)' /\ Snapshot(v)'
  <2>1. req'[v] = req[v] /\ loaded'[v] = loaded[v] /\ form'[v] = form[v]
    BY <1>3 DEF Touch
  <2>2. Requested(v) /\ Current(v) /\ Snapshot(v)
    BY DEF IInv, Handlers
  <2>3. loaded[v] \subseteq Folios /\ req[v] \in Request \cup {NoRequest}
    BY DEF IInv, TypeOK
  <2>4. Snapshot(v)'
    BY <2>1, <2>2 DEF Snapshot
  <2>5. req[v].kind # "reconcile" => loaded[v] \cap fs = {}
    BY <1>3 DEF Outdated
  <2>6. ASSUME NEW r \in Rows, rows[r].folio # None PROVE rows'[r].folio = rows[r].folio
    BY <2>6 DEF Agree
  <2>7. Requested(v)'
    <3>1. ASSUME req[v].kind = "reverse"
          PROVE  LET t == transfers'[req[v].transfer] IN
                 /\ t.status # "None"
                 /\ rows'[t.source].folio \in loaded[v] /\ rows'[t.moved].folio \in loaded[v]
      <4>1. req[v].transfer \in Transfers
        BY <3>1, <2>3, RequestFields
      <4>2. transfers[req[v].transfer].status # "None"
        BY <3>1, <2>2 DEF Requested
      <4>3. LET t == transfers[req[v].transfer] IN
            /\ t.source \in Rows /\ t.moved \in Rows
            /\ rows[t.source].folio # None /\ rows[t.moved].folio # None
        BY <4>1, <4>2 DEF IInv, Lines
      <4> QED
        BY <3>1, <4>1, <4>2, <4>3, <2>2, <2>6 DEF Requested
    <3> QED
      BY <3>1, <2>1, <2>2 DEF Requested
  <2>8. Current(v)'
    <3>1. ASSUME req[v].kind # "reconcile", NEW r \in Rows,
                 form[v].rows[r].folio \in loaded[v] \/ rows'[r].folio \in loaded[v]
          PROVE  Agree(r, form[v].rows[r], rows'[r])
      <4>1. CASE Agree(r, rows'[r], rows[r])
        BY <4>1, <3>1, <2>2 DEF Current, Agree
      <4>2. CASE rows'[r].folio \in fs /\ rows[r].folio \in {None, rows'[r].folio}
        <5>1. form[v].rows[r].folio \in loaded[v]
          BY <4>2, <3>1, <2>5
        <5>2. rows[r].folio = form[v].rows[r].folio
          BY <5>1, <3>1, <2>2 DEF Current, Agree
        <5>3. rows'[r].folio \in loaded[v]
          BY <5>1, <5>2, <4>2, <2>3, Apart
        <5> QED
          BY <5>3, <4>2, <3>1, <2>5
      <4> QED
        BY <4>1, <4>2
    <3>2. ASSUME NoReconciliation, req[v].kind # "reconcile", NEW f \in loaded[v]
          PROVE  form[v].billed[f] = billed'[f]
      BY <3>2, <2>2, <2>3, <2>5 DEF Current
    <3> QED
      BY <3>1, <3>2, <2>1, <2>2 DEF Current
  <2> QED
    BY <2>4, <2>7, <2>8
<1> QED
  BY <1>1, <1>2, <1>3 DEF Handlers
-----------------------------------------------------------------------------
(* What commits have in common. *)

\* The link of row r is as it was, or r is new and has none.
LinkKept(r) ==
    /\ rows'[r].invoice = rows[r].invoice
    /\ rows[r].invoice # None => rows'[r].folio = rows[r].folio /\ ~rows'[r].void
    /\ r \notin PosCharges => (rows'[r].invoiced <=> rows[r].invoiced)
    /\ r \in PosCharges /\ rows'[r].folio # None => rows'[r].invoiced

LEMMA LinksStay ==
    ASSUME IInv, \A r \in Rows : LinkKept(r), UNCHANGED <<drafts, submitted>>,
           NoReconciliation => UNCHANGED billed
    PROVE  Links' /\ StatusKept'
<1>1. Links'
  <2>1. Active' = Active
    BY DEF Active
  <2>2. \A r \in Rows : rows'[r].invoice # None =>
            rows'[r].invoice \in Active /\ r \in rows'[r].invoice.rows /\ ~rows'[r].void
    BY DEF LinkKept, IInv, Links
  <2>3. \A i \in Active : \A r \in i.rows : rows'[r].invoice = i
    BY DEF LinkKept, IInv, Links, TypeOK, Active, Invoice
  <2>4. \A r \in Rows \ PosCharges : rows'[r].invoiced <=> rows'[r].invoice \in submitted
    BY DEF LinkKept, IInv, Links
  <2>5. \A c \in PosCharges :
            rows'[c].invoice = None /\ (rows'[c].folio # None => rows'[c].invoiced)
    BY Apart DEF LinkKept, IInv, Links
  <2> QED
    BY <2>1, <2>2, <2>3, <2>4, <2>5 DEF IInv, Links
<1>2. StatusKept'
  <2>1. \A r \in Rows : \A f \in Folios :
            rows'[r].folio = f /\ rows'[r].invoice # None
            <=> rows[r].folio = f /\ rows[r].invoice # None
    BY DEF LinkKept
  <2> QED
    BY <2>1 DEF IInv, StatusKept, StatusAgrees
<1> QED
  BY <1>1, <1>2

(* What a handler that compares times saves is what is there. *)
LEMMA SavedAgrees ==
    ASSUME IInv, NEW w \in Workers, req[w].kind # "reconcile"
    PROVE  /\ \A r \in Rows : /\ Saved(w)[r] \in Row \cup {NoRow}
                              /\ Agree(r, Saved(w)[r], rows[r])
                              /\ rows[r].folio \in loaded[w] => Saved(w)[r] = form[w].rows[r]
           /\ Saved(w) = [r \in Rows |-> Saved(w)[r]]
           /\ SavedBilled(w) \in [Folios -> BOOLEAN]
           /\ NoReconciliation => SavedBilled(w) = billed
<1>1. Current(w) /\ loaded[w] \subseteq Folios
  BY DEF IInv, Handlers, TypeOK
<1>2. ASSUME NEW r \in Rows
      PROVE  /\ Saved(w)[r] \in Row \cup {NoRow}
             /\ Agree(r, Saved(w)[r], rows[r])
             /\ rows[r].folio \in loaded[w] => Saved(w)[r] = form[w].rows[r]
  <2>1. form[w].rows[r] \in Row \cup {NoRow} /\ rows[r] \in Row \cup {NoRow}
    BY DEF IInv, TypeOK, Form
  <2>2. rows[r].folio \in loaded[w] => form[w].rows[r].folio \in loaded[w]
    BY <1>1 DEF Current, Agree
  <2> QED
    BY <2>1, <2>2, <1>1 DEF Saved, Current, Agree
<1>3. /\ SavedBilled(w) \in [Folios -> BOOLEAN]
      /\ NoReconciliation => SavedBilled(w) = billed
  BY <1>1 DEF SavedBilled, Current, IInv, TypeOK, Form
<1>4. Saved(w) = [r \in Rows |-> Saved(w)[r]]
  BY DEF Saved
<1> QED
  BY <1>2, <1>3, <1>4

(* A row that agrees with one that was there keeps its link. *)
LEMMA AgreeKeepsLink ==
    ASSUME IInv, NEW r \in Rows, Agree(r, rows'[r], rows[r])
    PROVE  LinkKept(r)
BY DEF IInv, Links, Agree, LinkKept
-----------------------------------------------------------------------------
(* The commits. *)

LEMMA PostStep ==
    ASSUME IInv, NEW w \in Workers, CommitPost(w), Touch(w, loaded[w])
    PROVE  IInv'
<1> DEFINE c == req[w].charge
           f == req[w].folio
<1>1. /\ c \in Charges /\ f \in Folios /\ f \in loaded[w] /\ loaded[w] \in SUBSET Folios
      /\ req[w].kind # "reconcile"
  BY RequestFields DEF CommitPost, IInv, TypeOK, Handlers, Requested
<1>2. c \in Rows /\ Worth[c] \in Nat \ {0}
  BY <1>1, Apart, FolioAssumption
<1> DEFINE new == IF c \in PosCharges THEN [NewRow(f, Worth[c]) EXCEPT !.invoiced = TRUE]
                  ELSE NewRow(f, Worth[c])
<1>3. /\ new \in Row /\ new.folio = f /\ new.invoice = None
      /\ new.invoiced <=> c \in PosCharges
  <2>1. new \in Row
    BY <1>1, <1>2, NewRowType
  <2> QED
    BY <2>1 DEF NewRow
<1>4. /\ rows' = [Saved(w) EXCEPT ![c] = IF rows[c].folio # None THEN @ ELSE new]
      /\ billed' \in [Folios -> BOOLEAN] /\ (NoReconciliation => billed' = billed)
      /\ UNCHANGED <<transfers, drafts, submitted, cancelled>>
  BY <1>1, SavedAgrees DEF CommitPost
<1> HIDE DEF c, f, new
<1>5. ASSUME NEW r \in Rows
      PROVE  \/ rows'[r] = Saved(w)[r] /\ Agree(r, rows'[r], rows[r])
             \/ r = c /\ rows[r] = NoRow /\ rows'[r] = new
  <2>1. rows[r].folio = None => rows[r] = NoRow
    BY RowFacts DEF IInv, TypeOK
  <2> QED
    BY <1>1, <1>2, <1>4, <2>1, SavedAgrees
<1>6. rows' \in [Rows -> Row \cup {NoRow}]
  <2>1. \A r \in Rows : rows'[r] \in Row \cup {NoRow}
    BY <1>1, <1>3, <1>5, SavedAgrees
  <2>2. rows' = [r \in Rows |-> rows'[r]]
    BY <1>1, <1>4, SavedAgrees
  <2> QED
    BY <2>1, <2>2
<1>7. NoRow.folio = None /\ NoRow.invoice = None /\ NoRow.invoiced = FALSE
  BY DEF NoRow
<1>8. Links' /\ StatusKept'
  <2>1. ASSUME NEW r \in Rows PROVE LinkKept(r)
    <3>1. CASE Agree(r, rows'[r], rows[r])
      BY <3>1, AgreeKeepsLink
    <3>2. CASE r = c /\ rows[r] = NoRow /\ rows'[r] = new
      BY <3>2, <1>3, <1>7 DEF LinkKept
    <3> QED
      BY <3>1, <3>2, <1>5
  <2> QED
    BY <2>1, <1>4, LinksStay
<1>9. Lines'
  <2>1. \A r \in Rows : rows[r].folio # None => rows'[r].folio = rows[r].folio
    BY <1>5, <1>7 DEF Agree
  <2>2. \A r \in Rows \ Charges : rows'[r].folio = rows[r].folio
    BY <1>1, <1>5 DEF Agree
  <2>3. UNCHANGED transfers
    BY <1>4
  <2> QED
    BY <2>1, <2>2, <2>3, Apart DEF IInv, Lines
<1>10. Handlers' /\ TypeOK'
  <2>1. \A r \in Rows : \/ Agree(r, rows'[r], rows[r])
                        \/ rows'[r].folio \in loaded[w] /\ rows[r].folio \in {None, rows'[r].folio}
    BY <1>1, <1>3, <1>5, <1>7
  <2> HIDE DEF Touch
  <2> QED
    BY <2>1, <1>1, <1>4, <1>6, OthersStay DEF IInv, TypeOK
<1> QED
  BY <1>8, <1>9, <1>10 DEF IInv

(* What a transfer finds, and the rows it writes. *)
LEMMA TransferRows ==
    ASSUME IInv, NEW w \in Workers, CommitTransfer(w)
    PROVE  LET q == req[w]
               row == form[w].rows[q.source]
               amount == AmountToMove(q, row)
               rest == row.value - amount
               m == <<q.key, "moved">>
               s == <<q.key, "rest">>
           IN
           /\ q.key \in Transfers /\ q.source \in Rows /\ q.to \in Folios
           /\ q.to \in loaded[w] /\ loaded[w] \in SUBSET Folios /\ q.kind # "reconcile"
           /\ transfers[q.key].status = "None"
           /\ transfers' = [transfers EXCEPT ![q.key] =
                               [status |-> "Applied", reversal |-> FALSE, source |-> q.source,
                                moved |-> m, rest |-> IF rest > 0 THEN s ELSE None]]
           /\ billed' \in [Folios -> BOOLEAN] /\ (NoReconciliation => billed' = billed)
           /\ UNCHANGED <<drafts, submitted, cancelled>>
           /\ row \in Row /\ row.folio \in Folios /\ amount \in Nat \ {0} /\ rest \in Nat
           /\ m \in Rows /\ s \in Rows /\ m # s /\ m \notin Charges /\ s \notin Charges
           /\ rows[m] = NoRow /\ rows[s] = NoRow
           /\ row.folio \in loaded[w] /\ Agree(q.source, row, rows[q.source])
           /\ q.source \notin {m, s} /\ q.source \notin PosCharges
           /\ ~row.void /\ row.invoice = None /\ ~row.invoiced
           /\ NewRow(q.to, amount) \in Row
           /\ RestRow(row, rest) \in Row \cup {NoRow}
           /\ rest > 0 => RestRow(row, rest) = NewRow(row.folio, rest)
           /\ rest = 0 => RestRow(row, rest) = NoRow
           /\ [row EXCEPT !.void = TRUE] \in Row
           /\ rows'[q.source] = [row EXCEPT !.void = TRUE]
           /\ rows'[m] = NewRow(q.to, amount) /\ rows'[s] = RestRow(row, rest)
           /\ \A r \in Rows \ {q.source, m, s} :
                 rows'[r] \in Row \cup {NoRow} /\ Agree(r, rows'[r], rows[r])
           /\ rows' = [r \in Rows |-> rows'[r]]
<1> DEFINE q == req[w]
           row == form[w].rows[q.source]
           amount == AmountToMove(q, row)
           rest == row.value - amount
           m == <<q.key, "moved">>
           s == <<q.key, "rest">>
<1>1. /\ q.key \in Transfers /\ q.source \in Rows /\ q.to \in Folios /\ q.amount \in Nat
      /\ q.to \in loaded[w] /\ loaded[w] \in SUBSET Folios /\ q.kind # "reconcile"
  BY RequestFields DEF CommitTransfer, IInv, TypeOK, Handlers, Requested
<1>2. /\ transfers[q.key].status = "None"
      /\ Transferable(row, amount)
      /\ rows' = [Saved(w) EXCEPT ![q.source] = [row EXCEPT !.void = TRUE],
                                  ![m] = NewRow(q.to, amount), ![s] = RestRow(row, rest)]
      /\ transfers' = [transfers EXCEPT ![q.key] =
                          [status |-> "Applied", reversal |-> FALSE, source |-> q.source,
                           moved |-> m, rest |-> IF rest > 0 THEN s ELSE None]]
      /\ billed' \in [Folios -> BOOLEAN] /\ (NoReconciliation => billed' = billed)
      /\ UNCHANGED <<drafts, submitted, cancelled>>
  BY <1>1, SavedAgrees DEF CommitTransfer
<1>3. row \in Row \cup {NoRow}
  BY <1>1 DEF IInv, TypeOK, Form
<1>4. /\ row \in Row /\ row.folio \in Folios /\ amount \in Nat \ {0}
      /\ rest \in Nat /\ Billable(row)
  <2> HIDE DEF row
  <2>1. row.value \in Nat
    BY <1>3, RowFacts
  <2>2. AmountOf(row) \in Nat
    BY <2>1 DEF AmountOf
  <2>3. amount \in Nat
    BY <1>1, <2>2 DEF AmountToMove
  <2>4. 0 < amount /\ amount <= AmountOf(row) /\ Billable(row)
    BY <1>2 DEF Transferable
  <2> HIDE DEF amount
  <2>5. row.folio \in PricedFolios /\ AmountOf(row) = row.value
    BY <2>1, <2>3, <2>4 DEF AmountOf
  <2>6. row.folio \in Folios /\ row \in Row
    BY <2>5, <1>3, RowFacts, FolioAssumption, Apart
  <2> QED
    BY <2>1, <2>3, <2>4, <2>5, <2>6
<1>5. /\ m \in Rows /\ s \in Rows /\ m # s /\ m \notin Charges /\ s \notin Charges
      /\ rows[m] = NoRow /\ rows[s] = NoRow
  <2>1. rows[m].folio = None /\ rows[s].folio = None
    BY <1>1, <1>2 DEF IInv, Lines
  <2> QED
    BY <2>1, <1>1, Apart, RowFacts DEF IInv, TypeOK
<1> HIDE DEF q, row, amount, rest, m, s
<1>6. /\ row.folio \in loaded[w] /\ Agree(q.source, row, rows[q.source])
      /\ q.source \notin {m, s} /\ q.source \notin PosCharges
      /\ ~row.void /\ row.invoice = None /\ ~row.invoiced
  <2>1. row.folio # None /\ row # NoRow
    BY <1>4, Apart DEF NoRow
  <2>2. row.folio \in loaded[w]
    BY <1>1, <2>1 DEF IInv, Handlers, Current, row
  <2>3. Agree(q.source, row, rows[q.source])
    BY <1>1, <2>2 DEF IInv, Handlers, Current, row, q
  <2> QED
    BY <1>4, <1>5, <2>1, <2>2, <2>3 DEF Billable, Agree, IInv, Links, NoRow
<1>7. /\ NewRow(q.to, amount) \in Row
      /\ RestRow(row, rest) \in Row \cup {NoRow}
      /\ rest > 0 => RestRow(row, rest) = NewRow(row.folio, rest)
      /\ rest = 0 => RestRow(row, rest) = NoRow
      /\ [row EXCEPT !.void = TRUE] \in Row
  <2>1. NewRow(q.to, amount) \in Row /\ [row EXCEPT !.void = TRUE] \in Row
    BY <1>1, <1>4, NewRowType, RowUpdates DEF q
  <2>2. ASSUME rest > 0 PROVE NewRow(row.folio, rest) \in Row
    <3>1. row.folio \in Folios /\ rest \in Nat \ {0}
      BY <1>4, <2>2
    <3> QED
      BY <3>1, NewRowType
  <2>3. rest = 0 => ~(rest > 0)
    OBVIOUS
  <2>4. /\ rest > 0 => RestRow(row, rest) = NewRow(row.folio, rest)
        /\ ~(rest > 0) => RestRow(row, rest) = NoRow
    BY DEF RestRow
  <2>5. RestRow(row, rest) \in Row \cup {NoRow}
    BY <2>2, <2>4
  <2> QED
    BY <2>1, <2>3, <2>4, <2>5
<1>9. /\ rows'[q.source] = [row EXCEPT !.void = TRUE]
      /\ rows'[m] = NewRow(q.to, amount) /\ rows'[s] = RestRow(row, rest)
      /\ \A r \in Rows \ {q.source, m, s} :
            rows'[r] \in Row \cup {NoRow} /\ Agree(r, rows'[r], rows[r])
      /\ rows' = [r \in Rows |-> rows'[r]]
  <2>1. \A r \in Rows : Saved(w)[r] \in Row \cup {NoRow} /\ Agree(r, Saved(w)[r], rows[r])
    BY <1>1, SavedAgrees DEF q
  <2>2. Saved(w) = [r \in Rows |-> Saved(w)[r]]
    BY <1>1, SavedAgrees DEF q
  <2> QED
    BY <1>1, <1>2, <1>5, <1>6, <2>1, <2>2
<1> QED
  BY <1>1, <1>2, <1>4, <1>5, <1>6, <1>7, <1>9 DEF q, row, amount, rest, m, s

LEMMA TransferStep ==
    ASSUME IInv, NEW w \in Workers, CommitTransfer(w), Touch(w, loaded[w])
    PROVE  IInv'
<1> DEFINE q == req[w]
           row == form[w].rows[q.source]
           amount == AmountToMove(q, row)
           rest == row.value - amount
           m == <<q.key, "moved">>
           s == <<q.key, "rest">>
<1>1. /\ q.key \in Transfers /\ q.source \in Rows /\ q.to \in Folios
      /\ q.to \in loaded[w] /\ loaded[w] \in SUBSET Folios /\ q.kind # "reconcile"
      /\ transfers[q.key].status = "None"
  BY TransferRows
<1>2. /\ transfers' = [transfers EXCEPT ![q.key] =
                          [status |-> "Applied", reversal |-> FALSE, source |-> q.source,
                           moved |-> m, rest |-> IF rest > 0 THEN s ELSE None]]
      /\ billed' \in [Folios -> BOOLEAN] /\ (NoReconciliation => billed' = billed)
      /\ UNCHANGED <<drafts, submitted, cancelled>>
  BY TransferRows
<1>4. row \in Row /\ row.folio \in Folios /\ amount \in Nat \ {0} /\ rest \in Nat
  BY TransferRows
<1>5. /\ m \in Rows /\ s \in Rows /\ m # s /\ m \notin Charges /\ s \notin Charges
      /\ rows[m] = NoRow /\ rows[s] = NoRow
  BY TransferRows
<1>6. /\ row.folio \in loaded[w] /\ Agree(q.source, row, rows[q.source])
      /\ q.source \notin {m, s} /\ q.source \notin PosCharges
      /\ ~row.void /\ row.invoice = None /\ ~row.invoiced
  BY TransferRows
<1>7. /\ NewRow(q.to, amount) \in Row
      /\ RestRow(row, rest) \in Row \cup {NoRow}
      /\ rest > 0 => RestRow(row, rest) = NewRow(row.folio, rest)
      /\ rest = 0 => RestRow(row, rest) = NoRow
      /\ [row EXCEPT !.void = TRUE] \in Row
  BY TransferRows
<1>8. \A g, v : /\ NewRow(g, v).folio = g /\ NewRow(g, v).invoice = None
                /\ NewRow(g, v).invoiced = FALSE
  BY DEF NewRow
<1>9. /\ rows'[q.source] = [row EXCEPT !.void = TRUE]
      /\ rows'[m] = NewRow(q.to, amount) /\ rows'[s] = RestRow(row, rest)
      /\ \A r \in Rows \ {q.source, m, s} :
            rows'[r] \in Row \cup {NoRow} /\ Agree(r, rows'[r], rows[r])
      /\ rows' = [r \in Rows |-> rows'[r]]
  BY TransferRows
<1> HIDE DEF q, row, amount, rest, m, s
<1>10. /\ rows'[q.source].folio = rows[q.source].folio /\ rows'[q.source].invoice = None
       /\ rows[q.source].invoice = None /\ rows'[q.source].invoiced = rows[q.source].invoiced
       /\ rows'[q.source].folio \in loaded[w]
  BY <1>4, <1>6, <1>9 DEF Agree, Row
<1>11. NoRow.folio = None /\ NoRow.invoice = None /\ NoRow.invoiced = FALSE
  BY DEF NoRow
<1>12. rows' \in [Rows -> Row \cup {NoRow}]
  <2>1. \A r \in Rows : rows'[r] \in Row \cup {NoRow}
    BY <1>7, <1>9
  <2> QED
    BY <2>1, <1>9
<1>13. rest > 0 \/ rest = 0
  BY <1>4
<1>14. Links' /\ StatusKept'
  <2>1. m \notin PosCharges /\ s \notin PosCharges
    BY <1>5, FolioAssumption
  <2>2. LinkKept(q.source)
    BY <1>6, <1>10 DEF LinkKept
  <2>3. LinkKept(m)
    BY <2>1, <1>5, <1>8, <1>9, <1>11 DEF LinkKept
  <2>4. LinkKept(s)
    BY <2>1, <1>5, <1>7, <1>8, <1>9, <1>11, <1>13 DEF LinkKept
  <2>5. \A r \in Rows : LinkKept(r)
    BY <2>2, <2>3, <2>4, <1>9, AgreeKeepsLink
  <2> QED
    BY <2>5, <1>2, LinksStay
<1>15. \A r \in Rows : \/ Agree(r, rows'[r], rows[r])
                       \/ rows'[r].folio \in loaded[w] /\ rows[r].folio \in {None, rows'[r].folio}
  <2>1. \/ Agree(s, rows'[s], rows[s])
        \/ rows'[s].folio \in loaded[w] /\ rows[s].folio = None
    BY <1>5, <1>6, <1>7, <1>8, <1>9, <1>11, <1>13 DEF Agree
  <2>2. rows'[m].folio \in loaded[w] /\ rows[m].folio = None
    BY <1>1, <1>5, <1>8, <1>9, <1>11 DEF q
  <2>3. rows'[q.source].folio \in loaded[w] /\ rows[q.source].folio = rows'[q.source].folio
    BY <1>10
  <2>4. ASSUME NEW r \in Rows
        PROVE  \/ Agree(r, rows'[r], rows[r])
               \/ rows'[r].folio \in loaded[w] /\ rows[r].folio \in {None, rows'[r].folio}
    <3>1. CASE r \in {q.source, m, s}
      BY <2>1, <2>2, <2>3, <3>1
    <3>2. CASE r \notin {q.source, m, s}
      BY <3>2, <1>9
    <3> QED
      BY <3>1, <3>2
  <2> QED
    BY <2>4
<1>16. Lines'
  <2>1. \A r \in Rows : rows[r].folio # None => rows'[r].folio = rows[r].folio
    BY <1>15 DEF Agree
  <2>2. ASSUME NEW t \in Transfers, t # q.key, transfers[t].status = "None"
        PROVE  rows'[<<t, "moved">>].folio = None /\ rows'[<<t, "rest">>].folio = None
    <3>1. rows[<<t, "moved">>].folio = None /\ rows[<<t, "rest">>].folio = None
      BY <2>2 DEF IInv, Lines
    <3>2. <<t, "moved">> \notin {q.source, m, s} /\ <<t, "rest">> \notin {q.source, m, s}
      <4>1. rows[q.source].folio # None
        BY <1>10, <1>1, Apart
      <4> QED
        BY <4>1, <3>1, <2>2 DEF m, s
    <3> QED
      BY <3>1, <3>2, <1>9, Apart DEF Agree
  <2>3. ASSUME NEW t \in Transfers, t # q.key PROVE transfers'[t] = transfers[t]
    BY <1>2, <2>3 DEF IInv, TypeOK
  <2>4. /\ transfers'[q.key].source = q.source /\ transfers'[q.key].moved = m
        /\ transfers'[q.key].rest = IF rest > 0 THEN s ELSE None
        /\ transfers'[q.key].status = "Applied"
    BY <1>1, <1>2 DEF IInv, TypeOK, q
  <2>5. rest > 0 => rows'[s].folio = rows'[q.source].folio
    BY <1>4, <1>7, <1>8, <1>9 DEF Row
  <2>6. rows'[q.source].folio # None /\ rows'[m].folio # None
    BY <1>1, <1>8, <1>9, <1>10, Apart DEF q
  <2>7. q.source \in Rows
    BY <1>1 DEF q
  <2>8. ASSUME NEW t \in Transfers
        PROVE  IF transfers'[t].status = "None"
               THEN rows'[<<t, "moved">>].folio = None /\ rows'[<<t, "rest">>].folio = None
               ELSE /\ transfers'[t].source \in Rows /\ transfers'[t].moved \in Rows
                    /\ rows'[transfers'[t].source].folio # None
                    /\ rows'[transfers'[t].moved].folio # None
                    /\ transfers'[t].rest # None =>
                          /\ transfers'[t].rest \in Rows
                          /\ rows'[transfers'[t].rest].folio = rows'[transfers'[t].source].folio
    <3>1. CASE t = q.key
      BY <3>1, <2>4, <2>5, <2>6, <2>7, <1>5
    <3>2. CASE t # q.key
      BY <3>2, <2>1, <2>2, <2>3 DEF IInv, Lines
    <3> QED
      BY <3>1, <3>2
  <2> QED
    BY <2>8 DEF Lines
<1>17. /\ transfers' \in [Transfers -> Transfer]
       /\ \A t \in Transfers : transfers[t].status # "None" => transfers'[t] = transfers[t]
  <2>1. [status |-> "Applied", reversal |-> FALSE, source |-> q.source, moved |-> m,
         rest |-> IF rest > 0 THEN s ELSE None] \in Transfer
    BY <1>1, <1>5 DEF Transfer, q
  <2> QED
    BY <2>1, <1>1, <1>2 DEF IInv, TypeOK
<1>18. Handlers' /\ TypeOK'
  <2>1. NoReconciliation => \A f \in Folios \ loaded[w] : billed'[f] = billed[f]
    BY <1>2
  <2>2. /\ loaded[w] \in SUBSET Folios
        /\ billed' \in [Folios -> BOOLEAN] /\ UNCHANGED <<drafts, submitted, cancelled>>
    BY <1>1, <1>2
  <2> HIDE DEF Touch
  <2> QED
    BY <2>1, <2>2, <1>12, <1>15, <1>17, OthersStay DEF IInv, TypeOK
<1> QED
  BY <1>14, <1>16, <1>18 DEF IInv

(* What a reversal finds, and the rows it writes. *)
LEMMA ReverseRows ==
    ASSUME IInv, NEW w \in Workers, CommitReverse(w)
    PROVE  LET q == req[w]
               t == transfers[q.transfer]
               generated == {t.moved, t.rest} \ {None}
               line == [status |-> "Applied", reversal |-> TRUE,
                        source |-> t.moved, moved |-> t.source, rest |-> None]
           IN
           /\ q.key \in Transfers /\ q.transfer \in Transfers /\ t \in Transfer
           /\ rows[t.source].folio \in loaded[w] /\ rows[t.moved].folio \in loaded[w]
           /\ loaded[w] \in SUBSET Folios /\ q.kind # "reconcile"
           /\ transfers[q.key].status = "None" /\ t.status = "Applied"
           /\ transfers' = [transfers EXCEPT ![q.key] = line, ![q.transfer].status = "Reversed"]
           /\ billed' \in [Folios -> BOOLEAN] /\ (NoReconciliation => billed' = billed)
           /\ UNCHANGED <<drafts, submitted, cancelled>>
           /\ t.source \in Rows /\ t.moved \in Rows
           /\ rows[t.source].folio # None /\ rows[t.moved].folio # None
           /\ t.rest # None => t.rest \in Rows /\ rows[t.rest].folio = rows[t.source].folio
           /\ q.key # q.transfer
           /\ generated \subseteq Rows \ PosCharges
           /\ \A r \in Rows :
                 /\ r \in generated => rows[r].invoice = None /\ ~rows[r].void
                 /\ rows'[r] \in Row \cup {NoRow}
                 /\ rows'[r].folio = rows[r].folio /\ rows'[r].value = rows[r].value
                 /\ rows'[r].invoice = rows[r].invoice /\ rows'[r].invoiced = rows[r].invoiced
                 /\ r \in generated => rows'[r].void
                 /\ r \notin generated /\ r = t.source => ~rows'[r].void
                 /\ r \notin generated /\ r # t.source => Agree(r, rows'[r], rows[r])
                 /\ r \in generated \/ r = t.source => rows[r].folio \in loaded[w]
           /\ rows' = [r \in Rows |-> rows'[r]]
<1> DEFINE q == req[w]
           t == transfers[q.transfer]
           generated == {t.moved, t.rest} \ {None}
           line == [status |-> "Applied", reversal |-> TRUE,
                    source |-> t.moved, moved |-> t.source, rest |-> None]
<1>1. /\ q.key \in Transfers /\ q.transfer \in Transfers /\ t \in Transfer
      /\ rows[t.source].folio \in loaded[w] /\ rows[t.moved].folio \in loaded[w]
      /\ loaded[w] \in SUBSET Folios /\ q.kind # "reconcile"
  BY RequestFields DEF CommitReverse, IInv, TypeOK, Handlers, Requested
<1>2. /\ transfers[q.key].status = "None" /\ t.status = "Applied"
      /\ \A r \in generated : Billable(form[w].rows[r])
      /\ rows' = [r \in Rows |->
                     IF r \in generated THEN [Saved(w)[r] EXCEPT !.void = TRUE]
                     ELSE IF r = t.source THEN [Saved(w)[r] EXCEPT !.void = FALSE]
                     ELSE Saved(w)[r]]
      /\ transfers' = [transfers EXCEPT ![q.key] = line, ![q.transfer].status = "Reversed"]
      /\ billed' \in [Folios -> BOOLEAN] /\ (NoReconciliation => billed' = billed)
      /\ UNCHANGED <<drafts, submitted, cancelled>>
  BY <1>1, SavedAgrees DEF CommitReverse, Untouched
<1>3. /\ t.source \in Rows /\ t.moved \in Rows
      /\ rows[t.source].folio # None /\ rows[t.moved].folio # None
      /\ t.rest # None => t.rest \in Rows /\ rows[t.rest].folio = rows[t.source].folio
      /\ q.key # q.transfer
  BY <1>1, <1>2 DEF IInv, Lines
<1>4. ASSUME NEW r \in generated
      PROVE  /\ r \in Rows /\ rows[r].folio \in loaded[w] /\ r \notin PosCharges
             /\ rows[r].invoice = None /\ ~rows[r].void
  <2>1. r \in Rows /\ rows[r].folio \in loaded[w]
    BY <1>1, <1>3
  <2>2. Agree(r, form[w].rows[r], rows[r])
    BY <1>1, <2>1 DEF IInv, Handlers, Current
  <2>3. rows[r].invoice = None /\ ~rows[r].invoiced
    BY <1>2, <2>2 DEF Billable, Agree
  <2>4. r \notin PosCharges
    BY <1>1, <2>1, <2>3, Apart DEF IInv, Links
  <2> QED
    BY <1>2, <2>1, <2>2, <2>3, <2>4 DEF Billable, Agree
<1> HIDE DEF q, t, generated, line
<1>5. ASSUME NEW r \in Rows
      PROVE  /\ Saved(w)[r] \in Row \cup {NoRow} /\ Agree(r, Saved(w)[r], rows[r])
             /\ r \in generated => rows'[r] = [Saved(w)[r] EXCEPT !.void = TRUE]
             /\ r \notin generated /\ r = t.source => rows'[r] = [Saved(w)[r] EXCEPT !.void = FALSE]
             /\ r \notin generated /\ r # t.source => rows'[r] = Saved(w)[r]
  <2>1. Saved(w)[r] \in Row \cup {NoRow} /\ Agree(r, Saved(w)[r], rows[r])
    BY <1>1, SavedAgrees DEF q
  <2> QED
    BY <2>1, <1>2
<1>6. ASSUME NEW r \in Rows, r \in generated \/ r = t.source
      PROVE  rows[r].folio \in loaded[w] /\ Saved(w)[r] \in Row
  <2>1. rows[r].folio \in loaded[w]
    BY <1>1, <1>4, <1>6
  <2>2. Saved(w)[r].folio # None
    BY <1>1, <1>5, <2>1, Apart DEF Agree
  <2> QED
    BY <2>1, <2>2, <1>5, RowFacts
<1>7. ASSUME NEW r \in Rows
      PROVE  /\ rows'[r] \in Row \cup {NoRow}
             /\ rows'[r].folio = rows[r].folio /\ rows'[r].value = rows[r].value
             /\ rows'[r].invoice = rows[r].invoice /\ rows'[r].invoiced = rows[r].invoiced
             /\ r \in generated => rows'[r].void
             /\ r \notin generated /\ r = t.source => ~rows'[r].void
  <2>1. CASE r \in generated
    <3>1. rows'[r] = [Saved(w)[r] EXCEPT !.void = TRUE] /\ Saved(w)[r] \in Row
      BY <1>5, <1>6, <2>1
    <3>2. rows'[r] \in Row
      BY <3>1, RowUpdates
    <3>3. /\ rows'[r].folio = Saved(w)[r].folio /\ rows'[r].invoice = Saved(w)[r].invoice
          /\ rows'[r].invoiced = Saved(w)[r].invoiced /\ rows'[r].value = Saved(w)[r].value
          /\ rows'[r].void = TRUE
      BY <3>1, RowFields
    <3> QED
      BY <3>2, <3>3, <1>5, <2>1 DEF Agree
  <2>2. CASE r \notin generated /\ r = t.source
    <3>1. rows'[r] = [Saved(w)[r] EXCEPT !.void = FALSE] /\ Saved(w)[r] \in Row
      BY <1>5, <1>6, <2>2
    <3>2. rows'[r] \in Row
      BY <3>1, RowUpdates
    <3>3. /\ rows'[r].folio = Saved(w)[r].folio /\ rows'[r].invoice = Saved(w)[r].invoice
          /\ rows'[r].invoiced = Saved(w)[r].invoiced /\ rows'[r].value = Saved(w)[r].value
          /\ rows'[r].void = FALSE
      BY <3>1, RowFields
    <3> QED
      BY <3>2, <3>3, <1>5, <2>2 DEF Agree
  <2>3. CASE r \notin generated /\ r # t.source
    BY <1>5, <2>3 DEF Agree
  <2> QED
    BY <2>1, <2>2, <2>3
<1>8. rows' = [r \in Rows |-> rows'[r]]
  BY <1>2
<1>9. \A r \in Rows : r \notin generated /\ r # t.source => Agree(r, rows'[r], rows[r])
  BY <1>5
<1> QED
  BY <1>1, <1>2, <1>3, <1>4, <1>6, <1>7, <1>8, <1>9 DEF q, t, generated, line

LEMMA ReverseStep ==
    ASSUME IInv, NEW w \in Workers, CommitReverse(w), Touch(w, loaded[w])
    PROVE  IInv'
<1> DEFINE q == req[w]
           t == transfers[q.transfer]
           generated == {t.moved, t.rest} \ {None}
           line == [status |-> "Applied", reversal |-> TRUE,
                    source |-> t.moved, moved |-> t.source, rest |-> None]
<1>1. /\ q.key \in Transfers /\ q.transfer \in Transfers /\ t \in Transfer
      /\ rows[t.source].folio \in loaded[w] /\ rows[t.moved].folio \in loaded[w]
      /\ loaded[w] \in SUBSET Folios /\ q.kind # "reconcile"
  BY ReverseRows
<1>2. /\ transfers[q.key].status = "None" /\ t.status = "Applied"
      /\ transfers' = [transfers EXCEPT ![q.key] = line, ![q.transfer].status = "Reversed"]
      /\ billed' \in [Folios -> BOOLEAN] /\ (NoReconciliation => billed' = billed)
      /\ UNCHANGED <<drafts, submitted, cancelled>>
      /\ rows' = [r \in Rows |-> rows'[r]]
  BY ReverseRows
<1>3. /\ t.source \in Rows /\ t.moved \in Rows
      /\ rows[t.source].folio # None /\ rows[t.moved].folio # None
      /\ t.rest # None => t.rest \in Rows /\ rows[t.rest].folio = rows[t.source].folio
      /\ q.key # q.transfer
  BY ReverseRows
<1>4. /\ generated \subseteq Rows \ PosCharges
      /\ \A r \in Rows : r \in generated => rows[r].invoice = None
  BY ReverseRows
<1>5. \A r \in Rows : /\ r \notin generated /\ r = t.source => ~rows'[r].void
                      /\ r \notin generated /\ r # t.source => Agree(r, rows'[r], rows[r])
  BY ReverseRows
<1>6. \A r \in Rows : r \in generated \/ r = t.source => rows[r].folio \in loaded[w]
  BY ReverseRows
<1>7. \A r \in Rows : /\ rows'[r] \in Row \cup {NoRow}
                      /\ rows'[r].folio = rows[r].folio /\ rows'[r].invoice = rows[r].invoice
                      /\ rows'[r].invoiced = rows[r].invoiced
  BY ReverseRows
<1> HIDE DEF q, t, generated, line
<1>8. Links' /\ StatusKept'
  <2>1. ASSUME NEW r \in Rows PROVE LinkKept(r)
    <3>1. ASSUME rows[r].invoice # None PROVE ~rows'[r].void
      <4>1. r \notin generated /\ ~rows[r].void /\ r \notin PosCharges
        BY <1>4, <3>1 DEF IInv, Links
      <4> QED
        BY <4>1, <1>5 DEF Agree
    <3> QED
      BY <3>1, <1>7 DEF LinkKept, IInv, Links
  <2> QED
    BY <2>1, <1>2, LinksStay
<1>9. /\ transfers' \in [Transfers -> Transfer]
      /\ transfers'[q.key] = line
      /\ \A k \in Transfers \ {q.key} : /\ transfers'[k].source = transfers[k].source
                                        /\ transfers'[k].moved = transfers[k].moved
                                        /\ transfers'[k].rest = transfers[k].rest
                                        /\ (transfers[k].status = "None" <=> transfers'[k].status = "None")
  <2>1. line \in Transfer
    BY <1>1 DEF Transfer, line
  <2>2. [t EXCEPT !.status = "Reversed"] \in Transfer
    BY <1>1 DEF Transfer
  <2>3. transfers' = [transfers EXCEPT ![q.key] = line,
                                       ![q.transfer] = [t EXCEPT !.status = "Reversed"]]
    BY <1>1, <1>2, <1>3 DEF IInv, TypeOK, t
  <2>4. \A k \in Transfers :
            transfers'[k] = IF k = q.transfer THEN [t EXCEPT !.status = "Reversed"]
                            ELSE IF k = q.key THEN line ELSE transfers[k]
    BY <1>1, <1>3, <2>3 DEF IInv, TypeOK
  <2>5. /\ [t EXCEPT !.status = "Reversed"].source = t.source
        /\ [t EXCEPT !.status = "Reversed"].moved = t.moved
        /\ [t EXCEPT !.status = "Reversed"].rest = t.rest
        /\ [t EXCEPT !.status = "Reversed"].status = "Reversed"
    BY <1>1 DEF Transfer
  <2>6. transfers' \in [Transfers -> Transfer]
    BY <2>1, <2>2, <2>3 DEF IInv, TypeOK
  <2>7. transfers'[q.key] = line
    BY <1>1, <1>3, <2>4 DEF q
  <2>8. t = transfers[q.transfer] /\ t.status # "None"
    BY <1>2 DEF t
  <2> QED
    BY <2>4, <2>5, <2>6, <2>7, <2>8
<1>10. Lines'
  <2>1. ASSUME NEW k \in Transfers
        PROVE  IF transfers'[k].status = "None"
               THEN rows'[<<k, "moved">>].folio = None /\ rows'[<<k, "rest">>].folio = None
               ELSE /\ transfers'[k].source \in Rows /\ transfers'[k].moved \in Rows
                    /\ rows'[transfers'[k].source].folio # None
                    /\ rows'[transfers'[k].moved].folio # None
                    /\ transfers'[k].rest # None =>
                          /\ transfers'[k].rest \in Rows
                          /\ rows'[transfers'[k].rest].folio = rows'[transfers'[k].source].folio
    <3>1. CASE k = q.key
      <4>1. /\ line.status = "Applied" /\ line.source = t.moved /\ line.moved = t.source
            /\ line.rest = None
        BY DEF line
      <4> QED
        BY <4>1, <3>1, <1>3, <1>7, <1>9
    <3>2. CASE k # q.key
      <4>1. <<k, "moved">> \in Rows /\ <<k, "rest">> \in Rows
        BY Apart
      <4>2. \A r \in Rows : rows'[r].folio = rows[r].folio
        BY <1>7
      <4>3. CASE transfers[k].status = "None"
        <5>1. rows[<<k, "moved">>].folio = None /\ rows[<<k, "rest">>].folio = None
          BY <4>3 DEF IInv, Lines
        <5>2. transfers'[k].status = "None"
          BY <4>3, <3>2, <1>9
        <5> QED
          BY <5>1, <5>2, <4>1, <4>2
      <4>4. CASE transfers[k].status # "None"
        <5>1. /\ transfers[k].source \in Rows /\ transfers[k].moved \in Rows
              /\ rows[transfers[k].source].folio # None /\ rows[transfers[k].moved].folio # None
              /\ transfers[k].rest # None =>
                    /\ transfers[k].rest \in Rows
                    /\ rows[transfers[k].rest].folio = rows[transfers[k].source].folio
          BY <4>4 DEF IInv, Lines
        <5>2. /\ transfers'[k].status # "None" /\ transfers'[k].source = transfers[k].source
              /\ transfers'[k].moved = transfers[k].moved /\ transfers'[k].rest = transfers[k].rest
          BY <4>4, <3>2, <1>9
        <5> QED
          BY <5>1, <5>2, <4>2
      <4> QED
        BY <4>3, <4>4
    <3> QED
      BY <3>1, <3>2
  <2> QED
    BY <2>1 DEF Lines
<1>11. Handlers' /\ TypeOK'
  <2>1. \A r \in Rows : \/ Agree(r, rows'[r], rows[r])
                        \/ rows'[r].folio \in loaded[w] /\ rows[r].folio \in {None, rows'[r].folio}
    <3>1. ASSUME NEW r \in Rows, r \in generated \/ r = t.source
          PROVE  rows'[r].folio \in loaded[w] /\ rows[r].folio = rows'[r].folio
      BY <1>6, <1>7, <3>1
    <3>2. ASSUME NEW r \in Rows, r \notin generated, r # t.source
          PROVE  Agree(r, rows'[r], rows[r])
      BY <1>5, <3>2
    <3> QED
      BY <3>1, <3>2
  <2>2. rows' \in [Rows -> Row \cup {NoRow}]
    BY <1>2, <1>7
  <2>3. \A k \in Transfers : transfers[k].status # "None" =>
            /\ transfers'[k].status # "None"
            /\ transfers'[k].source = transfers[k].source
            /\ transfers'[k].moved = transfers[k].moved
    BY <1>2, <1>9
  <2> QED
    BY <2>1, <2>2, <2>3, <1>1, <1>2, <1>9, OthersStay DEF IInv, TypeOK
<1> QED
  BY <1>8, <1>10, <1>11 DEF IInv

(* A new invoice takes rows that name no invoice, and is not active before. *)
LEMMA TargetIsNew ==
    ASSUME IInv, NEW charges \in SUBSET Rows, charges # {},
           \A r \in charges : rows[r].invoice = None,
           NEW i \in Targets(charges)
    PROVE  i \in Invoice /\ i.rows = charges /\ i \notin Active
<1>1. \A j \in Active : j \in Invoice /\ j.rows # charges
  BY Apart DEF IInv, Links, TypeOK, Active
<1>2. {j \in Active \cup cancelled : j.rows = charges} \cap Active = {}
  BY <1>1
<1>3. PICK n \in 1..MaxRevision : i = [rows |-> charges, revision |-> n]
  BY <1>2 DEF Targets
<1> QED
  BY <1>1, <1>3 DEF Invoice

(* What an invoice takes, and the rows it writes. *)
LEMMA InvoiceRows ==
    ASSUME IInv, NEW w \in Workers, CommitInvoice(w)
    PROVE  LET q == req[w]
               charges == ChargesOf(form[w], q.folio)
           IN
           /\ q.folio \in Folios /\ q.folio \in loaded[w] /\ loaded[w] \in SUBSET Folios
           /\ q.kind # "reconcile"
           /\ charges # {} /\ charges \subseteq Rows \ PosCharges
           /\ \A r \in Rows : r \in charges =>
                 /\ rows[r].folio = q.folio /\ rows[r].invoice = None
                 /\ ~rows[r].invoiced /\ ~rows[r].void
           /\ billed' \in [Folios -> BOOLEAN]
           /\ NoReconciliation => billed' = [billed EXCEPT ![q.folio] = TRUE]
           /\ UNCHANGED <<transfers, submitted, cancelled>>
           /\ rows' = [r \in Rows |-> rows'[r]]
           /\ \E i \in Invoice :
                 /\ i.rows = charges /\ i \notin Active /\ i # None
                 /\ drafts' = drafts \cup {i} /\ Active' = Active \cup {i}
                 /\ \A r \in Rows : r \in charges =>
                       /\ rows'[r] \in Row /\ rows'[r].folio = q.folio /\ rows'[r].invoice = i
                       /\ ~rows'[r].invoiced /\ ~rows'[r].void /\ rows'[r].value = rows[r].value
                 /\ \A r \in Rows : r \notin charges =>
                       rows'[r] \in Row \cup {NoRow} /\ Agree(r, rows'[r], rows[r])
<1> DEFINE q == req[w]
           charges == ChargesOf(form[w], q.folio)
<1>1. q.folio \in Folios /\ q.folio \in loaded[w] /\ loaded[w] \in SUBSET Folios /\ q.kind # "reconcile"
  BY RequestFields DEF CommitInvoice, IInv, TypeOK, Handlers, Requested
<1>2. PICK i \in Targets(charges) :
         /\ drafts' = drafts \cup ({i} \ submitted)
         /\ rows' = [r \in Rows |-> IF r \in charges
                                    THEN [Saved(w)[r] EXCEPT !.invoice = i] ELSE Saved(w)[r]]
  BY DEF CommitInvoice
<1>3. /\ billed' \in [Folios -> BOOLEAN]
      /\ NoReconciliation => billed' = [billed EXCEPT ![q.folio] = TRUE]
      /\ charges # {} /\ UNCHANGED <<transfers, submitted, cancelled>>
  BY <1>1, SavedAgrees DEF CommitInvoice
<1>4. ASSUME NEW r \in charges
      PROVE  /\ r \in Rows /\ rows[r].folio = q.folio /\ r \notin PosCharges
             /\ rows[r].invoice = None /\ ~rows[r].invoiced /\ ~rows[r].void
  <2>1. r \in Rows /\ form[w].rows[r].folio = q.folio /\ Billable(form[w].rows[r])
    BY DEF ChargesOf
  <2>2. Agree(r, form[w].rows[r], rows[r])
    BY <1>1, <2>1 DEF IInv, Handlers, Current
  <2>3. rows[r].folio = q.folio /\ rows[r].invoice = None /\ ~rows[r].invoiced
    BY <2>1, <2>2 DEF Billable, Agree
  <2>4. r \notin PosCharges
    BY <1>1, <2>3, Apart DEF IInv, Links
  <2> QED
    BY <2>1, <2>2, <2>3, <2>4 DEF Billable, Agree
<1> HIDE DEF q, charges
<1>5. i \in Invoice /\ i.rows = charges /\ i \notin Active /\ i # None
  BY <1>3, <1>4, TargetIsNew, Apart
<1>6. ASSUME NEW r \in Rows
      PROVE  /\ Saved(w)[r] \in Row \cup {NoRow} /\ Agree(r, Saved(w)[r], rows[r])
             /\ r \in charges => rows'[r] = [Saved(w)[r] EXCEPT !.invoice = i]
             /\ r \notin charges => rows'[r] = Saved(w)[r]
  <2>1. Saved(w)[r] \in Row \cup {NoRow} /\ Agree(r, Saved(w)[r], rows[r])
    BY <1>1, SavedAgrees DEF q
  <2> QED
    BY <2>1, <1>2
<1>7. ASSUME NEW r \in charges
      PROVE  /\ rows'[r] \in Row /\ rows'[r].folio = q.folio /\ rows'[r].invoice = i
             /\ ~rows'[r].invoiced /\ ~rows'[r].void /\ rows'[r].value = rows[r].value
  <2>1. r \in Rows /\ Agree(r, Saved(w)[r], rows[r]) /\ Saved(w)[r] \in Row \cup {NoRow}
    BY <1>4, <1>6
  <2>2. Saved(w)[r].folio # None
    BY <1>1, <1>4, <2>1, Apart DEF Agree, q
  <2>3. Saved(w)[r] \in Row /\ rows'[r] = [Saved(w)[r] EXCEPT !.invoice = i]
    BY <1>4, <1>6, <2>1, <2>2, RowFacts
  <2>4. rows'[r] \in Row
    BY <1>5, <2>3, RowUpdates
  <2>5. /\ rows'[r].folio = Saved(w)[r].folio /\ rows'[r].invoice = i
        /\ rows'[r].invoiced = Saved(w)[r].invoiced /\ rows'[r].void = Saved(w)[r].void
        /\ rows'[r].value = Saved(w)[r].value
    BY <2>3, RowFields
  <2> QED
    BY <1>4, <2>1, <2>4, <2>5 DEF Agree
<1>8. Active' = Active \cup {i} /\ i \notin submitted /\ i \notin drafts
  BY <1>2, <1>3, <1>5 DEF Active
<1>9. \A r \in Rows : r \notin charges => rows'[r] \in Row \cup {NoRow} /\ Agree(r, rows'[r], rows[r])
  BY <1>6
<1>10. charges \subseteq Rows \ PosCharges /\ rows' = [r \in Rows |-> rows'[r]]
       /\ drafts' = drafts \cup {i}
  BY <1>2, <1>4, <1>8
<1>11. /\ \A r \in Rows : r \in charges =>
              /\ rows[r].folio = q.folio /\ rows[r].invoice = None
              /\ ~rows[r].invoiced /\ ~rows[r].void
       /\ \A r \in Rows : r \in charges =>
              /\ rows'[r] \in Row /\ rows'[r].folio = q.folio /\ rows'[r].invoice = i
              /\ ~rows'[r].invoiced /\ ~rows'[r].void /\ rows'[r].value = rows[r].value
  BY <1>4, <1>7
<1> QED
  BY <1>1, <1>3, <1>5, <1>8, <1>9, <1>10, <1>11 DEF q, charges

LEMMA InvoiceStep ==
    ASSUME IInv, NEW w \in Workers, CommitInvoice(w), Touch(w, loaded[w])
    PROVE  IInv'
<1> DEFINE q == req[w]
           charges == ChargesOf(form[w], q.folio)
<1>1. q.folio \in Folios /\ q.folio \in loaded[w] /\ loaded[w] \in SUBSET Folios /\ q.kind # "reconcile"
  BY InvoiceRows
<1>2. PICK i \in Invoice :
         /\ i.rows = charges /\ i \notin Active /\ i # None
         /\ drafts' = drafts \cup {i} /\ Active' = Active \cup {i}
         /\ \A r \in Rows : r \in charges =>
               /\ rows'[r] \in Row /\ rows'[r].folio = q.folio /\ rows'[r].invoice = i
               /\ ~rows'[r].invoiced /\ ~rows'[r].void
         /\ \A r \in Rows : r \notin charges =>
               rows'[r] \in Row \cup {NoRow} /\ Agree(r, rows'[r], rows[r])
  BY InvoiceRows
<1>3. /\ billed' \in [Folios -> BOOLEAN]
      /\ NoReconciliation => billed' = [billed EXCEPT ![q.folio] = TRUE]
      /\ charges # {} /\ UNCHANGED <<transfers, submitted, cancelled>>
      /\ rows' = [r \in Rows |-> rows'[r]]
  BY InvoiceRows
<1>4. /\ charges \subseteq Rows \ PosCharges
      /\ \A r \in Rows : r \in charges => rows[r].folio = q.folio /\ rows[r].invoice = None
  BY InvoiceRows
<1> HIDE DEF q, charges
<1>5. i \in Invoice /\ i.rows = charges /\ i \notin Active /\ i # None
  BY <1>2
<1>7. ASSUME NEW r \in charges
      PROVE  /\ rows'[r] \in Row /\ rows'[r].folio = q.folio /\ rows'[r].invoice = i
             /\ ~rows'[r].invoiced /\ ~rows'[r].void
  BY <1>2, <1>4
<1>8. Active' = Active \cup {i} /\ i \notin submitted /\ i \notin drafts
  BY <1>2 DEF Active
<1>9. ASSUME NEW r \in Rows \ charges
      PROVE  rows'[r] \in Row \cup {NoRow} /\ Agree(r, rows'[r], rows[r])
  BY <1>2
<1>10. Links'
  <2>1. \A r \in Rows : rows'[r].invoice # None =>
           rows'[r].invoice \in Active' /\ r \in rows'[r].invoice.rows /\ ~rows'[r].void
    <3>1. ASSUME NEW r \in Rows \ charges, rows'[r].invoice # None
          PROVE  rows'[r].invoice \in Active' /\ r \in rows'[r].invoice.rows /\ ~rows'[r].void
      BY <3>1, <1>8, <1>9 DEF IInv, Links, Agree
    <3> QED
      BY <3>1, <1>5, <1>7, <1>8
  <2>2. \A j \in Active' : \A r \in j.rows : rows'[r].invoice = j
    <3>1. ASSUME NEW j \in Active, NEW r \in j.rows PROVE rows'[r].invoice = j
      <4>1. r \in Rows /\ rows[r].invoice = j /\ j # None
        BY Apart DEF IInv, Links, TypeOK, Active, Invoice
      <4> QED
        BY <4>1, <1>4, <1>9 DEF Agree
    <3> QED
      BY <3>1, <1>5, <1>7, <1>8
  <2>3. \A r \in Rows \ PosCharges : rows'[r].invoiced <=> rows'[r].invoice \in submitted'
    <3>1. ASSUME NEW r \in Rows \ PosCharges, r \notin charges
          PROVE  rows'[r].invoiced <=> rows'[r].invoice \in submitted
      BY <3>1, <1>9 DEF IInv, Links, Agree
    <3> QED
      BY <3>1, <1>3, <1>7, <1>8
  <2>4. \A c \in PosCharges :
           rows'[c].invoice = None /\ (rows'[c].folio # None => rows'[c].invoiced)
    BY <1>4, <1>9, Apart DEF IInv, Links, Agree
  <2>5. drafts' \cap submitted' = {}
    BY <1>2, <1>3, <1>8 DEF IInv, Links
  <2> QED
    BY <2>1, <2>2, <2>3, <2>4, <2>5 DEF Links
<1>11. StatusKept'
  <2>1. ASSUME NoReconciliation, NEW f \in Folios
        PROVE  billed'[f] <=> \E r \in Rows : rows'[r].folio = f /\ rows'[r].invoice # None
    <3>1. CASE f = q.folio
      <4>1. PICK r \in charges : TRUE
        BY <1>3
      <4> QED
        BY <4>1, <3>1, <2>1, <1>1, <1>3, <1>4, <1>5, <1>7 DEF IInv, TypeOK
    <3>2. CASE f # q.folio
      <4>1. billed'[f] = billed[f]
        BY <3>2, <2>1, <1>3 DEF IInv, TypeOK
      <4>2. \A r \in Rows : rows'[r].folio = f /\ rows'[r].invoice # None
                            <=> rows[r].folio = f /\ rows[r].invoice # None
        BY <3>2, <1>4, <1>7, <1>9 DEF Agree
      <4> QED
        BY <2>1, <4>1, <4>2 DEF IInv, StatusKept, StatusAgrees
    <3> QED
      BY <3>1, <3>2
  <2> QED
    BY <2>1 DEF StatusKept, StatusAgrees
<1>12. \A r \in Rows : rows'[r].folio = rows[r].folio
  BY <1>4, <1>7, <1>9 DEF Agree
<1>13. Lines'
  BY <1>3, <1>12, Apart DEF IInv, Lines
<1>14. Handlers' /\ TypeOK'
  <2>1. \A r \in Rows : \/ Agree(r, rows'[r], rows[r])
                        \/ rows'[r].folio \in loaded[w] /\ rows[r].folio \in {None, rows'[r].folio}
    BY <1>1, <1>7, <1>9, <1>12 DEF q
  <2>2. NoReconciliation => \A f \in Folios \ loaded[w] : billed'[f] = billed[f]
    BY <1>1, <1>3 DEF IInv, TypeOK, q
  <2>3. rows' \in [Rows -> Row \cup {NoRow}]
    <3>1. \A r \in Rows : rows'[r] \in Row \cup {NoRow}
      BY <1>7, <1>9
    <3> QED
      BY <3>1, <1>3
  <2>4. drafts' \subseteq Invoice /\ billed' \in [Folios -> BOOLEAN]
    BY <1>2, <1>3, <1>5 DEF IInv, TypeOK
  <2> QED
    BY <2>1, <2>2, <2>3, <2>4, <1>1, <1>3, OthersStay DEF IInv, TypeOK
<1> QED
  BY <1>10, <1>11, <1>13, <1>14 DEF IInv

(* At repeatable read a reconciliation finds no row to repair. *)
LEMMA ReconcileKeepsRows ==
    ASSUME ReconcilesAtRepeatableRead, IInv, NEW w \in Workers, CommitReconcile(w)
    PROVE  rows' = rows
<1> DEFINE q == req[w]
           fm == form[w]
           linked == {r \in Rows : fm.rows[r].folio = q.folio /\ fm.rows[r].invoice # None}
<1>1. /\ q.kind = "reconcile" /\ q.folio \in Folios /\ q.folio \in loaded[w]
      /\ q.kind \in Kinds
  BY RequestFields DEF CommitReconcile, IInv, TypeOK, Handlers, Requested
<1>2. RepeatableRead
  BY <1>1 DEF ReconcilesAtRepeatableRead
<1>3. /\ \A r \in Rows : fm.rows[r].invoice # None =>
            /\ fm.rows[r].invoice \in fm.active
            /\ fm.rows[r].invoiced <=> fm.rows[r].invoice \in fm.submitted
      /\ fm \in Form
  BY <1>1 DEF IInv, Handlers, Snapshot, TypeOK
<1>4. \A r \in Rows : fm.rows[r].invoiced \in BOOLEAN
  <2>1. \A r \in Rows : fm.rows[r] \in Row \cup {NoRow}
    BY <1>3 DEF Form
  <2> QED
    BY <2>1, RowFacts
<1>5. rows' = [r \in Rows |->
              CASE r \in linked /\ ~(fm.rows[r].invoice \in fm.active) ->
                      [rows[r] EXCEPT !.invoice = None, !.invoiced = FALSE]
                [] r \in linked /\ fm.rows[r].invoice \in fm.active
                   /\ fm.rows[r].invoiced # (fm.rows[r].invoice \in fm.submitted) ->
                      [rows[r] EXCEPT !.invoiced = (fm.rows[r].invoice \in fm.submitted)]
                [] OTHER -> rows[r]]
  BY <1>2 DEF CommitReconcile, Alive
<1> HIDE DEF q, fm
<1> QED
  <2>1. ASSUME NEW r \in linked
        PROVE  /\ r \in Rows /\ fm.rows[r].invoice \in fm.active
               /\ fm.rows[r].invoiced = (fm.rows[r].invoice \in fm.submitted)
    <3>1. r \in Rows /\ fm.rows[r].invoice # None
      OBVIOUS
    <3>2. fm.rows[r].invoiced <=> fm.rows[r].invoice \in fm.submitted
      BY <3>1, <1>3
    <3>3. fm.rows[r].invoiced \in BOOLEAN
      BY <3>1, <1>4
    <3> QED
      BY <3>1, <3>2, <3>3, <1>3
  <2> HIDE DEF linked
  <2>2. \A r \in Rows : rows'[r] = rows[r]
    BY <1>5, <2>1
  <2> QED
    BY <2>2, <1>5 DEF IInv, TypeOK

LEMMA ReconcileStep ==
    ASSUME ReconcilesAtRepeatableRead, IInv, NEW w \in Workers, CommitReconcile(w), Touch(w, {})
    PROVE  IInv'
<1>1. rows' = rows
  BY ReconcileKeepsRows
<1>2. req[w].kind = "reconcile" /\ req[w].kind \in Kinds
  BY DEF CommitReconcile, IInv, Handlers, Requested
<1>3. billed' \in [Folios -> BOOLEAN] /\ ~NoReconciliation
  BY <1>2 DEF CommitReconcile, IInv, TypeOK, NoReconciliation
<1>4. UNCHANGED <<transfers, drafts, submitted, cancelled>>
  BY DEF CommitReconcile
<1>5. Links' /\ StatusKept' /\ Lines'
  BY <1>1, <1>3, <1>4 DEF IInv, Links, StatusKept, Lines, Active
<1>6. Handlers' /\ TypeOK'
  <2>1. \A r \in Rows : Agree(r, rows'[r], rows[r])
    BY <1>1 DEF Agree
  <2> QED
    BY <2>1, <1>1, <1>3, <1>4, OthersStay DEF IInv, TypeOK
<1> QED
  BY <1>5, <1>6 DEF IInv

(* An active invoice is made of rows of folios, and these name it. *)
LEMMA ActiveInvoice ==
    ASSUME IInv, NEW i \in Active
    PROVE  /\ i \in Invoice /\ i # None /\ Linked(i) = i.rows /\ i.rows \subseteq Rows
           /\ FoliosOf(i.rows) \in SUBSET Folios
           /\ \A r \in i.rows : rows[r] \in Row /\ rows[r].folio \in FoliosOf(i.rows)
                              /\ ~rows[r].void /\ r \notin PosCharges /\ rows[r].invoice = i
<1>1. i \in Invoice /\ i # None /\ i.rows \subseteq Rows
  BY Apart DEF IInv, TypeOK, Active, Invoice
<1>2. Linked(i) = i.rows
  BY <1>1 DEF IInv, Links, Linked
<1>3. ASSUME NEW r \in i.rows
      PROVE  /\ rows[r] \in Row /\ rows[r].folio \in Folios /\ rows[r].folio \in FoliosOf(i.rows)
             /\ ~rows[r].void /\ r \notin PosCharges /\ rows[r].invoice = i
  <2>1. rows[r].invoice = i /\ rows[r] \in Row \cup {NoRow}
    BY <1>1 DEF IInv, Links, TypeOK
  <2>2. rows[r] \in Row /\ rows[r].folio \in Folios
    BY <2>1, <1>1, RowFacts, RowUpdates
  <2> QED
    BY <2>1, <2>2, <1>1 DEF IInv, Links, FoliosOf
<1> QED
  BY <1>1, <1>2, <1>3 DEF FoliosOf

LEMMA SubmitStep ==
    ASSUME IInv, NEW i \in Active, Submit(i)
    PROVE  IInv'
<1> DEFINE fs == FoliosOf(i.rows)
<1>1. /\ i \in drafts /\ drafts' = drafts \ {i} /\ submitted' = submitted \cup {i}
      /\ rows' = [r \in Rows |-> IF r \in i.rows THEN [rows[r] EXCEPT !.invoiced = TRUE] ELSE rows[r]]
      /\ billed' = [f \in Folios |-> f \in fs \/ billed[f]]
      /\ Touch(None, fs) /\ UNCHANGED <<transfers, cancelled>>
  BY ActiveInvoice DEF Submit
<1>2. Active' = Active
  BY <1>1 DEF Active
<1>3. ASSUME NEW r \in i.rows
      PROVE  /\ r \in Rows /\ rows'[r] \in Row /\ rows'[r].folio = rows[r].folio
             /\ rows'[r].invoice = i /\ rows[r].invoice = i /\ rows'[r].invoiced
             /\ ~rows'[r].void /\ r \notin PosCharges /\ rows'[r].folio \in fs
  <2>1. r \in Rows /\ rows[r] \in Row /\ rows[r].invoice = i /\ ~rows[r].void
        /\ r \notin PosCharges /\ rows[r].folio \in fs
    BY ActiveInvoice
  <2>2. rows'[r] = [rows[r] EXCEPT !.invoiced = TRUE] /\ rows'[r] \in Row
    BY <1>1, <2>1, RowUpdates
  <2> QED
    BY <2>1, <2>2 DEF Row
<1>4. \A r \in Rows \ i.rows : rows'[r] = rows[r] /\ rows[r].invoice # i
  <2>1. \A r \in Rows \ i.rows : rows[r].invoice # i
    BY ActiveInvoice DEF Linked
  <2>2. \A r \in Rows \ i.rows : rows'[r] = rows[r]
    BY <1>1
  <2> QED
    BY <2>1, <2>2
<1>5. Links'
  <2>1. \A r \in Rows : rows'[r].invoice # None =>
           rows'[r].invoice \in Active' /\ r \in rows'[r].invoice.rows /\ ~rows'[r].void
    BY <1>2, <1>3, <1>4 DEF IInv, Links
  <2>2. \A j \in Active' : \A r \in j.rows : rows'[r].invoice = j
    <3>1. ASSUME NEW j \in Active, NEW r \in j.rows PROVE rows'[r].invoice = j
      <4>1. r \in Rows /\ rows[r].invoice = j
        BY ActiveInvoice
      <4> QED
        BY <4>1, <1>3, <1>4
    <3> QED
      BY <3>1, <1>2
  <2>3. \A r \in Rows \ PosCharges : rows'[r].invoiced <=> rows'[r].invoice \in submitted'
    <3>1. \A r \in i.rows : rows'[r].invoiced /\ rows'[r].invoice \in submitted'
      <4>1. i \in submitted'
        BY <1>1
      <4> QED
        BY <4>1, <1>3
    <3>2. \A r \in Rows \ PosCharges : rows[r].invoiced <=> rows[r].invoice \in submitted
      BY DEF IInv, Links
    <3> QED
      BY <3>1, <3>2, <1>1, <1>4
  <2>4. \A c \in PosCharges :
           rows'[c].invoice = None /\ (rows'[c].folio # None => rows'[c].invoiced)
    BY <1>3, <1>4, Apart DEF IInv, Links
  <2>5. drafts' \cap submitted' = {}
    BY <1>1 DEF IInv, Links
  <2> QED
    BY <2>1, <2>2, <2>3, <2>4, <2>5 DEF Links
<1>6. StatusKept'
  <2>1. \A r \in Rows : rows'[r].folio = rows[r].folio /\ rows'[r].invoice = rows[r].invoice
    BY <1>3, <1>4
  <2>2. \A f \in fs : \E r \in Rows : rows[r].folio = f /\ rows[r].invoice # None
    BY ActiveInvoice DEF FoliosOf
  <2>3. \A f \in Folios : billed'[f] <=> f \in fs \/ billed[f]
    BY <1>1
  <2> QED
    BY <2>1, <2>2, <2>3 DEF IInv, StatusKept, StatusAgrees
<1>7. Lines'
  <2>1. \A r \in Rows : rows'[r].folio = rows[r].folio
    BY <1>3, <1>4
  <2> QED
    BY <2>1, <1>1, Apart DEF IInv, Lines
<1>8. Handlers' /\ TypeOK'
  <2>1. \A r \in Rows : \/ Agree(r, rows'[r], rows[r])
                        \/ rows'[r].folio \in fs /\ rows[r].folio \in {None, rows'[r].folio}
    BY <1>3, <1>4 DEF Agree
  <2>2. \A f \in Folios \ fs : billed'[f] = billed[f]
    BY <1>1 DEF IInv, TypeOK
  <2>3. rows' \in [Rows -> Row \cup {NoRow}]
    BY <1>1, <1>3, <1>4 DEF IInv, TypeOK
  <2>4. /\ drafts' \subseteq Invoice /\ submitted' \subseteq Invoice /\ fs \in SUBSET Folios
        /\ billed' \in [Folios -> BOOLEAN]
    BY <1>1, ActiveInvoice DEF IInv, TypeOK
  <2> HIDE DEF fs
  <2> QED
    BY <2>1, <2>2, <2>3, <2>4, <1>1, OthersStay DEF IInv, TypeOK
<1> QED
  BY <1>5, <1>6, <1>7, <1>8 DEF IInv

LEMMA CancelStep ==
    ASSUME IInv, NEW i \in Active, Cancel(i)
    PROVE  IInv'
<1> DEFINE fs == FoliosOf(i.rows)
<1>1. /\ i \in submitted /\ submitted' = submitted \ {i} /\ cancelled' = cancelled \cup {i}
      /\ rows' = [r \in Rows |-> IF r \in i.rows
                                 THEN [rows[r] EXCEPT !.invoice = None, !.invoiced = FALSE]
                                 ELSE rows[r]]
      /\ billed' = [f \in Folios |-> IF f \in fs THEN Remaining(rows', f) ELSE billed[f]]
      /\ Touch(None, fs) /\ UNCHANGED <<transfers, drafts>>
  <2>1. Linked(i) = i.rows
    BY ActiveInvoice
  <2> QED
    BY <2>1 DEF Cancel
<1>2. Active' = Active \ {i}
  <2>1. drafts \cap submitted = {}
    BY DEF IInv, Links
  <2> QED
    BY <2>1, <1>1 DEF Active
<1>3. ASSUME NEW r \in i.rows
      PROVE  /\ r \in Rows /\ rows'[r] \in Row /\ rows'[r].folio = rows[r].folio
             /\ rows'[r].invoice = None /\ rows[r].invoice = i /\ ~rows'[r].invoiced
             /\ r \notin PosCharges /\ rows'[r].folio \in fs
  <2>1. r \in Rows /\ rows[r] \in Row /\ rows[r].invoice = i
        /\ r \notin PosCharges /\ rows[r].folio \in fs
    BY ActiveInvoice
  <2>2. rows'[r] = [rows[r] EXCEPT !.invoice = None, !.invoiced = FALSE] /\ rows'[r] \in Row
    BY <1>1, <2>1, RowUpdates
  <2> QED
    BY <2>1, <2>2, RowFields
<1>4. \A r \in Rows \ i.rows : rows'[r] = rows[r] /\ rows[r].invoice # i
  <2>1. \A r \in Rows \ i.rows : rows[r].invoice # i
    BY ActiveInvoice DEF Linked
  <2>2. \A r \in Rows \ i.rows : rows'[r] = rows[r]
    BY <1>1
  <2> QED
    BY <2>1, <2>2
<1>5. Links'
  <2>1. \A r \in Rows : rows'[r].invoice # None =>
           rows'[r].invoice \in Active' /\ r \in rows'[r].invoice.rows /\ ~rows'[r].void
    BY <1>2, <1>3, <1>4 DEF IInv, Links
  <2>2. \A j \in Active' : \A r \in j.rows : rows'[r].invoice = j
    <3>1. ASSUME NEW j \in Active \ {i}, NEW r \in j.rows PROVE rows'[r].invoice = j
      <4>1. r \in Rows /\ rows[r].invoice = j
        BY ActiveInvoice
      <4> QED
        BY <4>1, <1>3, <1>4
    <3> QED
      BY <3>1, <1>2
  <2>3. \A r \in Rows \ PosCharges : rows'[r].invoiced <=> rows'[r].invoice \in submitted'
    <3>1. None \notin submitted
      BY Apart DEF IInv, TypeOK
    <3>2. \A r \in Rows \ PosCharges : rows[r].invoiced <=> rows[r].invoice \in submitted
      BY DEF IInv, Links
    <3>3. \A r \in i.rows : ~rows'[r].invoiced /\ rows'[r].invoice \notin submitted'
      <4>1. None \notin submitted'
        BY <3>1, <1>1
      <4> QED
        BY <4>1, <1>3
    <3> QED
      BY <3>2, <3>3, <1>1, <1>4
  <2>4. \A c \in PosCharges :
           rows'[c].invoice = None /\ (rows'[c].folio # None => rows'[c].invoiced)
    BY <1>3, <1>4, Apart DEF IInv, Links
  <2>5. drafts' \cap submitted' = {}
    BY <1>1 DEF IInv, Links
  <2> QED
    BY <2>1, <2>2, <2>3, <2>4, <2>5 DEF Links
<1>6. StatusKept'
  <2>1. ASSUME NoReconciliation, NEW f \in Folios
        PROVE  billed'[f] <=> \E r \in Rows : rows'[r].folio = f /\ rows'[r].invoice # None
    <3>1. CASE f \in fs
      BY <3>1, <1>1 DEF Remaining
    <3>2. CASE f \notin fs
      <4>1. billed'[f] = billed[f]
        BY <3>2, <1>1
      <4>2. \A r \in Rows : rows'[r].folio = f \/ rows[r].folio = f => r \notin i.rows
        BY <3>2, <1>3
      <4>3. \A r \in Rows : rows'[r].folio = f /\ rows'[r].invoice # None
                            <=> rows[r].folio = f /\ rows[r].invoice # None
        BY <4>2, <1>4
      <4> QED
        BY <2>1, <4>1, <4>3 DEF IInv, StatusKept, StatusAgrees
    <3> QED
      BY <3>1, <3>2
  <2> QED
    BY <2>1 DEF StatusKept, StatusAgrees
<1>7. Lines'
  <2>1. \A r \in Rows : rows'[r].folio = rows[r].folio
    BY <1>3, <1>4
  <2> QED
    BY <2>1, <1>1, Apart DEF IInv, Lines
<1>8. Handlers' /\ TypeOK'
  <2>1. \A r \in Rows : \/ Agree(r, rows'[r], rows[r])
                        \/ rows'[r].folio \in fs /\ rows[r].folio \in {None, rows'[r].folio}
    BY <1>3, <1>4 DEF Agree
  <2>2. \A f \in Folios \ fs : billed'[f] = billed[f]
    BY <1>1 DEF IInv, TypeOK
  <2>3. rows' \in [Rows -> Row \cup {NoRow}]
    BY <1>1, <1>3, <1>4 DEF IInv, TypeOK
  <2>4. /\ submitted' \subseteq Invoice /\ cancelled' \subseteq Invoice /\ fs \in SUBSET Folios
        /\ billed' \in [Folios -> BOOLEAN]
    BY <1>1, ActiveInvoice DEF IInv, TypeOK, Remaining
  <2> HIDE DEF fs
  <2> QED
    BY <2>1, <2>2, <2>3, <2>4, <1>1, OthersStay DEF IInv, TypeOK
<1> QED
  BY <1>5, <1>6, <1>7, <1>8 DEF IInv

LEMMA PosCancelStep ==
    ASSUME IInv, NEW c \in PosCharges, PosCancel(c)
    PROVE  IInv'
<1>1. /\ rows[c].folio # None /\ rows' = [rows EXCEPT ![c].void = TRUE]
      /\ UNCHANGED <<billed, transfers, drafts, submitted, cancelled, req, loaded, form>>
  BY DEF PosCancel, handlers
<1>2. c \in Rows /\ rows[c] \in Row
  BY <1>1, Apart, RowFacts DEF IInv, TypeOK
<1>3. rows'[c] = [rows[c] EXCEPT !.void = TRUE] /\ rows'[c] \in Row
  BY <1>1, <1>2, RowUpdates DEF IInv, TypeOK
<1>4. \A r \in Rows \ {c} : rows'[r] = rows[r]
  BY <1>1, <1>2 DEF IInv, TypeOK
<1>5. ASSUME NEW r \in Rows PROVE Agree(r, rows'[r], rows[r])
  <2>1. /\ rows'[c].folio = rows[c].folio /\ rows'[c].invoice = rows[c].invoice
        /\ rows'[c].invoiced = rows[c].invoiced /\ rows'[c].value = rows[c].value
    BY <1>2, <1>3, RowFields
  <2> QED
    BY <2>1, <1>4 DEF Agree
<1>6. Links' /\ StatusKept'
  <2>1. \A r \in Rows : LinkKept(r)
    BY <1>5, AgreeKeepsLink
  <2> QED
    BY <2>1, <1>1, LinksStay
<1>7. Lines'
  <2>1. \A r \in Rows : rows'[r].folio = rows[r].folio
    BY <1>5 DEF Agree
  <2>2. UNCHANGED transfers
    BY <1>1
  <2> QED
    BY <2>1, <2>2, Apart DEF IInv, Lines
<1>8. Touch(None, {})
  BY <1>1, Apart DEF Touch, Outdated, IInv, TypeOK
<1>9. rows' \in [Rows -> Row \cup {NoRow}]
  BY <1>1, <1>3, <1>4 DEF IInv, TypeOK
<1>10. Handlers' /\ TypeOK'
  BY <1>1, <1>5, <1>8, <1>9, OthersStay DEF IInv, TypeOK
<1> QED
  BY <1>6, <1>7, <1>10 DEF IInv

LEMMA RollbackStep ==
    ASSUME IInv, NEW w \in Workers, Rollback(w)
    PROVE  IInv'
<1>1. Touch(w, {}) /\ UNCHANGED <<rows, billed, transfers, drafts, submitted, cancelled>>
  BY DEF Rollback, db
<1>2. \A r \in Rows : Agree(r, rows'[r], rows[r])
  BY <1>1 DEF Agree
<1>3. Links' /\ StatusKept' /\ Lines'
  BY <1>1 DEF IInv, Links, StatusKept, StatusAgrees, Lines, Active
<1>4. Handlers' /\ TypeOK'
  BY <1>1, <1>2, OthersStay DEF IInv, TypeOK
<1> QED
  BY <1>3, <1>4 DEF IInv

LEMMA NextIInv == ReconcilesAtRepeatableRead /\ IInv /\ [Next]_vars => IInv'
<1> SUFFICES ASSUME ReconcilesAtRepeatableRead, IInv, [Next]_vars PROVE IInv'
  OBVIOUS
<1>1. ASSUME NEW w \in Workers, LoadSome(w) PROVE IInv'
  BY <1>1, LoadSomeStep
<1>2. ASSUME NEW w \in Workers, Commit(w) PROVE IInv'
  <2>1. CASE CommitPost(w)
    BY <1>2, <2>1, PostStep DEF Commit, CommitPost
  <2>2. CASE CommitTransfer(w)
    BY <1>2, <2>2, TransferStep DEF Commit, CommitTransfer
  <2>3. CASE CommitReverse(w)
    BY <1>2, <2>3, ReverseStep DEF Commit, CommitReverse
  <2>4. CASE CommitInvoice(w)
    BY <1>2, <2>4, InvoiceStep DEF Commit, CommitInvoice
  <2>5. CASE CommitReconcile(w)
    BY <1>2, <2>5, ReconcileStep DEF Commit, CommitReconcile
  <2> QED
    BY <1>2, <2>1, <2>2, <2>3, <2>4, <2>5 DEF Commit
<1>3. ASSUME NEW w \in Workers, Rollback(w) PROVE IInv'
  BY <1>3, RollbackStep
<1>4. ASSUME NEW i \in Active, Submit(i) \/ Cancel(i) PROVE IInv'
  BY <1>4, SubmitStep, CancelStep
<1>5. ASSUME NEW c \in PosCharges, PosCancel(c) PROVE IInv'
  BY <1>5, PosCancelStep
<1>6. CASE UNCHANGED vars
  BY <1>6 DEF vars, IInv, TypeOK, Links, StatusKept, StatusAgrees, Lines, Handlers, Requested, Current,
     Snapshot, Active
<1> QED
  BY <1>1, <1>2, <1>3, <1>4, <1>5, <1>6 DEF Next
-----------------------------------------------------------------------------
(* Theorems. *)

LEMMA IInvProperties == IInv => TypeOK /\ BilledOnce /\ VoidIsNotBilled /\ LinksAgree /\ StatusKept
<1> SUFFICES ASSUME IInv PROVE BilledOnce /\ VoidIsNotBilled /\ LinksAgree
  BY DEF IInv
<1>1. \A i \in Active : \A r \in i.rows : r \in Rows /\ rows[r].invoice = i /\ ~rows[r].void
  BY ActiveInvoice
<1>2. BilledOnce
  BY <1>1 DEF BilledOnce
<1>3. VoidIsNotBilled
  BY <1>1 DEF VoidIsNotBilled
<1>4. LinksAgree
  BY <1>1 DEF LinksAgree, IInv, Links
<1> QED
  BY <1>2, <1>3, <1>4

LEMMA AlwaysIInv ==
    ASSUME ReconcilesAtRepeatableRead
    PROVE  Spec => []IInv
<1>1. IInv /\ [Next]_vars => IInv'
  BY NextIInv
<1> QED
  BY InitIInv, <1>1, PTL DEF Spec

(* The rows, transfers, invoices and forms of FolioBilling are of their types. *)
THEOREM FolioTyped ==
    ASSUME ReconcilesAtRepeatableRead
    PROVE  Spec => []TypeOK
BY AlwaysIInv, IInvProperties, PTL

(* No charge is ever on two invoices that are not cancelled: create_document_once *)
(* and the links of the rows, with saves that check the modification time.       *)
THEOREM ChargesBilledOnce ==
    ASSUME ReconcilesAtRepeatableRead
    PROVE  Spec => []BilledOnce
BY AlwaysIInv, IInvProperties, PTL

(* A row voided by a transfer or a reversal is on no active invoice. *)
THEOREM VoidRowsNotBilled ==
    ASSUME ReconcilesAtRepeatableRead
    PROVE  Spec => []VoidIsNotBilled
BY AlwaysIInv, IInvProperties, PTL

(* The links and marks of rows agree with the invoices, which is what the hooks *)
(* of Sales Invoice maintain and reconciliation is meant to restore.            *)
THEOREM RowLinksAgree ==
    ASSUME ReconcilesAtRepeatableRead
    PROVE  Spec => []LinksAgree
BY AlwaysIInv, IInvProperties, PTL

(* A folio says Invoiced exactly while one of its rows is on an active invoice, as *)
(* long as no reconciliation runs beside the handlers.                             *)
THEOREM FolioStatusAgrees ==
    ASSUME NoReconciliation
    PROVE  Spec => []StatusAgrees
<1>1. IInv => StatusAgrees
  BY IInvProperties DEF StatusKept
<1> QED
  BY AlwaysIInv, <1>1, PTL DEF ReconcilesAtRepeatableRead, NoReconciliation
=============================================================================
