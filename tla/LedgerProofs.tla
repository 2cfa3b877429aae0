---------------------------- MODULE LedgerProofs ----------------------------
(***************************************************************************)
(* Proofs that FolioBilling keeps the money: transfers, splits and their   *)
(* reversals conserve the total of what was posted but for the forgotten   *)
(* remainders, and folios and invoices implement FolioLedger.  Any number  *)
(* of folios, charges, transfers and workers; reversals may be reversed.   *)
(*                                                                         *)
(* The argument: a commit does one of five things to the rows (Posting,    *)
(* Moving, Returning, Billing, Releasing) or nothing that counts (Quiet).  *)
(* The source of an original line is worth as much as the parts it made    *)
(* (Splits).  The line of a reversal names the rows of an original one,    *)
(* swapped, or as they were if it reverses a reversal (Reversals).  The    *)
(* source of a line that was not reversed is void (Crossings), and it is   *)
(* the source of no other such line (SourceOnce).  So what a reversal      *)
(* takes and gives differs by the remainder of its original at most, and   *)
(* exactly when that remainder is forgotten or recalled (LostChanges).     *)
(***************************************************************************)
EXTENDS FolioBillingProofs, SumLemmas

Existing == {r \in Rows : rows[r].folio # None}

\* There are finitely many rows and invoices; an invoice has rows, all of one folio.
Books ==
    /\ IsFiniteSet(Existing)
    /\ IsFiniteSet(Active)
    /\ \A i \in Active : i.rows # {} /\ \A r, s \in i.rows : rows[r].folio = rows[s].folio

InEffect(t) == transfers[t].status = "Applied"

Original(t) == transfers[t].status # "None" /\ ~transfers[t].reversal

RestValue(t) == IF transfers[t].rest = None THEN 0 ELSE rows[transfers[t].rest].value

\* The parts of a row that was transferred add up to it.
Splits ==
    \A t \in Transfers : Original(t) =>
        LET line == transfers[t] IN
        /\ line.moved = <<t, "moved">> /\ line.rest \in {None, <<t, "rest">>}
        /\ line.source \notin {<<t, "moved">>, <<t, "rest">>}
        /\ rows[line.source].value = rows[line.moved].value + RestValue(t)

\* A line goes from one folio to another, and what it took is void while it stands.
Crossings ==
    \A t \in Transfers : transfers[t].status # "None" =>
        LET line == transfers[t] IN
        /\ line.source \in Rows \ PosCharges /\ line.moved \in Rows \ PosCharges
        /\ rows[line.source].folio # rows[line.moved].folio
        /\ InEffect(t) => rows[line.source].void

Swaps(u, t) ==
    transfers[u].source = transfers[t].moved /\ transfers[u].moved = transfers[t].source

Repeats(u, t) ==
    transfers[u].source = transfers[t].source /\ transfers[u].moved = transfers[t].moved

\* The line of a reversal has the two rows of an original one and no remainder.
Reversals ==
    \A u \in Transfers :
        /\ ~Original(u) => transfers[u].rest = None
        /\ transfers[u].status # "None" /\ transfers[u].reversal =>
              \E t \in Transfers : Original(t) /\ (Swaps(u, t) \/ Repeats(u, t))

SourceOnce ==
    \A t, u \in Transfers :
        InEffect(t) /\ InEffect(u) /\ t # u => transfers[t].source # transfers[u].source

\* A transfer goes to another folio.
Asked(w) == req[w].kind = "transfer" => rows[req[w].source].folio \notin {None, req[w].to}

LineInv == Splits /\ Crossings /\ Reversals /\ SourceOnce

BooksInv == Books /\ LineInv /\ \A w \in Workers : Asked(w)
-----------------------------------------------------------------------------
(* What steps do to the rows that count. *)

Kept(r) ==
    /\ rows'[r].folio = rows[r].folio /\ rows'[r].value = rows[r].value
    /\ rows'[r].invoice = rows[r].invoice
    /\ r \notin PosCharges => rows'[r].void = rows[r].void

Others(S) == \A r \in Rows \ S : Kept(r)

Enters(r, f, v) ==
    /\ rows[r].folio = None
    /\ rows'[r].folio = f /\ rows'[r].value = v /\ ~rows'[r].void /\ rows'[r].invoice = None

\* A row that is on no invoice is voided or revived.
Turns(r, b) ==
    /\ rows[r].folio # None /\ rows[r].invoice = None /\ rows[r].void = ~b
    /\ rows'[r].folio = rows[r].folio /\ rows'[r].value = rows[r].value
    /\ rows'[r].invoice = None /\ rows'[r].void = b

Quiet == Others({}) /\ UNCHANGED transfers /\ Active' = Active

Posting(c, f) ==
    /\ Enters(c, f, Worth[c])
    /\ Others({c}) /\ UNCHANGED transfers /\ Active' = Active

Moving(k, s, f, v) ==
    /\ s \notin PosCharges /\ s \notin {<<k, "moved">>, <<k, "rest">>}
    /\ rows[s].folio # f /\ v \in 1..rows[s].value
    /\ Turns(s, TRUE)
    /\ Enters(<<k, "moved">>, f, v)
    /\ rows[<<k, "rest">>].folio = None
    /\ IF v = rows[s].value THEN Kept(<<k, "rest">>)
       ELSE Enters(<<k, "rest">>, rows[s].folio, rows[s].value - v)
    /\ Others({s, <<k, "moved">>, <<k, "rest">>})
    /\ transfers[k].status = "None"
    /\ transfers' = [transfers EXCEPT ![k] =
          [status |-> "Applied", reversal |-> FALSE, source |-> s, moved |-> <<k, "moved">>,
           rest |-> IF v = rows[s].value THEN None ELSE <<k, "rest">>]]
    /\ Active' = Active

Returning(k, t) ==
    LET line == transfers[t] IN
    /\ k # t /\ InEffect(t) /\ transfers[k].status = "None"
    /\ Turns(line.source, FALSE)
    /\ Turns(line.moved, TRUE)
    /\ line.rest # None => Turns(line.rest, TRUE)
    /\ Others({line.source, line.moved, line.rest})
    /\ transfers' = [transfers EXCEPT
          ![k] = [status |-> "Applied", reversal |-> TRUE,
                  source |-> line.moved, moved |-> line.source, rest |-> None],
          ![t].status = "Reversed"]
    /\ Active' = Active

\* The rows of an invoice get or lose their link.
Linking(i, link) ==
    /\ \A r \in i.rows : /\ rows'[r].folio = rows[r].folio /\ rows'[r].value = rows[r].value
                         /\ rows'[r].void = rows[r].void /\ rows'[r].invoice = link
    /\ Others(i.rows) /\ UNCHANGED transfers

Billing(i, f) ==
    /\ i \notin Active /\ Active' = Active \cup {i}
    /\ i.rows = OpenRows(f) /\ i.rows # {}
    /\ Linking(i, i)

Releasing(i) ==
    /\ i \in Active /\ Active' = Active \ {i}
    /\ Linking(i, None)

Effect ==
    \/ Quiet
    \/ \E c \in Charges, f \in Folios : Posting(c, f)
    \/ \E k \in Transfers, s \in Rows, f \in Folios : \E v \in Nat : Moving(k, s, f, v)
    \/ \E k, t \in Transfers : Returning(k, t)
    \/ \E i \in Invoice, f \in Folios : Billing(i, f)
    \/ \E i \in Active : Releasing(i)

LEMMA AgreeIsKept == \A r \in Rows : Agree(r, rows'[r], rows[r]) => Kept(r)
BY DEF Agree, Kept

LEMMA PostEffect ==
    ASSUME IInv, NEW w \in Workers, CommitPost(w)
    PROVE  Effect
<1> DEFINE c == req[w].charge
           f == req[w].folio
<1>1. c \in Charges /\ f \in Folios /\ f \in loaded[w] /\ req[w].kind # "reconcile"
  BY RequestFields DEF CommitPost, IInv, TypeOK, Handlers, Requested
<1>2. c \in Rows /\ Worth[c] \in Nat \ {0}
  BY <1>1, Apart, FolioAssumption
<1> DEFINE new == IF c \in PosCharges THEN [NewRow(f, Worth[c]) EXCEPT !.invoiced = TRUE]
                  ELSE NewRow(f, Worth[c])
<1>3. new.folio = f /\ new.value = Worth[c] /\ new.invoice = None /\ ~new.void
  BY DEF NewRow
<1>4. /\ rows' = [Saved(w) EXCEPT ![c] = IF rows[c].folio # None THEN @ ELSE new]
      /\ UNCHANGED transfers /\ Active' = Active
  BY DEF CommitPost, Active
<1> HIDE DEF c, f, new
<1>5. \A r \in Rows : Agree(r, Saved(w)[r], rows[r])
  BY <1>1, SavedAgrees
<1>6. Saved(w) = [r \in Rows |-> Saved(w)[r]]
  BY <1>1, SavedAgrees
<1>7. \A r \in Rows \ {c} : Kept(r)
  BY <1>4, <1>5, <1>6, AgreeIsKept
<1>8. CASE rows[c].folio # None
  <2>1. Kept(c)
    BY <1>2, <1>4, <1>5, <1>6, <1>8, AgreeIsKept
  <2>2. Quiet
    BY <2>1, <1>4, <1>7 DEF Quiet, Others
  <2> QED
    BY <2>2 DEF Effect
<1>9. CASE rows[c].folio = None
  <2>1. rows'[c] = new
    BY <1>2, <1>4, <1>6, <1>9
  <2>2. Posting(c, f)
    BY <2>1, <1>3, <1>4, <1>7, <1>9 DEF Posting, Enters, Others
  <2> QED
    BY <2>2, <1>1 DEF Effect
<1> QED
  BY <1>8, <1>9

LEMMA TransferEffect ==
    ASSUME IInv, NEW w \in Workers, Asked(w), CommitTransfer(w)
    PROVE  Effect
<1> DEFINE q == req[w]
           row == form[w].rows[q.source]
           amount == AmountToMove(q, row)
           rest == row.value - amount
           m == <<q.key, "moved">>
           s == <<q.key, "rest">>
<1>1. /\ q.key \in Transfers /\ q.source \in Rows /\ q.to \in Folios
      /\ transfers[q.key].status = "None"
      /\ transfers' = [transfers EXCEPT ![q.key] =
                          [status |-> "Applied", reversal |-> FALSE, source |-> q.source,
                           moved |-> m, rest |-> IF rest > 0 THEN s ELSE None]]
      /\ UNCHANGED <<drafts, submitted>>
  BY TransferRows
<1>2. /\ row \in Row /\ amount \in Nat \ {0} /\ rest \in Nat /\ ~row.void
      /\ row.folio \in Folios /\ row.invoice = None
  BY TransferRows
<1>3. /\ m \in Rows /\ s \in Rows /\ m # s /\ rows[m] = NoRow /\ rows[s] = NoRow
      /\ Agree(q.source, row, rows[q.source])
      /\ q.source \notin {m, s} /\ q.source \notin PosCharges
  BY TransferRows
<1>4. /\ rest > 0 => RestRow(row, rest) = NewRow(row.folio, rest)
      /\ rest = 0 => RestRow(row, rest) = NoRow
      /\ rows'[q.source] = [row EXCEPT !.void = TRUE]
      /\ rows'[m] = NewRow(q.to, amount) /\ rows'[s] = RestRow(row, rest)
  BY TransferRows
<1>5. \A r \in Rows \ {q.source, m, s} : Agree(r, rows'[r], rows[r])
  BY TransferRows
<1>6. q.kind = "transfer" /\ rest = row.value - amount
  BY DEF CommitTransfer
<1>7. rows[q.source].folio # q.to
  BY <1>6 DEF Asked
<1> HIDE DEF q, row, amount, rest, m, s
<1>8. /\ rows[q.source].folio = row.folio /\ rows[q.source].value = row.value
      /\ rows[q.source].invoice = None /\ ~rows[q.source].void
  BY <1>2, <1>3 DEF Agree
<1>9. /\ row.value \in Nat /\ amount \in 1..row.value /\ row.value - amount = rest
      /\ amount = row.value <=> rest = 0
      /\ row.value # amount <=> rest > 0
  <2>1. row.value \in Nat
    BY <1>2 DEF Row
  <2> QED
    BY <2>1, <1>2, <1>6
<1>10. NoRow.folio = None /\ \A g, v : /\ NewRow(g, v).folio = g /\ NewRow(g, v).value = v
                                       /\ NewRow(g, v).invoice = None /\ ~NewRow(g, v).void
  BY DEF NoRow, NewRow
<1>11. Turns(q.source, TRUE)
  <2>1. /\ rows'[q.source].void = TRUE /\ rows'[q.source].value = row.value
        /\ rows'[q.source].folio = row.folio /\ rows'[q.source].invoice = row.invoice
    BY <1>2, <1>4, RowFields
  <2>2. rows[q.source].void = FALSE /\ rows[q.source].folio # None
    <3>1. rows[q.source].void \in BOOLEAN
      BY <1>1, RowFacts DEF IInv, TypeOK
    <3> QED
      BY <3>1, <1>2, <1>8, Apart
  <2> QED
    BY <2>1, <2>2, <1>2, <1>8 DEF Turns
<1>12. Enters(m, q.to, amount)
  BY <1>3, <1>4, <1>10 DEF Enters
<1>14. IF amount = row.value THEN Kept(s) ELSE Enters(s, row.folio, row.value - amount)
  <2>1. rest = 0 => Kept(s)
    BY <1>3, <1>4 DEF Kept
  <2>2. rest > 0 => Enters(s, row.folio, rest)
    BY <1>3, <1>4, <1>10 DEF Enters
  <2> QED
    BY <2>1, <2>2, <1>9
<1>15. Active' = Active /\ Others({q.source, m, s})
  BY <1>1, <1>5, AgreeIsKept DEF Active, Others
<1>16. (IF rest > 0 THEN s ELSE None) = IF amount = row.value THEN None ELSE s
  BY <1>9
<1>17. Moving(q.key, q.source, q.to, amount)
  <2>1. amount \in 1..rows[q.source].value /\ rows[s].folio = None
    BY <1>3, <1>8, <1>9, <1>10
  <2> HIDE DEF Turns, Enters, Kept, Others
  <2>2. /\ Enters(<<q.key, "moved">>, q.to, amount)
        /\ q.source \notin {<<q.key, "moved">>, <<q.key, "rest">>}
        /\ rows[<<q.key, "rest">>].folio = None
        /\ IF amount = rows[q.source].value THEN Kept(<<q.key, "rest">>)
           ELSE Enters(<<q.key, "rest">>, rows[q.source].folio, rows[q.source].value - amount)
        /\ Others({q.source, <<q.key, "moved">>, <<q.key, "rest">>})
    BY <2>1, <1>3, <1>8, <1>12, <1>14, <1>15 DEF m, s
  <2>3. transfers' = [transfers EXCEPT ![q.key] =
            [status |-> "Applied", reversal |-> FALSE, source |-> q.source,
             moved |-> <<q.key, "moved">>,
             rest |-> IF amount = rows[q.source].value THEN None ELSE <<q.key, "rest">>]]
    BY <1>1, <1>8, <1>16 DEF m, s
  <2> QED
    BY <2>1, <2>2, <2>3, <1>1, <1>3, <1>7, <1>11, <1>15 DEF Moving
<1> QED
  BY <1>1, <1>2, <1>17 DEF Effect
LEMMA ReverseEffect ==
    ASSUME IInv, LineInv, NEW w \in Workers, CommitReverse(w)
    PROVE  Effect
<1> DEFINE q == req[w]
           t == transfers[q.transfer]
           generated == {t.moved, t.rest} \ {None}
           line == [status |-> "Applied", reversal |-> TRUE,
                    source |-> t.moved, moved |-> t.source, rest |-> None]
<1>1. /\ q.key \in Transfers /\ q.transfer \in Transfers /\ t \in Transfer
      /\ transfers[q.key].status = "None" /\ t.status = "Applied"
      /\ transfers' = [transfers EXCEPT ![q.key] = line, ![q.transfer].status = "Reversed"]
      /\ UNCHANGED <<drafts, submitted>> /\ q.key # q.transfer
  BY ReverseRows
<1>2. /\ t.source \in Rows /\ t.moved \in Rows
      /\ rows[t.source].folio # None /\ rows[t.moved].folio # None
      /\ t.rest # None => t.rest \in Rows /\ rows[t.rest].folio = rows[t.source].folio
  BY ReverseRows
<1>3. /\ generated \subseteq Rows \ PosCharges
      /\ \A r \in Rows :
            /\ r \in generated => rows[r].invoice = None /\ ~rows[r].void
            /\ rows'[r] \in Row \cup {NoRow}
            /\ rows'[r].folio = rows[r].folio /\ rows'[r].value = rows[r].value
            /\ rows'[r].invoice = rows[r].invoice
            /\ r \in generated => rows'[r].void
            /\ r \notin generated /\ r = t.source => ~rows'[r].void
            /\ r \notin generated /\ r # t.source => Agree(r, rows'[r], rows[r])
  BY ReverseRows
<1>5. /\ InEffect(q.transfer) /\ t.source \notin PosCharges /\ rows[t.source].void
      /\ t.source # t.moved /\ t.source # t.rest
  <2>1. InEffect(q.transfer) /\ transfers[q.transfer].status # "None"
    BY <1>1 DEF InEffect
  <2>2. t.source \notin PosCharges /\ rows[t.source].void /\ t.source # t.moved
    BY <2>1, <1>1 DEF LineInv, Crossings
  <2>3. t.source # t.rest
    <3>1. CASE Original(q.transfer)
      BY <3>1, <1>1, <1>2, Apart DEF LineInv, Splits
    <3>2. CASE ~Original(q.transfer)
      BY <3>2, <1>1, <1>2, Apart DEF LineInv, Reversals
    <3> QED
      BY <3>1, <3>2
  <2> QED
    BY <2>1, <2>2, <2>3
<1> HIDE DEF q, t, line
<1>6. t.source \notin generated /\ t.source # t.moved
  BY <1>2, <1>5, Apart
<1>7. t.moved \in generated /\ (t.rest # None => t.rest \in generated)
  BY <1>2, Apart
<1> HIDE DEF generated
<1>8. \A r \in Rows : rows[r].void \in BOOLEAN /\ rows'[r].void \in BOOLEAN
  BY <1>3, RowFacts DEF IInv, TypeOK
<1>9. Turns(t.source, FALSE)
  <2>1. rows[t.source].invoice = None
    BY <1>2, <1>5 DEF IInv, Links
  <2> QED
    BY <2>1, <1>2, <1>3, <1>5, <1>6, <1>8 DEF Turns
<1>10. ASSUME NEW r \in generated, rows[r].folio # None PROVE Turns(r, TRUE)
  BY <1>3, <1>8, <1>10 DEF Turns
<1>11. Turns(t.moved, TRUE) /\ (t.rest # None => Turns(t.rest, TRUE))
  BY <1>2, <1>7, <1>10
<1>12. Others({t.source, t.moved, t.rest})
  <2>1. ASSUME NEW r \in Rows \ {t.source, t.moved, t.rest} PROVE Kept(r)
    <3>1. r \notin generated /\ r # t.source
      BY DEF generated
    <3> QED
      BY <3>1, <1>3, AgreeIsKept
  <2> QED
    BY <2>1 DEF Others
<1>13. Active' = Active
  BY <1>1 DEF Active
<1>14. Returning(q.key, q.transfer)
  <2> HIDE DEF Turns, Others
  <2>1. transfers' = [transfers EXCEPT
            ![q.key] = [status |-> "Applied", reversal |-> TRUE,
                        source |-> t.moved, moved |-> t.source, rest |-> None],
            ![q.transfer].status = "Reversed"]
    BY <1>1 DEF line
  <2> QED
    BY <2>1, <1>1, <1>5, <1>9, <1>11, <1>12, <1>13 DEF Returning, t
<1> QED
  BY <1>1, <1>14 DEF Effect

LEMMA InvoiceEffect ==
    ASSUME IInv, NEW w \in Workers, CommitInvoice(w)
    PROVE  Effect
<1> DEFINE q == req[w]
           charges == ChargesOf(form[w], q.folio)
<1>1. q.folio \in Folios /\ q.folio \in loaded[w] /\ q.kind # "reconcile" /\ UNCHANGED transfers
  BY InvoiceRows
<1>2. PICK i \in Invoice :
         /\ i.rows = charges /\ i \notin Active /\ i # None
         /\ Active' = Active \cup {i}
         /\ \A r \in Rows : r \in charges =>
               /\ rows'[r].folio = q.folio /\ rows'[r].invoice = i
               /\ ~rows'[r].void /\ rows'[r].value = rows[r].value /\ rows'[r] \in Row
         /\ \A r \in Rows : r \notin charges => Agree(r, rows'[r], rows[r])
  BY InvoiceRows
<1>3. /\ charges # {} /\ charges \subseteq Rows \ PosCharges
      /\ \A r \in Rows : r \in charges =>
            rows[r].folio = q.folio /\ rows[r].invoice = None /\ ~rows[r].void
  BY InvoiceRows
<1>4. ASSUME NEW r \in Rows \ PosCharges, rows[r].folio = q.folio, ~rows[r].void,
             rows[r].invoice = None
      PROVE  r \in charges
  <2>1. Agree(r, form[w].rows[r], rows[r])
    BY <1>1, <1>4 DEF IInv, Handlers, Current
  <2>2. ~rows[r].invoiced
    BY <1>4, Apart DEF IInv, Links, TypeOK
  <2> QED
    BY <2>1, <2>2, <1>4 DEF Agree, ChargesOf, Billable
<1> HIDE DEF q, charges
<1>5. \A r \in Rows : rows[r].void \in BOOLEAN
  BY RowFacts DEF IInv, TypeOK
<1>6. \A r \in charges : rows[r].void = FALSE /\ rows'[r].void = FALSE
  <2>1. \A r \in charges : rows'[r].void \in BOOLEAN
    BY <1>2, <1>3, RowFacts
  <2> QED
    BY <2>1, <1>2, <1>3, <1>5
<1>7. OpenRows(q.folio) = charges
  <2>1. q.folio # None
    BY <1>1, Apart DEF IInv, TypeOK
  <2> QED
    BY <2>1, <1>3, <1>4 DEF OpenRows, Live
<1>8. Linking(i, i)
  BY <1>1, <1>2, <1>3, <1>6, AgreeIsKept DEF Linking, Others
<1>9. Billing(i, q.folio)
  BY <1>2, <1>3, <1>7, <1>8 DEF Billing
<1> QED
  BY <1>1, <1>9 DEF Effect

LEMMA SubmitEffect ==
    ASSUME IInv, NEW i \in Active, Submit(i)
    PROVE  Effect
<1>1. \A r \in Rows : rows'[r] = rows[r] \/ rows'[r] = [rows[r] EXCEPT !.invoiced = TRUE]
  BY DEF Submit
<1>2. \A r \in Rows : rows[r] \in Row \cup {NoRow}
  BY DEF IInv, TypeOK
<1>3. \A r \in Rows : Kept(r)
  BY <1>1, <1>2 DEF Kept, Row, NoRow
<1>4. UNCHANGED transfers /\ Active' = Active
  BY DEF Submit, Active
<1> QED
  BY <1>3, <1>4 DEF Effect, Quiet, Others

LEMMA CancelEffect ==
    ASSUME IInv, NEW i \in Active, Cancel(i)
    PROVE  Effect
<1>1. /\ i \in submitted /\ submitted' = submitted \ {i} /\ UNCHANGED <<transfers, drafts>>
      /\ Linked(i) = i.rows /\ i.rows \subseteq Rows
      /\ \A r \in i.rows : rows[r] \in Row
      /\ rows' = [r \in Rows |-> IF r \in Linked(i)
                                 THEN [rows[r] EXCEPT !.invoice = None, !.invoiced = FALSE]
                                 ELSE rows[r]]
  BY ActiveInvoice DEF Cancel
<1>2. Active' = Active \ {i}
  <2>1. drafts \cap submitted = {}
    BY DEF IInv, Links
  <2> QED
    BY <2>1, <1>1 DEF Active
<1>3. \A r \in i.rows : /\ rows'[r].folio = rows[r].folio /\ rows'[r].value = rows[r].value
                        /\ rows'[r].void = rows[r].void /\ rows'[r].invoice = None
  BY <1>1 DEF Row
<1>4. Others(i.rows)
  BY <1>1 DEF Others, Kept
<1> QED
  BY <1>1, <1>2, <1>3, <1>4 DEF Effect, Releasing, Linking

LEMMA PosCancelEffect ==
    ASSUME IInv, NEW c \in PosCharges, PosCancel(c)
    PROVE  Effect
<1>1. /\ rows[c].folio # None /\ rows' = [rows EXCEPT ![c].void = TRUE]
      /\ UNCHANGED transfers /\ Active' = Active
  BY DEF PosCancel, Active
<1>2. c \in Rows /\ rows[c] \in Row
  BY <1>1, Apart, RowFacts DEF IInv, TypeOK
<1>3. Kept(c)
  <2>1. rows'[c] = [rows[c] EXCEPT !.void = TRUE]
    BY <1>1, <1>2 DEF IInv, TypeOK
  <2>2. /\ [rows[c] EXCEPT !.void = TRUE].folio = rows[c].folio
        /\ [rows[c] EXCEPT !.void = TRUE].value = rows[c].value
        /\ [rows[c] EXCEPT !.void = TRUE].invoice = rows[c].invoice
    BY <1>2 DEF Row
  <2> QED
    BY <2>1, <2>2 DEF Kept
<1>4. \A r \in Rows \ {c} : Kept(r)
  BY <1>1 DEF Kept, IInv, TypeOK
<1> QED
  BY <1>1, <1>3, <1>4 DEF Effect, Quiet, Others

LEMMA ReconcileEffect ==
    ASSUME ReconcilesAtRepeatableRead, IInv, NEW w \in Workers, CommitReconcile(w)
    PROVE  Effect
<1>1. rows' = rows /\ UNCHANGED transfers /\ Active' = Active
  BY ReconcileKeepsRows DEF CommitReconcile, Active
<1> QED
  BY <1>1 DEF Effect, Quiet, Others, Kept

LEMMA UnchangedEffect ==
    ASSUME UNCHANGED <<rows, transfers, drafts, submitted>>
    PROVE  Effect
BY DEF Effect, Quiet, Others, Kept, Active

LEMMA NextEffect ==
    ASSUME ReconcilesAtRepeatableRead, IInv, BooksInv, [Next]_vars
    PROVE  Effect
<1>1. ASSUME NEW w \in Workers, LoadSome(w) PROVE Effect
  BY <1>1, UnchangedEffect
  DEF LoadSome, LoadPost, LoadTransfer, LoadReverse, LoadInvoice, LoadReconcile, Load, db
<1>2. ASSUME NEW w \in Workers, Commit(w) PROVE Effect
  BY <1>2, PostEffect, TransferEffect, ReverseEffect, InvoiceEffect, ReconcileEffect DEF Commit, BooksInv
<1>3. ASSUME NEW w \in Workers, Rollback(w) PROVE Effect
  BY <1>3, UnchangedEffect DEF Rollback, db
<1>4. ASSUME NEW i \in Active, Submit(i) \/ Cancel(i) PROVE Effect
  BY <1>4, SubmitEffect, CancelEffect
<1>5. ASSUME NEW c \in PosCharges, PosCancel(c) PROVE Effect
  BY <1>5, PosCancelEffect
<1>6. CASE UNCHANGED vars
  BY <1>6, UnchangedEffect DEF vars
<1> QED
  BY <1>1, <1>2, <1>3, <1>4, <1>5, <1>6 DEF Next
-----------------------------------------------------------------------------
(* The books stay in order. *)

(* A row stays on its folio and keeps its value. *)
LEMMA RowsStay ==
    ASSUME IInv, Effect, NEW r \in Rows, rows[r].folio # None
    PROVE  rows'[r].folio = rows[r].folio /\ rows'[r].value = rows[r].value
<1>1. ASSUME Quiet PROVE Kept(r)
  BY <1>1 DEF Quiet, Others
<1>2. ASSUME NEW c \in Charges, NEW f \in Folios, Posting(c, f) PROVE Kept(r)
  BY <1>2 DEF Posting, Others, Enters
<1>3. ASSUME NEW k \in Transfers, NEW s \in Rows, NEW f \in Folios, NEW v \in Nat, Moving(k, s, f, v)
      PROVE  rows'[r].folio = rows[r].folio /\ rows'[r].value = rows[r].value
  BY <1>3 DEF Moving, Others, Enters, Turns, Kept
<1>4. ASSUME NEW k \in Transfers, NEW t \in Transfers, Returning(k, t)
      PROVE  rows'[r].folio = rows[r].folio /\ rows'[r].value = rows[r].value
  <2>1. transfers[t].rest = None => r # transfers[t].rest
    BY Apart
  <2> QED
    BY <2>1, <1>4 DEF Returning, Others, Turns, Kept
<1>5. ASSUME NEW i, NEW link, Linking(i, link)
      PROVE  rows'[r].folio = rows[r].folio /\ rows'[r].value = rows[r].value
  BY <1>5 DEF Linking, Others, Kept
<1> QED
  BY <1>1, <1>2, <1>3, <1>4, <1>5 DEF Effect, Kept, Billing, Releasing

(* A line of a transfer stays as it is. *)
LEMMA TransfersStay ==
    ASSUME IInv, Effect, NEW t \in Transfers, transfers[t].status # "None"
    PROVE  /\ transfers'[t].status # "None"
           /\ transfers'[t].source = transfers[t].source /\ transfers'[t].moved = transfers[t].moved
           /\ transfers'[t].rest = transfers[t].rest
           /\ transfers'[t].reversal = transfers[t].reversal
           /\ InEffect(t)' => InEffect(t)
<1> USE DEF InEffect
<1>1. CASE UNCHANGED transfers
  BY <1>1
<1>2. ASSUME NEW k \in Transfers, NEW s \in Rows, NEW f \in Folios, NEW v \in Nat, Moving(k, s, f, v)
      PROVE  transfers'[t] = transfers[t]
  BY <1>2 DEF Moving, IInv, TypeOK
<1>3. ASSUME NEW k \in Transfers, NEW u \in Transfers, Returning(k, u)
      PROVE  transfers'[t] = transfers[t] \/ transfers'[t] = [transfers[t] EXCEPT !.status = "Reversed"]
  BY <1>3 DEF Returning, IInv, TypeOK
<1>4. transfers[t] \in Transfer
  BY DEF IInv, TypeOK
<1>5. LET new == [transfers[t] EXCEPT !.status = "Reversed"] IN
      /\ new.status = "Reversed"
      /\ new.source = transfers[t].source /\ new.moved = transfers[t].moved
      /\ new.rest = transfers[t].rest /\ new.reversal = transfers[t].reversal
  BY <1>4 DEF Transfer
<1> QED
  BY <1>1, <1>2, <1>3, <1>5 DEF Effect, Quiet, Posting, Billing, Releasing, Linking

LEMMA BooksStep ==
    ASSUME IInv, IInv', Books, Effect
    PROVE  Books'
<1>1. IsFiniteSet(Existing')
  <2>1. \E a, b : Existing' \subseteq (Existing \cup {a}) \cup {b}
    <3>1. ASSUME Others({}) PROVE Existing' \subseteq Existing
      BY <3>1 DEF Others, Kept, Existing
    <3>2. ASSUME NEW c \in Charges, NEW f \in Folios, Posting(c, f)
          PROVE  Existing' \subseteq Existing \cup {c}
      BY <3>2 DEF Posting, Others, Kept, Existing
    <3>3. ASSUME NEW k \in Transfers, NEW s \in Rows, NEW f \in Folios, NEW v \in Nat,
                 Moving(k, s, f, v)
          PROVE  Existing' \subseteq (Existing \cup {<<k, "moved">>}) \cup {<<k, "rest">>}
      BY <3>3 DEF Moving, Others, Kept, Existing, Turns
    <3>4. ASSUME NEW k \in Transfers, NEW t \in Transfers, Returning(k, t)
          PROVE  Existing' \subseteq Existing
      <4>1. transfers[t].rest = None => transfers[t].rest \notin Rows
        BY Apart
      <4> QED
        BY <4>1, <3>4 DEF Returning, Others, Kept, Existing, Turns
    <3>5. ASSUME NEW i, NEW link, Linking(i, link) PROVE Existing' \subseteq Existing
      BY <3>5 DEF Linking, Others, Kept, Existing
    <3> QED
      BY <3>1, <3>2, <3>3, <3>4, <3>5 DEF Effect, Quiet, Billing, Releasing
  <2>2. PICK a, b : Existing' \subseteq (Existing \cup {a}) \cup {b}
    BY <2>1
  <2>3. IsFiniteSet(Existing \cup {a})
    BY FS_AddElement DEF Books
  <2>4. IsFiniteSet((Existing \cup {a}) \cup {b})
    BY <2>3, FS_AddElement
  <2> QED
    BY <2>2, <2>4, FS_Subset
<1>2. IsFiniteSet(Active')
  <2>1. \A i : IsFiniteSet(Active \cup {i}) /\ IsFiniteSet(Active \ {i})
    BY FS_AddElement, FS_Subset DEF Books
  <2>2. \/ Active' = Active
        \/ \E i : Active' = Active \cup {i} \/ Active' = Active \ {i}
    BY DEF Effect, Quiet, Posting, Moving, Returning, Billing, Releasing
  <2> QED
    BY <2>1, <2>2 DEF Books
<1>3. ASSUME NEW i \in Active'
      PROVE  i.rows # {} /\ \A r, s \in i.rows : rows'[r].folio = rows'[s].folio
  <2>1. CASE i \in Active
    <3>1. \A r \in i.rows : r \in Rows /\ rows[r].folio # None
      <4>1. \A r \in i.rows : r \in Rows /\ rows[r] \in Row
        BY <2>1, ActiveInvoice
      <4> QED
        BY <4>1, RowUpdates
    <3> QED
      BY <3>1, <2>1, RowsStay DEF Books
  <2>2. CASE i \notin Active
    <3>1. PICK f \in Folios : Billing(i, f)
      BY <2>2 DEF Effect, Quiet, Posting, Moving, Returning, Billing, Releasing
    <3> QED
      BY <3>1 DEF Billing, Linking, OpenRows
  <2> QED
    BY <2>1, <2>2
<1> QED
  BY <1>1, <1>2, <1>3 DEF Books

(* A transfer gets a line with parts that add up; a reversal takes one out of effect. *)
LEMMA MovingLine ==
    ASSUME IInv, NEW k \in Transfers, NEW s \in Rows, NEW f \in Folios, NEW v \in Nat,
           Moving(k, s, f, v)
    PROVE  /\ transfers'[k].status = "Applied" /\ ~transfers'[k].reversal
           /\ transfers'[k].source = s /\ transfers'[k].moved = <<k, "moved">>
           /\ transfers'[k].rest = IF v = rows[s].value THEN None ELSE <<k, "rest">>
           /\ \A t \in Transfers \ {k} : transfers'[t] = transfers[t]
BY DEF Moving, IInv, TypeOK

LEMMA ReturningLine ==
    ASSUME IInv, NEW k \in Transfers, NEW t \in Transfers, Returning(k, t)
    PROVE  /\ transfers'[k].status = "Applied" /\ transfers'[k].reversal
           /\ transfers'[k].source = transfers[t].moved
           /\ transfers'[k].moved = transfers[t].source
           /\ transfers'[k].rest = None
           /\ transfers'[t].status = "Reversed"
           /\ \A u \in Transfers \ {k, t} : transfers'[u] = transfers[u]
<1>1. [transfers[t] EXCEPT !.status = "Reversed"].status = "Reversed"
  BY DEF IInv, TypeOK, Transfer
<1> QED
  BY <1>1 DEF Returning, IInv, TypeOK

(* The rows of a line that was there before a step. *)
LEMMA LineStays ==
    ASSUME IInv, Effect, NEW t \in Transfers, transfers[t].status # "None"
    PROVE  LET line == transfers[t] IN
           /\ transfers'[t].source = line.source /\ transfers'[t].moved = line.moved
           /\ transfers'[t].rest = line.rest /\ transfers'[t].reversal = line.reversal
           /\ rows'[line.source].folio = rows[line.source].folio
           /\ rows'[line.source].value = rows[line.source].value
           /\ rows'[line.moved].folio = rows[line.moved].folio
           /\ rows'[line.moved].value = rows[line.moved].value
           /\ RestValue(t)' = RestValue(t)
<1>1. /\ transfers'[t].source = transfers[t].source /\ transfers'[t].moved = transfers[t].moved
      /\ transfers'[t].rest = transfers[t].rest /\ transfers'[t].reversal = transfers[t].reversal
  BY TransfersStay
<1>2. /\ transfers[t].source \in Rows /\ transfers[t].moved \in Rows
      /\ rows[transfers[t].source].folio # None /\ rows[transfers[t].moved].folio # None
      /\ transfers[t].rest # None =>
            transfers[t].rest \in Rows /\ rows[transfers[t].rest].folio # None
  BY DEF IInv, Lines
<1>3. /\ rows'[transfers[t].source].folio = rows[transfers[t].source].folio
      /\ rows'[transfers[t].source].value = rows[transfers[t].source].value
      /\ rows'[transfers[t].moved].folio = rows[transfers[t].moved].folio
      /\ rows'[transfers[t].moved].value = rows[transfers[t].moved].value
      /\ transfers[t].rest # None => rows'[transfers[t].rest].value = rows[transfers[t].rest].value
  BY <1>2, RowsStay
<1>4. RestValue(t)' = RestValue(t)
  BY <1>1, <1>3 DEF RestValue
<1> QED
  BY <1>1, <1>3, <1>4

(* A line that appears is that of a transfer or of a reversal. *)
LEMMA NewLine ==
    ASSUME IInv, Effect, NEW t \in Transfers, transfers[t].status = "None",
           transfers'[t].status # "None"
    PROVE  \/ \E s \in Rows, f \in Folios : \E v \in Nat : Moving(t, s, f, v)
           \/ \E u \in Transfers : Returning(t, u)
<1>1. ASSUME NEW k \in Transfers, NEW s \in Rows, NEW f \in Folios, NEW v \in Nat,
             Moving(k, s, f, v)
      PROVE  k = t
  BY <1>1, MovingLine
<1>2. ASSUME NEW k \in Transfers, NEW u \in Transfers, Returning(k, u) PROVE k = t
  <2>1. u # t
    BY <1>2 DEF Returning, InEffect
  <2> QED
    BY <1>2, <2>1, ReturningLine
<1>3. ~ UNCHANGED transfers
  OBVIOUS
<1> QED
  BY <1>1, <1>2, <1>3 DEF Effect, Quiet, Posting, Billing, Releasing, Linking

(* No row is revived but the source of the line that is reversed. *)
LEMMA SourcesStayVoid ==
    ASSUME IInv, LineInv, Effect, NEW t \in Transfers, InEffect(t), InEffect(t)'
    PROVE  rows'[transfers[t].source].void
<1> DEFINE s == transfers[t].source
<1>1. s \in Rows \ PosCharges /\ rows[s].void /\ rows[s].folio # None /\ rows[s].invoice = None
  <2>1. s \in Rows \ PosCharges /\ rows[s].void
    BY DEF LineInv, Crossings, InEffect
  <2>2. rows[s].folio # None
    BY DEF IInv, Lines, InEffect
  <2> QED
    BY <2>1, <2>2 DEF IInv, Links
<1> HIDE DEF s
<1>2. Kept(s) => rows'[s].void
  BY <1>1 DEF Kept
<1>3. ASSUME Quiet PROVE rows'[s].void
  BY <1>1, <1>2, <1>3 DEF Quiet, Others
<1>4. ASSUME NEW c \in Charges, NEW f \in Folios, Posting(c, f) PROVE rows'[s].void
  BY <1>1, <1>2, <1>4 DEF Posting, Others, Enters
<1>5. ASSUME NEW k \in Transfers, NEW r \in Rows, NEW f \in Folios, NEW v \in Nat, Moving(k, r, f, v)
      PROVE  rows'[s].void
  <2>1. s \in {r, <<k, "moved">>, <<k, "rest">>} \/ Kept(s)
    BY <1>1, <1>5 DEF Moving, Others
  <2>2. s # <<k, "moved">> /\ s # <<k, "rest">>
    BY <1>1, <1>5 DEF Moving, Enters
  <2>3. s # r
    BY <1>1, <1>5 DEF Moving, Turns
  <2> QED
    BY <1>2, <2>1, <2>2, <2>3
<1>6. ASSUME NEW k \in Transfers, NEW u \in Transfers, Returning(k, u) PROVE rows'[s].void
  <2>1. u # t
    BY <1>6, ReturningLine DEF InEffect
  <2>2. InEffect(u) /\ s # transfers[u].source
    BY <2>1, <1>6 DEF LineInv, SourceOnce, Returning, s
  <2>3. s # transfers[u].moved /\ s # transfers[u].rest
    BY <1>1, <1>6, Apart DEF Returning, Turns
  <2> QED
    BY <1>1, <1>2, <1>6, <2>2, <2>3 DEF Returning, Others
<1>7. ASSUME NEW i, NEW link, Linking(i, link) PROVE rows'[s].void
  BY <1>1, <1>2, <1>7 DEF Linking, Others
<1> QED
  BY <1>3, <1>4, <1>5, <1>6, <1>7 DEF Effect, Billing, Releasing, s

LEMMA SplitsStep ==
    ASSUME IInv, LineInv, Effect
    PROVE  Splits'
<1> SUFFICES ASSUME NEW t \in Transfers, Original(t)'
             PROVE  LET line == transfers'[t] IN
                    /\ line.moved = <<t, "moved">> /\ line.rest \in {None, <<t, "rest">>}
                    /\ line.source \notin {<<t, "moved">>, <<t, "rest">>}
                    /\ rows'[line.source].value = rows'[line.moved].value + RestValue(t)'
  BY DEF Splits
<1>1. CASE transfers[t].status # "None"
  <2>1. Original(t)
    BY <1>1, TransfersStay DEF Original
  <2> QED
    BY <1>1, <2>1, LineStays DEF LineInv, Splits
<1>2. CASE transfers[t].status = "None"
  <2>1. transfers'[t].status # "None" /\ ~transfers'[t].reversal
    BY DEF Original
  <2>2. PICK s \in Rows, f \in Folios : \E v \in Nat : Moving(t, s, f, v)
    BY <1>2, <2>1, NewLine, ReturningLine
  <2>3. PICK v \in Nat : Moving(t, s, f, v)
    BY <2>2
  <2>4. /\ transfers'[t].source = s /\ transfers'[t].moved = <<t, "moved">>
        /\ transfers'[t].rest = IF v = rows[s].value THEN None ELSE <<t, "rest">>
    BY <2>3, MovingLine
  <2>5. /\ s \notin {<<t, "moved">>, <<t, "rest">>}
        /\ rows'[s].value = rows[s].value /\ rows'[<<t, "moved">>].value = v
        /\ v \in 1..rows[s].value
        /\ v # rows[s].value => rows'[<<t, "rest">>].value = rows[s].value - v
    BY <2>3 DEF Moving, Turns, Enters
  <2>6. rows[s].value \in Nat
    BY RowFacts DEF IInv, TypeOK
  <2>7. RestValue(t)' = rows[s].value - v
    BY <2>4, <2>5, <2>6, Apart DEF RestValue
  <2>8. rows[s].value = v + (rows[s].value - v)
    BY <2>5, <2>6
  <2> QED
    BY <2>4, <2>5, <2>7, <2>8
<1> QED
  BY <1>1, <1>2

LEMMA CrossingsStep ==
    ASSUME IInv, LineInv, Effect
    PROVE  Crossings'
<1> SUFFICES ASSUME NEW t \in Transfers, transfers'[t].status # "None"
             PROVE  LET line == transfers'[t] IN
                    /\ line.source \in Rows \ PosCharges /\ line.moved \in Rows \ PosCharges
                    /\ rows'[line.source].folio # rows'[line.moved].folio
                    /\ InEffect(t)' => rows'[line.source].void
  BY DEF Crossings
<1>1. CASE transfers[t].status # "None"
  <2>1. InEffect(t)' => rows'[transfers[t].source].void
    BY <1>1, TransfersStay, SourcesStayVoid
  <2> QED
    BY <1>1, <2>1, LineStays DEF LineInv, Crossings
<1>2. ASSUME NEW s \in Rows, NEW f \in Folios, NEW v \in Nat, Moving(t, s, f, v)
      PROVE  LET line == transfers'[t] IN
             /\ line.source \in Rows \ PosCharges /\ line.moved \in Rows \ PosCharges
             /\ rows'[line.source].folio # rows'[line.moved].folio
             /\ rows'[line.source].void
  <2>1. transfers'[t].source = s /\ transfers'[t].moved = <<t, "moved">>
    BY <1>2, MovingLine
  <2>2. /\ s \notin PosCharges /\ rows'[s].void /\ rows'[s].folio = rows[s].folio
        /\ rows'[<<t, "moved">>].folio = f /\ rows[s].folio # f
    BY <1>2 DEF Moving, Turns, Enters
  <2>3. <<t, "moved">> \in Rows \ PosCharges
    BY Apart, FolioAssumption
  <2> QED
    BY <2>1, <2>2, <2>3
<1>3. ASSUME NEW u \in Transfers, Returning(t, u)
      PROVE  LET line == transfers'[t] IN
             /\ line.source \in Rows \ PosCharges /\ line.moved \in Rows \ PosCharges
             /\ rows'[line.source].folio # rows'[line.moved].folio
             /\ rows'[line.source].void
  <2>1. transfers'[t].source = transfers[u].moved /\ transfers'[t].moved = transfers[u].source
    BY <1>3, ReturningLine
  <2>2. transfers[u].status # "None"
    BY <1>3 DEF Returning, InEffect
  <2>3. rows'[transfers[u].moved].void
    BY <1>3 DEF Returning, Turns
  <2> QED
    BY <2>1, <2>2, <2>3, LineStays DEF LineInv, Crossings
<1> QED
  BY <1>1, <1>2, <1>3, NewLine

LEMMA ReversalsStep ==
    ASSUME IInv, LineInv, Effect
    PROVE  Reversals'
<1>1. ASSUME NEW t \in Transfers, Original(t)
      PROVE  /\ Original(t)' /\ transfers'[t].source = transfers[t].source
             /\ transfers'[t].moved = transfers[t].moved
  BY <1>1, TransfersStay DEF Original
<1>2. ASSUME NEW u \in Transfers, ~Original(u)' PROVE transfers'[u].rest = None
  <2>1. CASE transfers[u].status # "None"
    BY <1>2, <2>1, TransfersStay DEF Original, LineInv, Reversals
  <2>2. CASE transfers[u].status = "None" /\ transfers'[u].status # "None"
    BY <1>2, <2>2, NewLine, MovingLine, ReturningLine DEF Original
  <2>3. CASE transfers[u].status = "None" /\ transfers'[u].status = "None"
    <3>1. \/ UNCHANGED transfers
          \/ \E k \in Transfers, s \in Rows, f \in Folios : \E v \in Nat : Moving(k, s, f, v)
          \/ \E k, t \in Transfers : Returning(k, t)
      BY DEF Effect, Quiet, Posting, Billing, Releasing, Linking
    <3>2. transfers'[u] = transfers[u]
      BY <2>3, <3>1, MovingLine, ReturningLine
    <3> QED
      BY <2>3, <3>2 DEF Original, LineInv, Reversals
  <2> QED
    BY <2>1, <2>2, <2>3
<1>3. ASSUME NEW u \in Transfers, transfers'[u].status # "None", transfers'[u].reversal
      PROVE  \E t \in Transfers : Original(t)' /\ (Swaps(u, t)' \/ Repeats(u, t)')
  <2>1. CASE transfers[u].status # "None"
    <3>1. /\ transfers[u].reversal /\ transfers'[u].source = transfers[u].source
          /\ transfers'[u].moved = transfers[u].moved
      BY <1>3, <2>1, TransfersStay
    <3>2. PICK t \in Transfers : Original(t) /\ (Swaps(u, t) \/ Repeats(u, t))
      BY <2>1, <3>1 DEF LineInv, Reversals
    <3> QED
      BY <1>1, <3>1, <3>2 DEF Swaps, Repeats
  <2>2. CASE transfers[u].status = "None"
    <3>1. PICK o \in Transfers : Returning(u, o)
      BY <1>3, <2>2, NewLine, MovingLine
    <3>2. /\ transfers'[u].source = transfers[o].moved /\ transfers'[u].moved = transfers[o].source
          /\ transfers[o].status # "None"
      BY <3>1, ReturningLine DEF Returning, InEffect
    <3>3. CASE Original(o)
      BY <1>1, <3>2, <3>3 DEF Swaps
    <3>4. CASE ~Original(o)
      <4>1. PICK t \in Transfers : Original(t) /\ (Swaps(o, t) \/ Repeats(o, t))
        BY <3>2, <3>4 DEF Original, LineInv, Reversals
      <4> QED
        BY <1>1, <3>2, <4>1 DEF Swaps, Repeats
    <3> QED
      BY <3>3, <3>4
  <2> QED
    BY <2>1, <2>2
<1> QED
  BY <1>2, <1>3 DEF Reversals

LEMMA SourceOnceStep ==
    ASSUME IInv, LineInv, Effect
    PROVE  SourceOnce'
<1>1. ASSUME UNCHANGED transfers PROVE SourceOnce'
  BY <1>1 DEF LineInv, SourceOnce, InEffect
<1>2. \A t \in Transfers : InEffect(t) => rows[transfers[t].source].void
  BY DEF LineInv, Crossings, InEffect
<1>3. ASSUME NEW k \in Transfers, NEW s \in Rows, NEW f \in Folios, NEW v \in Nat, Moving(k, s, f, v)
      PROVE  SourceOnce'
  <2>1. transfers'[k].source = s /\ \A t \in Transfers \ {k} : transfers'[t] = transfers[t]
    BY <1>3, MovingLine
  <2>2. \A t \in Transfers : InEffect(t) => transfers[t].source # s
    BY <1>2, <1>3 DEF Moving, Turns
  <2> QED
    BY <2>1, <2>2 DEF LineInv, SourceOnce, InEffect
<1>4. ASSUME NEW k \in Transfers, NEW t \in Transfers, Returning(k, t) PROVE SourceOnce'
  <2>1. \A u \in Transfers : InEffect(u) => transfers[u].source # transfers[t].moved
    BY <1>2, <1>4 DEF Returning, Turns
  <2> QED
    BY <1>4, <2>1, ReturningLine DEF LineInv, SourceOnce, InEffect
<1> QED
  BY <1>1, <1>3, <1>4 DEF Effect, Quiet, Posting, Billing, Releasing, Linking

LEMMA AskedStays ==
    ASSUME IInv, Effect, NEW v \in Workers, Asked(v), req'[v] = req[v]
    PROVE  Asked(v)'
<1>1. req[v] \in Request \cup {NoRequest}
  BY DEF IInv, TypeOK
<1>2. ASSUME req[v].kind = "transfer" PROVE rows'[req[v].source].folio \notin {None, req[v].to}
  BY <1>1, <1>2, RequestFields, RowsStay DEF Asked
<1> QED
  BY <1>2 DEF Asked

LEMMA AskedStep ==
    ASSUME IInv, Effect, \A w \in Workers : Asked(w), [Next]_vars
    PROVE  \A w \in Workers : Asked(w)'
<1> SUFFICES ASSUME NEW v \in Workers PROVE Asked(v)'
  OBVIOUS
<1>1. ASSUME req'[v] = NoRequest PROVE Asked(v)'
  BY <1>1 DEF Asked, NoRequest
<1>2. ASSUME NEW w, NEW fs, Touch(w, fs) PROVE Asked(v)'
  <2>1. req'[v] = req[v] \/ req'[v] = NoRequest
    BY <1>2 DEF Touch
  <2> QED
    BY <2>1, <1>1, AskedStays
<1>3. ASSUME NEW w \in Workers, LoadSome(w), v # w PROVE Asked(v)'
  <2>1. PICK q, folios : Load(w, q, folios)
    BY <1>3 DEF LoadSome, LoadPost, LoadTransfer, LoadReverse, LoadInvoice, LoadReconcile
  <2>2. req'[v] = req[v]
    BY <2>1, <1>3 DEF Load, IInv, TypeOK
  <2> QED
    BY <2>2, AskedStays
<1>4. ASSUME LoadSome(v) PROVE Asked(v)'
  <2>1. ASSUME NEW q, NEW folios, Load(v, q, folios), q.kind # "transfer" PROVE Asked(v)'
    BY <2>1 DEF Load, IInv, TypeOK, Asked
  <2>2. ASSUME NEW key \in Transfers, NEW source \in Rows, NEW to \in Folios, NEW amount \in Amounts,
               LoadTransfer(v, key, source, to, amount)
        PROVE  Asked(v)'
    <3>1. req'[v] = [kind |-> "transfer", key |-> key, source |-> source, to |-> to,
                     amount |-> amount]
      BY <2>2 DEF LoadTransfer, Load, IInv, TypeOK
    <3>2. rows'[source] = rows[source] /\ rows[source].folio \notin {None, to}
      BY <2>2 DEF LoadTransfer, Load, db
    <3> QED
      BY <3>1, <3>2 DEF Asked
  <2>3. ASSUME NEW f \in Folios, NEW c \in Charges, LoadPost(v, f, c) PROVE Asked(v)'
    BY <2>1, <2>3 DEF LoadPost
  <2>4. ASSUME NEW key \in Transfers, NEW t \in Transfers, LoadReverse(v, key, t) PROVE Asked(v)'
    BY <2>1, <2>4 DEF LoadReverse
  <2>5. ASSUME NEW f \in Folios, LoadInvoice(v, f) PROVE Asked(v)'
    BY <2>1, <2>5 DEF LoadInvoice
  <2>6. ASSUME NEW f \in Folios, LoadReconcile(v, f) PROVE Asked(v)'
    BY <2>1, <2>6 DEF LoadReconcile
  <2> QED
    BY <1>4, <2>2, <2>3, <2>4, <2>5, <2>6 DEF LoadSome
<1>5. ASSUME NEW i \in Active, Submit(i) \/ Cancel(i) PROVE Asked(v)'
  BY <1>5, <1>2 DEF Submit, Cancel
<1>6. ASSUME NEW c \in PosCharges, PosCancel(c) PROVE Asked(v)'
  BY <1>6, AskedStays DEF PosCancel, handlers
<1>7. CASE UNCHANGED vars
  BY <1>7, AskedStays DEF vars
<1>8. ASSUME NEW w \in Workers, Commit(w) \/ Rollback(w) PROVE Asked(v)'
  BY <1>8, <1>2 DEF Commit, Rollback
<1> QED
  BY <1>3, <1>4, <1>5, <1>6, <1>7, <1>8 DEF Next

LEMMA InitBooks == Init => BooksInv
<1> SUFFICES ASSUME Init PROVE BooksInv
  OBVIOUS
<1>1. Existing = {} /\ Active = {}
  BY DEF Init, Existing, Active, NoRow
<1>2. \A t \in Transfers : transfers[t].status = "None" /\ transfers[t].rest = None
  BY DEF Init, NoTransfer
<1>3. \A w \in Workers : req[w].kind = "none"
  BY DEF Init, NoRequest
<1> QED
  BY <1>1, <1>2, <1>3, FS_EmptySet
  DEF BooksInv, Books, LineInv, Splits, Crossings, Reversals, SourceOnce, InEffect, Original, Asked

LEMMA NextBooks ==
    ASSUME ReconcilesAtRepeatableRead, IInv, BooksInv, [Next]_vars
    PROVE  BooksInv'
<1>1. IInv' /\ Effect
  BY NextIInv, NextEffect
<1> QED
  BY <1>1, BooksStep, SplitsStep, CrossingsStep, ReversalsStep, SourceOnceStep, AskedStep
  DEF BooksInv, LineInv
-----------------------------------------------------------------------------
(* Sums over rows. *)

LEMMA SumFacts ==
    ASSUME IInv, Books, NEW S \in SUBSET Existing
    PROVE  /\ IsFiniteSet(S) /\ Sum(S) \in Nat
           /\ \A r \in S : r \in Rows /\ rows[r].value \in Nat \ {0} /\ rows[r].value <= Sum(S)
<1> DEFINE V == [r \in Rows |-> rows[r].value]
<1>1. IsFiniteSet(S)
  BY FS_Subset DEF Books
<1>2. \A r \in S : r \in Rows /\ V[r] = rows[r].value /\ rows[r].value \in Nat \ {0}
  BY RowFacts DEF Existing, IInv, TypeOK, Row
<1>3. \A r \in S : V[r] \in Nat
  BY <1>2
<1> HIDE DEF V
<1>4. SumFunctionOnSet(V, S) \in Nat /\ \A r \in S : V[r] <= SumFunctionOnSet(V, S)
  BY <1>1, <1>3, SumNatural, SumAtLeast
<1> QED
  BY <1>1, <1>2, <1>4 DEF Sum, V

\* The sum over rows with the values they have after a step.
SumAfter(S) == SumFunctionOnSet([r \in Rows |-> rows'[r].value], S)

LEMMA NextFacts ==
    ASSUME IInv, IInv', Books, Effect
    PROVE  /\ \A r \in Rows : rows'[r].value \in Nat
           /\ \A S \in SUBSET Existing : SumAfter(S) = Sum(S) /\ IsFiniteSet(S) /\ Sum(S) \in Nat
           /\ \A S \in SUBSET Rows : \A r \in Rows \ S :
                 IsFiniteSet(S) => SumAfter(S \cup {r}) = SumAfter(S) + rows'[r].value
           /\ \A S \in SUBSET Rows : \A r \in S :
                 IsFiniteSet(S) => SumAfter(S) = SumAfter(S \ {r}) + rows'[r].value
           /\ \A S \in SUBSET Rows : \A A \in SUBSET S :
                 IsFiniteSet(S) => SumAfter(S) = SumAfter(A) + SumAfter(S \ A)
           /\ \A S \in SUBSET Rows : IsFiniteSet(S) => SumAfter(S) \in Nat
<1> DEFINE V == [r \in Rows |-> rows[r].value]
           W == [r \in Rows |-> rows'[r].value]
<1>1. \A r \in Rows : V[r] \in Nat /\ W[r] \in Nat /\ W[r] = rows'[r].value
  BY RowFacts DEF IInv, TypeOK
<1>2. \A r \in Existing : r \in Rows /\ V[r] = W[r]
  BY RowsStay DEF Existing
<1> HIDE DEF V, W
<1>3. ASSUME NEW S \in SUBSET Existing
      PROVE  /\ SumFunctionOnSet(W, S) = SumFunctionOnSet(V, S)
             /\ IsFiniteSet(S) /\ SumFunctionOnSet(V, S) \in Nat
  <2>1. IsFiniteSet(S)
    BY FS_Subset DEF Books
  <2>2. \A r \in S : V[r] \in Int /\ W[r] = V[r]
    BY <1>1, <1>2
  <2>3. \A r \in S : V[r] \in Nat
    BY <1>1, <1>2
  <2> QED
    BY <2>1, <2>2, <2>3, SumSame, SumNatural
<1>4. ASSUME NEW S \in SUBSET Rows, IsFiniteSet(S)
      PROVE  SumFunctionOnSet(W, S) \in Nat
  BY <1>1, <1>4, SumNatural
<1>5. ASSUME NEW S \in SUBSET Rows, NEW r \in S, IsFiniteSet(S)
      PROVE  SumFunctionOnSet(W, S) = SumFunctionOnSet(W, S \ {r}) + W[r]
  <2>1. SumFunctionOnSet(W, S) = W[r] + SumFunctionOnSet(W, S \ {r})
    BY <1>1, <1>5, SumTakeOut
  <2>2. SumFunctionOnSet(W, S \ {r}) \in Nat /\ W[r] \in Nat
    BY <1>1, <1>4, <1>5, FS_RemoveElement
  <2> QED
    BY <2>1, <2>2
<1>6. ASSUME NEW S \in SUBSET Rows, NEW r \in Rows \ S, IsFiniteSet(S)
      PROVE  SumFunctionOnSet(W, S \cup {r}) = SumFunctionOnSet(W, S) + W[r]
  <2>1. IsFiniteSet(S \cup {r}) /\ (S \cup {r}) \ {r} = S /\ r \in S \cup {r} /\ S \cup {r} \in SUBSET Rows
    BY <1>6, FS_AddElement
  <2> QED
    BY <2>1, <1>5
<1>7. ASSUME NEW S \in SUBSET Rows, NEW A \in SUBSET S, IsFiniteSet(S)
      PROVE  SumFunctionOnSet(W, S) = SumFunctionOnSet(W, A) + SumFunctionOnSet(W, S \ A)
  BY <1>1, <1>7, SumSplit
<1> QED
  BY <1>1, <1>3, <1>4, <1>5, <1>6, <1>7 DEF SumAfter, Sum, V, W

LEMMA SumWithout ==
    ASSUME IInv, IInv', Books, Effect,
           NEW S \in SUBSET Rows, IsFiniteSet(S), NEW r \in S
    PROVE  /\ SumAfter(S) = SumAfter(S \ {r}) + rows'[r].value
           /\ SumAfter(S \ {r}) \in Nat
<1>1. IsFiniteSet(S \ {r}) /\ S \ {r} \in SUBSET Rows
  BY FS_RemoveElement
<1> QED
  BY <1>1, NextFacts

LEMMA SumWith ==
    ASSUME IInv, IInv', Books, Effect,
           NEW S \in SUBSET Rows, IsFiniteSet(S), NEW r \in Rows \ S
    PROVE  SumAfter(S \cup {r}) = SumAfter(S) + rows'[r].value
BY NextFacts

LEMMA InOpen ==
    ASSUME NEW f \in Folios
    PROVE  /\ \A r : r \in OpenRows(f) <=> /\ r \in Rows /\ r \notin PosCharges
                                           /\ rows[r].folio = f /\ ~rows[r].void
                                           /\ rows[r].invoice = None
           /\ \A r : r \in OpenRows(f)' <=> /\ r \in Rows /\ r \notin PosCharges
                                            /\ rows'[r].folio = f /\ ~rows'[r].void
                                            /\ rows'[r].invoice = None
           /\ OpenRows(f) \subseteq Existing
           /\ Sum(OpenRows(f))' = SumAfter(OpenRows(f)')
BY Apart DEF OpenRows, Live, Existing, Sum, SumAfter

LEMMA InLive ==
    /\ \A r : r \in Live \ PosCharges <=> /\ r \in Rows /\ r \notin PosCharges
                                          /\ rows[r].folio # None /\ ~rows[r].void
    /\ \A r : r \in (Live \ PosCharges)' <=> /\ r \in Rows /\ r \notin PosCharges
                                             /\ rows'[r].folio # None /\ ~rows'[r].void
    /\ Live \ PosCharges \subseteq Existing
    /\ Sum(Live \ PosCharges)' = SumAfter((Live \ PosCharges)')
    /\ \A c : c \in Charged <=> c \in Charges /\ c \notin PosCharges /\ rows[c].folio # None
    /\ \A c : c \in Charged' <=> c \in Charges /\ c \notin PosCharges /\ rows'[c].folio # None
    /\ Charged \subseteq Existing
    /\ Sum(Charged)' = SumAfter(Charged')
BY Apart DEF Live, Existing, Charged, Sum, SumAfter
(* Rows leave a set, enter it, or take the place of others. *)
LEMMA SumLeft ==
    ASSUME IInv, IInv', Books, Effect, NEW S \in SUBSET Existing, NEW s \in S
    PROVE  SumAfter(S \ {s}) = Sum(S) - rows[s].value
<1>1. /\ s \in Rows /\ rows[s].value \in Nat /\ rows'[s].value = rows[s].value
      /\ S \in SUBSET Rows /\ IsFiniteSet(S)
  BY RowsStay, SumFacts DEF Existing
<1>2. SumAfter(S) = SumAfter(S \ {s}) + rows[s].value /\ SumAfter(S \ {s}) \in Nat
  BY <1>1, SumWithout
<1>3. SumAfter(S) = Sum(S)
  BY NextFacts
<1> QED
  BY <1>1, <1>2, <1>3

LEMMA SumEntered ==
    ASSUME IInv, IInv', Books, Effect, NEW S \in SUBSET Existing, NEW m \in Rows \ S
    PROVE  SumAfter(S \cup {m}) = Sum(S) + rows'[m].value
<1>1. S \in SUBSET Rows /\ IsFiniteSet(S) /\ SumAfter(S) = Sum(S)
  BY NextFacts, SumFacts DEF Existing
<1> QED
  BY <1>1, SumWith

LEMMA SumReplaced ==
    ASSUME IInv, IInv', Books, Effect, NEW S \in SUBSET Existing, NEW s \in S,
           NEW m \in Rows \ S
    PROVE  SumAfter((S \ {s}) \cup {m}) = Sum(S) - rows[s].value + rows'[m].value
<1> DEFINE A == S \ {s}
<1>1. A \in SUBSET Rows /\ IsFiniteSet(A) /\ m \in Rows \ A
  BY SumFacts, FS_RemoveElement DEF Existing
<1>2. SumAfter(A) = Sum(S) - rows[s].value
  BY SumLeft
<1> HIDE DEF A
<1>3. SumAfter(A \cup {m}) = SumAfter(A) + rows'[m].value
  BY <1>1, SumWith
<1> QED
  BY <1>2, <1>3 DEF A

LEMMA SumMoved ==
    ASSUME IInv, IInv', Books, Effect, NEW S \in SUBSET Existing, NEW s \in S,
           NEW m \in Rows \ Existing, NEW x \in Rows \ Existing, m # x,
           rows[s].value = rows'[m].value + rows'[x].value
    PROVE  SumAfter(((S \ {s}) \cup {m}) \cup {x}) = Sum(S)
<1> DEFINE B == (S \ {s}) \cup {m}
<1>1. /\ s \in S /\ m \in Rows \ S /\ B \in SUBSET Rows /\ IsFiniteSet(B) /\ x \in Rows \ B
      /\ Sum(S) \in Nat
  BY SumFacts, FS_RemoveElement, FS_AddElement DEF Existing
<1>2. SumAfter(B) = Sum(S) - rows[s].value + rows'[m].value
  BY <1>1, SumReplaced
<1> HIDE DEF B
<1>3. SumAfter(B \cup {x}) = SumAfter(B) + rows'[x].value
  BY <1>1, SumWith
<1>4. rows'[m].value \in Nat /\ rows'[x].value \in Nat
  BY NextFacts
<1>5. SumAfter(B \cup {x}) = Sum(S)
  BY <1>1, <1>2, <1>3, <1>4
<1> QED
  BY <1>5 DEF B

LEMMA SumReturned ==
    ASSUME IInv, IInv', Books, Effect, NEW S \in SUBSET Existing, NEW s \in Existing \ S,
           NEW m \in S, NEW P \in SUBSET (S \ {m}), NEW v \in Nat,
           P = {} => v = 0, \A r \in P : P = {r} /\ v = rows[r].value,
           rows[s].value = rows[m].value + v
    PROVE  SumAfter(((S \ {m}) \ P) \cup {s}) = Sum(S)
<1> DEFINE A == S \ {m}
           B == A \ P
<1>1. /\ s \in Rows \ B /\ rows'[s].value = rows[s].value
      /\ S \in SUBSET Rows /\ m \in Existing /\ rows'[m].value = rows[m].value
      /\ m \in Rows /\ A \in SUBSET Rows /\ B \in SUBSET Rows /\ B \in SUBSET Existing
      /\ rows[m].value \in Nat /\ A \in SUBSET Existing
      /\ IsFiniteSet(A) /\ IsFiniteSet(B) /\ IsFiniteSet(S)
  BY RowsStay, SumFacts DEF Existing
<1>2. SumAfter(A) = SumAfter(B) + v
  <2>1. CASE P = {}
    <3>1. B = A /\ v = 0 /\ SumAfter(B) \in Nat
      BY <1>1, <2>1, NextFacts
    <3>2. SumAfter(A) = SumAfter(B)
      BY <3>1
    <3> HIDE DEF A, B
    <3> QED
      BY <3>1, <3>2
  <2>2. CASE P # {}
    <3>1. PICK r \in P : TRUE
      BY <2>2
    <3>2. r \in A /\ B = A \ {r} /\ r \in Existing /\ r \in Rows /\ v = rows[r].value
      BY <3>1 DEF Existing
    <3>3. rows'[r].value = v
      BY <3>2, RowsStay DEF Existing
    <3>4. SumAfter(A) = SumAfter(A \ {r}) + rows'[r].value
      <4> HIDE DEF A
      <4> QED
        BY <3>2, <1>1, SumWithout
    <3> QED
      BY <3>2, <3>3, <3>4
  <2> QED
    BY <2>1, <2>2
<1> HIDE DEF B
<1>3. SumAfter(S) = SumAfter(A) + rows[m].value /\ SumAfter(S) = Sum(S)
  <2>1. SumAfter(S) = SumAfter(S \ {m}) + rows'[m].value
    BY <1>1, SumWithout
  <2> QED
    BY <2>1, <1>1, NextFacts
<1> HIDE DEF A
<1>4. SumAfter(B \cup {s}) = SumAfter(B) + rows[s].value /\ SumAfter(B) \in Nat
  BY <1>1, NextFacts
<1>5. SumAfter(B \cup {s}) = Sum(S)
  BY <1>1, <1>2, <1>3, <1>4
<1> QED
  BY <1>5 DEF A, B
-----------------------------------------------------------------------------
(* What is forgotten before and after a step. *)

LEMMA LostFacts ==
    ASSUME IInv, LineInv
    PROVE  /\ \A r : r \in LostRows <=> \E t \in Transfers : Forgotten(t) /\ r = transfers[t].rest
           /\ \A t \in Transfers : transfers[t].rest # None =>
                 Original(t) /\ transfers[t].rest = <<t, "rest">> /\ transfers[t].rest \in Existing
           /\ LostRows \in SUBSET Existing
<1>1. ASSUME NEW t \in Transfers, transfers[t].rest # None
      PROVE  Original(t) /\ transfers[t].rest = <<t, "rest">> /\ transfers[t].rest \in Existing
  <2>1. Original(t) /\ transfers[t].rest = <<t, "rest">>
    BY <1>1 DEF LineInv, Reversals, Splits
  <2>2. transfers[t].rest \in Rows /\ rows[transfers[t].rest].folio # None
    BY <1>1, <2>1 DEF IInv, Lines, Original
  <2> QED
    BY <2>1, <2>2 DEF Existing
<1>2. \A r : r \in LostRows <=> \E t \in Transfers : Forgotten(t) /\ r = transfers[t].rest
  BY DEF LostRows
<1>3. \A t \in Transfers : Forgotten(t) => transfers[t].rest # None
  BY DEF Forgotten
<1> QED
  BY <1>1, <1>2, <1>3

LEMMA LostAfter ==
    \A r : r \in LostRows' <=> \E t \in Transfers : Forgotten(t)' /\ r = transfers'[t].rest
BY DEF LostRows

LEMMA LostStays ==
    ASSUME UNCHANGED transfers
    PROVE  LostRows' = LostRows
<1>1. \A t \in Transfers : Forgotten(t)' <=> Forgotten(t)
  BY DEF Forgotten
<1> QED
  BY <1>1 DEF LostRows

LEMMA MovingLoses ==
    ASSUME IInv, LineInv,
           NEW k \in Transfers, NEW s \in Rows, NEW f \in Folios, NEW v \in Nat, Moving(k, s, f, v)
    PROVE  LostRows' = LostRows
<1>1. /\ ~transfers'[k].reversal /\ transfers'[k].moved = <<k, "moved">>
      /\ \A t \in Transfers \ {k} : transfers'[t] = transfers[t]
  BY MovingLine
<1>2. transfers[k].status = "None" /\ transfers[k].rest = None
      /\ rows[<<k, "moved">>].folio = None
  BY DEF Moving, Enters, LineInv, Reversals, Original
<1>3. ~Forgotten(k)
  BY <1>2 DEF Forgotten
<1>4. ~Forgotten(k)'
  <2>1. ASSUME NEW u \in Transfers, transfers'[u].status = "Applied", transfers'[u].reversal
        PROVE  transfers'[u].moved # transfers'[k].moved
    <3>1. transfers'[u] = transfers[u]
      BY <2>1, <1>1
    <3>2. rows[transfers[u].moved].folio # None
      BY <2>1, <3>1 DEF IInv, Lines
    <3> QED
      BY <3>1, <3>2, <1>1, <1>2
  <2> QED
    BY <2>1 DEF Forgotten
<1>5. ASSUME NEW t \in Transfers \ {k} PROVE Forgotten(t)' <=> Forgotten(t)
  BY <1>1, <1>2 DEF Forgotten
<1>6. \A r : r \in LostRows' <=> r \in LostRows
  BY <1>1, <1>3, <1>4, <1>5 DEF LostRows
<1> QED
  BY <1>6

(* A split that is worth more than what moved is not the other way round of another. *)
LEMMA NoCircle ==
    ASSUME IInv, LineInv, NEW c \in Transfers, NEW t \in Transfers, Original(t),
           transfers[c].rest # None, Swaps(t, c)
    PROVE  FALSE
<1>1. Original(c) /\ transfers[c].rest \in Existing
  BY LostFacts
<1>2. rows[transfers[c].rest].value \in Nat \ {0} /\ RestValue(t) \in Nat
  <2>1. transfers[c].rest \in Rows /\ rows[transfers[c].rest] \in Row
    BY <1>1, RowFacts DEF Existing, IInv, TypeOK
  <2>2. CASE transfers[t].rest = None
    BY <2>1, <2>2 DEF RestValue, Row
  <2>3. CASE transfers[t].rest # None
    <3>1. transfers[t].rest \in Rows
      BY <2>3, LostFacts DEF Existing
    <3>2. rows[transfers[t].rest].value \in Nat
      BY <3>1, RowFacts DEF IInv, TypeOK
    <3> QED
      BY <2>1, <2>3, <3>2 DEF RestValue, Row
  <2> QED
    BY <2>2, <2>3
<1>3. /\ rows[transfers[c].source].value = rows[transfers[c].moved].value + rows[transfers[c].rest].value
      /\ rows[transfers[t].source].value = rows[transfers[t].moved].value + RestValue(t)
  BY <1>1 DEF LineInv, Splits, RestValue
<1>4. rows[transfers[c].source].value \in Nat /\ rows[transfers[c].moved].value \in Nat
  BY <1>1, RowFacts DEF Original, LineInv, Crossings, IInv, TypeOK
<1>5. /\ rows[transfers[t].source].value = rows[transfers[c].moved].value
      /\ rows[transfers[t].moved].value = rows[transfers[c].source].value
  BY DEF Swaps
<1> QED
  BY <1>2, <1>3, <1>4, <1>5

(* What is forgotten after a reversal. *)
LEMMA ReturningForgets ==
    ASSUME IInv, LineInv, NEW k \in Transfers, NEW t \in Transfers, Returning(k, t),
           NEW c \in Transfers
    PROVE  /\ transfers'[c].rest = transfers[c].rest
           /\ Forgotten(c)' <=>
                 /\ transfers[c].rest # None
                 /\ \/ Swaps(t, c)
                    \/ \E u \in Transfers \ {t} :
                          transfers[u].status = "Applied" /\ transfers[u].reversal /\ Repeats(u, c)
<1>1. /\ transfers'[k].status = "Applied" /\ transfers'[k].reversal
      /\ transfers'[k].source = transfers[t].moved /\ transfers'[k].moved = transfers[t].source
      /\ transfers'[k].rest = None /\ transfers'[t].status = "Reversed"
      /\ \A u \in Transfers \ {k, t} : transfers'[u] = transfers[u]
  BY ReturningLine
<1>2. k # t /\ transfers[k].status = "None" /\ transfers[t].status = "Applied"
  BY DEF Returning, InEffect
<1>3. transfers[k].rest = None
  BY <1>2 DEF LineInv, Reversals, Original
<1>4. /\ transfers'[t].source = transfers[t].source /\ transfers'[t].moved = transfers[t].moved
      /\ transfers'[t].rest = transfers[t].rest
  <2>1. transfers'[t] = [transfers[t] EXCEPT !.status = "Reversed"] /\ transfers[t] \in Transfer
    BY <1>2 DEF Returning, IInv, TypeOK
  <2> QED
    BY <2>1 DEF Transfer
<1>5. transfers'[c].rest = transfers[c].rest
  BY <1>1, <1>3, <1>4
<1>6. ASSUME transfers[c].rest # None
      PROVE  transfers'[c].source = transfers[c].source /\ transfers'[c].moved = transfers[c].moved
  BY <1>1, <1>3, <1>4, <1>6
<1>7. ASSUME transfers[c].rest # None, NEW u \in Transfers
      PROVE  (transfers'[u].status = "Applied" /\ transfers'[u].reversal /\ Repeats(u, c)')
                <=> \/ u = k /\ Swaps(t, c)
                    \/ u # t /\ transfers[u].status = "Applied" /\ transfers[u].reversal /\ Repeats(u, c)
  <2>1. CASE u = k
    BY <2>1, <1>1, <1>2, <1>6, <1>7 DEF Swaps, Repeats
  <2>2. CASE u = t
    BY <2>2, <1>1, <1>2
  <2>3. CASE u \notin {k, t}
    BY <2>3, <1>1, <1>6, <1>7 DEF Repeats
  <2> QED
    BY <2>1, <2>2, <2>3
<1>8. Forgotten(c)' <=> /\ transfers'[c].rest # None
                       /\ \E u \in Transfers : transfers'[u].status = "Applied"
                                               /\ transfers'[u].reversal /\ Repeats(u, c)'
  BY DEF Forgotten, Repeats
<1> QED
  BY <1>5, <1>7, <1>8

(* A reversal gives back as much as it takes, forgets a remainder or recalls one. *)
LEMMA LostChanges ==
    ASSUME IInv, LineInv, NEW k \in Transfers, NEW t \in Transfers, Returning(k, t),
           NEW s, NEW m, s = transfers[t].source, m = transfers[t].moved
    PROVE  \/ /\ rows[s].value = rows[m].value + RestValue(t)
              /\ LostRows' = LostRows
           \/ /\ transfers[t].rest = None
              /\ \E x \in Existing \ LostRows : /\ rows[m].value = rows[s].value + rows[x].value
                                                /\ LostRows' = LostRows \cup {x}
           \/ /\ transfers[t].rest = None
              /\ \E x \in LostRows : /\ rows[s].value = rows[m].value + rows[x].value
                                      /\ LostRows' = LostRows \ {x}
<1>1. /\ transfers[t].status = "Applied" /\ InEffect(t)
      /\ s \in Rows /\ m \in Rows /\ ~rows[m].void
  BY DEF Returning, InEffect, LineInv, Crossings, Turns
<1>2. /\ rows[s].value \in Nat /\ rows[m].value \in Nat
  BY <1>1, RowFacts DEF IInv, TypeOK
<1>3. \A c \in Transfers :
         /\ transfers'[c].rest = transfers[c].rest
         /\ Forgotten(c)' <=>
               /\ transfers[c].rest # None
               /\ \/ Swaps(t, c)
                  \/ \E u \in Transfers \ {t} :
                        transfers[u].status = "Applied" /\ transfers[u].reversal /\ Repeats(u, c)
  BY ReturningForgets
<1>4. \A c \in Transfers :
         Forgotten(c) <=>
            /\ transfers[c].rest # None
            /\ \E u \in Transfers :
                  transfers[u].status = "Applied" /\ transfers[u].reversal /\ Repeats(u, c)
  BY DEF Forgotten, Repeats
<1>5. ASSUME NEW c \in Transfers, NEW b \in Transfers,
             transfers[c].rest # None, Original(b), transfers[c].moved = transfers[b].moved
      PROVE  c = b
  <2>1. transfers[c].moved = <<c, "moved">> /\ transfers[b].moved = <<b, "moved">>
    BY <1>5, LostFacts DEF LineInv, Splits
  <2> QED
    BY <2>1, <1>5
<1>6. CASE Original(t)
  <2>1. rows[s].value = rows[m].value + RestValue(t)
    BY <1>6 DEF LineInv, Splits
  <2>2. ASSUME NEW c \in Transfers PROVE Forgotten(c)' <=> Forgotten(c)
    <3>1. transfers[c].rest # None => ~Swaps(t, c)
      BY <1>6, NoCircle
    <3>2. ~transfers[t].reversal
      BY <1>6 DEF Original
    <3> QED
      BY <1>3, <1>4, <3>1, <3>2
  <2>3. \A r : r \in LostRows' <=> r \in LostRows
    BY <1>3, <2>2, LostFacts, LostAfter
  <2> QED
    BY <2>1, <2>3
<1>7. CASE ~Original(t)
  <2>1. transfers[t].rest = None /\ RestValue(t) = 0 /\ transfers[t].reversal
    BY <1>1, <1>7 DEF Original, LineInv, Reversals, RestValue
  <2>2. PICK b \in Transfers : Original(b) /\ (Swaps(t, b) \/ Repeats(t, b))
    BY <1>1, <2>1 DEF LineInv, Reversals
  <2>3. rows[transfers[b].source].value = rows[transfers[b].moved].value + RestValue(b)
    BY <2>2 DEF LineInv, Splits
  <2>4. transfers[b].rest # None =>
           transfers[b].rest \in Existing /\ RestValue(b) = rows[transfers[b].rest].value
    BY LostFacts DEF RestValue
  <2>5. CASE Swaps(t, b)
    <3>1. s = transfers[b].moved /\ m = transfers[b].source
      BY <2>5 DEF Swaps
    <3>2. ASSUME NEW c \in Transfers, transfers[c].rest # None, Repeats(t, c) PROVE FALSE
      <4>1. Swaps(b, c)
        BY <3>1, <3>2 DEF Swaps, Repeats
      <4> QED
        BY <2>2, <3>2, <4>1, NoCircle
    <3>3. ASSUME NEW c \in Transfers, transfers[c].rest # None, Swaps(t, c) PROVE c = b
      BY <1>5, <2>2, <2>5, <3>3 DEF Swaps
    <3>4. ~Forgotten(b)
      <4>1. ASSUME NEW u \in Transfers, transfers[u].status = "Applied", Repeats(u, b) PROVE FALSE
        <5>1. rows[transfers[u].source].void
          BY <4>1 DEF LineInv, Crossings, InEffect
        <5> QED
          BY <4>1, <5>1, <1>1, <3>1 DEF Repeats
      <4> QED
        BY <4>1, <1>4
    <3>5. ASSUME NEW c \in Transfers
          PROVE  Forgotten(c)' <=> Forgotten(c) \/ (c = b /\ transfers[b].rest # None)
      BY <1>3, <1>4, <2>5, <3>2, <3>3
    <3>6. CASE transfers[b].rest = None
      <4>1. \A r : r \in LostRows' <=> r \in LostRows
        BY <1>3, <3>5, <3>6, LostFacts, LostAfter
      <4>2. LostRows' = LostRows
        BY <4>1
      <4>3. RestValue(b) = 0
        BY <3>6 DEF RestValue
      <4> QED
        BY <4>2, <4>3, <1>2, <2>1, <2>3, <3>1
    <3>7. CASE transfers[b].rest # None
      <4> DEFINE x == transfers[b].rest
      <4>1. \A r : r \in LostRows' <=> r \in LostRows \/ r = x
        BY <1>3, <3>5, <3>7, LostFacts, LostAfter
      <4>2. x \notin LostRows
        <5>1. ASSUME NEW c \in Transfers, Forgotten(c), transfers[c].rest = x PROVE FALSE
          <6>1. x = <<c, "rest">> /\ x = <<b, "rest">>
            BY <3>7, <5>1, LostFacts
          <6>2. c = b
            BY <6>1
          <6> QED
            BY <6>2, <5>1, <3>4
        <5> QED
          BY <5>1, LostFacts
      <4>3. LostRows' = LostRows \cup {x} /\ x \in Existing \ LostRows
        BY <4>1, <4>2, <2>4, <3>7
      <4>4. rows[m].value = rows[s].value + rows[x].value
        BY <2>3, <2>4, <3>1, <3>7
      <4> QED
        BY <4>3, <4>4, <2>1
    <3> QED
      BY <3>6, <3>7
  <2>6. CASE Repeats(t, b)
    <3>1. s = transfers[b].source /\ m = transfers[b].moved
      BY <2>6 DEF Repeats
    <3>2. ASSUME NEW c \in Transfers, transfers[c].rest # None, Swaps(t, c) PROVE FALSE
      <4>1. Swaps(b, c)
        BY <3>1, <3>2 DEF Swaps
      <4> QED
        BY <2>2, <3>2, <4>1, NoCircle
    <3>3. ASSUME NEW c \in Transfers, transfers[c].rest # None, Repeats(t, c) PROVE c = b
      BY <1>5, <2>2, <2>6, <3>3 DEF Repeats
    <3>4. ASSUME NEW u \in Transfers \ {t}, transfers[u].status = "Applied", Repeats(u, b) PROVE FALSE
      <4>1. transfers[u].source # transfers[t].source
        BY <3>4, <1>1 DEF LineInv, SourceOnce, InEffect
      <4> QED
        BY <4>1, <3>4, <3>1 DEF Repeats
    <3>5. ASSUME NEW c \in Transfers PROVE Forgotten(c)' <=> Forgotten(c) /\ c # b
      <4>1. CASE c = b
        BY <4>1, <1>3, <3>2, <3>4
      <4>2. CASE c # b
        BY <4>2, <1>3, <1>4, <3>2, <3>3
      <4> QED
        BY <4>1, <4>2
    <3>6. transfers[b].rest # None => Forgotten(b)
      BY <1>1, <1>4, <2>1, <2>6
    <3>7. CASE transfers[b].rest = None
      <4>1. ~Forgotten(b)
        BY <3>7, <1>4
      <4>2. \A r : r \in LostRows' <=> r \in LostRows
        BY <1>3, <3>5, <4>1, LostFacts, LostAfter
      <4>3. LostRows' = LostRows
        BY <4>2
      <4>4. RestValue(b) = 0
        BY <3>7 DEF RestValue
      <4> QED
        BY <4>3, <4>4, <1>2, <2>1, <2>3, <3>1
    <3>8. CASE transfers[b].rest # None
      <4> DEFINE x == transfers[b].rest
      <4>1. ASSUME NEW c \in Transfers, Forgotten(c), transfers[c].rest = x PROVE c = b
        <5>1. x = <<c, "rest">> /\ x = <<b, "rest">>
          BY <3>8, <4>1, LostFacts
        <5> QED
          BY <5>1
      <4>2. \A r : r \in LostRows' <=> r \in LostRows /\ r # x
        BY <1>3, <3>5, <4>1, LostFacts, LostAfter
      <4>3. LostRows' = LostRows \ {x} /\ x \in LostRows
        BY <4>2, <3>6, <3>8, LostFacts
      <4>4. rows[s].value = rows[m].value + rows[x].value
        BY <2>3, <2>4, <3>1, <3>8
      <4> QED
        BY <4>3, <4>4, <2>1
    <3> QED
      BY <3>7, <3>8
  <2> QED
    BY <2>2, <2>5, <2>6
<1> QED
  BY <1>6, <1>7

LEMMA LostSums ==
    ASSUME IInv, IInv', LineInv, Books, Effect
    PROVE  /\ LostRows \in SUBSET Existing /\ Sum(LostRows) \in Nat
           /\ LostRows' = LostRows => Sum(LostRows)' = Sum(LostRows)
           /\ \A x \in Existing \ LostRows :
                 LostRows' = LostRows \cup {x} =>
                    rows[x].value \in Nat \ {0} /\ Sum(LostRows)' = Sum(LostRows) + rows[x].value
           /\ \A x \in LostRows :
                 LostRows' = LostRows \ {x} =>
                    /\ rows[x].value \in 1..Sum(LostRows)
                    /\ Sum(LostRows)' = Sum(LostRows) - rows[x].value
<1>1. LostRows \in SUBSET Existing
  BY LostFacts
<1>2. Sum(LostRows)' = SumAfter(LostRows')
  BY DEF Sum, SumAfter
<1>3. Sum(LostRows) \in Nat /\ SumAfter(LostRows) = Sum(LostRows)
  BY <1>1, SumFacts, NextFacts
<1>4. ASSUME NEW x \in Existing \ LostRows, LostRows' = LostRows \cup {x}
      PROVE  rows[x].value \in Nat \ {0} /\ Sum(LostRows)' = Sum(LostRows) + rows[x].value
  <2>1. x \in Rows \ LostRows /\ rows'[x].value = rows[x].value /\ rows[x].value \in Nat \ {0}
    BY RowsStay, SumFacts DEF Existing
  <2>2. SumAfter(LostRows \cup {x}) = Sum(LostRows) + rows'[x].value
    BY <1>1, <2>1, SumEntered
  <2> QED
    BY <1>2, <1>4, <2>1, <2>2
<1>5. ASSUME NEW x \in LostRows, LostRows' = LostRows \ {x}
      PROVE  /\ rows[x].value \in 1..Sum(LostRows)
             /\ Sum(LostRows)' = Sum(LostRows) - rows[x].value
  <2>1. rows[x].value \in Nat \ {0} /\ rows[x].value <= Sum(LostRows)
    BY <1>1, SumFacts
  <2>2. SumAfter(LostRows \ {x}) = Sum(LostRows) - rows[x].value
    BY <1>1, SumLeft
  <2>3. rows[x].value \in 1..Sum(LostRows)
    BY <1>3, <2>1
  <2>4. Sum(LostRows)' = Sum(LostRows) - rows[x].value
    BY <1>2, <1>5, <2>2
  <2> QED
    BY <2>3, <2>4
<1>6. LostRows' = LostRows => Sum(LostRows)' = Sum(LostRows)
  BY <1>2, <1>3
<1> QED
  BY <1>1, <1>3, <1>4, <1>5, <1>6
-----------------------------------------------------------------------------
(* The total of the live and the lost rows is that of the charges. *)

LEMMA SameSums ==
    ASSUME IInv, IInv', LineInv, Books, Effect, AmountsConserved, UNCHANGED transfers,
           (Live \ PosCharges)' = Live \ PosCharges, Charged' = Charged
    PROVE  AmountsConserved'
<1>1. /\ SumAfter(Live \ PosCharges) = Sum(Live \ PosCharges)
      /\ SumAfter(Charged) = Sum(Charged)
  BY InLive, NextFacts
<1>2. Sum(LostRows)' = Sum(LostRows)
  BY LostStays, LostSums
<1> QED
  BY <1>1, <1>2, InLive DEF AmountsConserved

LEMMA PostingConserves ==
    ASSUME IInv, IInv', LineInv, Books, Effect, AmountsConserved,
           NEW c \in Charges, NEW f \in Folios, Posting(c, f)
    PROVE  AmountsConserved'
<1> DEFINE L == Live \ PosCharges
<1>1. /\ \A r \in Rows \ {c} : Kept(r)
      /\ rows[c].folio = None /\ rows'[c].folio # None /\ ~rows'[c].void
      /\ c \in Rows /\ UNCHANGED transfers
  BY Apart DEF Posting, Others, Enters
<1>2. CASE c \in PosCharges
  <2>1. \A r : r \in L' <=> r \in L
    BY <1>1, <1>2, InLive DEF Kept
  <2>2. \A r : r \in Charged' <=> r \in Charged
    BY <1>1, <1>2, InLive, Apart DEF Kept
  <2>3. L' = L /\ Charged' = Charged
    BY <2>1, <2>2
  <2> QED
    BY <1>1, <2>3, SameSums
<1>3. CASE c \notin PosCharges
  <2>1. L' = L \cup {c} /\ Charged' = Charged \cup {c}
    <3>1. \A r : r \in L' <=> r \in L \/ r = c
      BY <1>1, <1>3, InLive DEF Kept
    <3>2. \A r : r \in Charged' <=> r \in Charged \/ r = c
      BY <1>1, <1>3, InLive, Apart DEF Kept
    <3> QED
      BY <3>1, <3>2
  <2>2. L \subseteq Existing /\ c \in Rows \ L /\ Charged \subseteq Existing /\ c \in Rows \ Charged
    BY <1>1, InLive
  <2>3. L \in SUBSET Rows /\ Charged \in SUBSET Rows
    BY <2>2 DEF Existing
  <2>4. Sum(L)' = SumAfter(L') /\ Sum(Charged)' = SumAfter(Charged')
    BY InLive
  <2>7. Sum(LostRows)' = Sum(LostRows) /\ Sum(LostRows) \in Nat
    BY <1>1, LostStays, LostSums
  <2>8. Sum(L) \in Nat /\ rows'[c].value \in Nat /\ Sum(L) + Sum(LostRows) = Sum(Charged)
    BY <2>2, SumFacts, NextFacts DEF AmountsConserved
  <2> HIDE DEF L
  <2>5. SumAfter(L \cup {c}) = Sum(L) + rows'[c].value
    BY <2>2, <2>3, NextFacts, SumWith
  <2>6. SumAfter(Charged \cup {c}) = Sum(Charged) + rows'[c].value
    BY <2>2, <2>3, NextFacts, SumWith
  <2>9. Sum(L)' + Sum(LostRows)' = Sum(Charged)'
    BY <2>1, <2>4, <2>5, <2>6, <2>7, <2>8
  <2> QED
    BY <2>9 DEF AmountsConserved, L
<1> QED
  BY <1>2, <1>3

(* The rows of a transfer. *)
LEMMA MovingParts ==
    ASSUME IInv, NEW k \in Transfers, NEW s \in Rows, NEW f \in Folios, NEW v \in Nat,
           Moving(k, s, f, v)
    PROVE  LET m == <<k, "moved">>
               x == <<k, "rest">>
           IN  /\ s \in Existing /\ m \in Rows \ Existing /\ x \in Rows \ Existing /\ m # x
               /\ m \notin Charges /\ x \notin Charges
               /\ s \notin PosCharges /\ ~rows[s].void /\ rows'[s].void
               /\ rows[s].invoice = None /\ rows[s].folio \in Folios \ {f}
               /\ v \in 1..rows[s].value
               /\ rows'[m].value = v /\ rows'[m].folio = f
               /\ ~rows'[m].void /\ rows'[m].invoice = None
               /\ v = rows[s].value => rows'[x].folio = None
               /\ v # rows[s].value => /\ v < rows[s].value
                                       /\ rows'[x].value = rows[s].value - v
                                       /\ rows'[x].folio = rows[s].folio
                                       /\ ~rows'[x].void /\ rows'[x].invoice = None
               /\ \A r \in Rows \ {s, m, x} : Kept(r)
<1>1. rows[s].value \in Nat /\ rows[s].folio \in Folios \cup {None}
  BY RowFacts DEF IInv, TypeOK
<1> DEFINE m == <<k, "moved">>
           x == <<k, "rest">>
<1>2. /\ m \in Rows /\ x \in Rows /\ m # x /\ m \notin Charges /\ x \notin Charges
  BY Apart
<1>3. /\ s \notin PosCharges /\ rows[s].folio # f /\ v \in 1..rows[s].value
      /\ Turns(s, TRUE) /\ Enters(m, f, v) /\ rows[x].folio = None
      /\ IF v = rows[s].value THEN Kept(x) ELSE Enters(x, rows[s].folio, rows[s].value - v)
      /\ Others({s, m, x})
  BY DEF Moving
<1> HIDE DEF m, x
<1>4. /\ s \in Existing /\ ~rows[s].void /\ rows'[s].void /\ rows[s].invoice = None
      /\ rows[s].folio \in Folios \ {f}
  BY <1>1, <1>3 DEF Turns, Existing
<1>5. /\ m \notin Existing /\ rows'[m].value = v /\ rows'[m].folio = f
      /\ ~rows'[m].void /\ rows'[m].invoice = None
  BY <1>3 DEF Enters, Existing
<1>6. x \notin Existing /\ (v = rows[s].value => rows'[x].folio = None)
  BY <1>3 DEF Existing, Kept
<1>7. v # rows[s].value => /\ v < rows[s].value
                           /\ rows'[x].value = rows[s].value - v
                           /\ rows'[x].folio = rows[s].folio
                           /\ ~rows'[x].void /\ rows'[x].invoice = None
  BY <1>1, <1>3 DEF Enters
<1> QED
  BY <1>2, <1>3, <1>4, <1>5, <1>6, <1>7 DEF Others, m, x

LEMMA MovingConserves ==
    ASSUME IInv, IInv', LineInv, Books, Effect, AmountsConserved,
           NEW k \in Transfers, NEW s \in Rows, NEW f \in Folios, NEW v \in Nat,
           Moving(k, s, f, v)
    PROVE  AmountsConserved'
<1> DEFINE L == Live \ PosCharges
           m == <<k, "moved">>
           x == <<k, "rest">>
           Z == IF v = rows[s].value THEN (L \ {s}) \cup {m} ELSE ((L \ {s}) \cup {m}) \cup {x}
<1>1. /\ s \in Existing /\ m \in Rows \ Existing /\ x \in Rows \ Existing /\ m # x
      /\ m \notin Charges /\ x \notin Charges
      /\ s \notin PosCharges /\ ~rows[s].void /\ rows'[s].void
      /\ v \in 1..rows[s].value
      /\ rows'[m].value = v /\ rows'[m].folio = f /\ ~rows'[m].void
      /\ v = rows[s].value => rows'[x].folio = None
      /\ v # rows[s].value => /\ v < rows[s].value
                              /\ rows'[x].value = rows[s].value - v
                              /\ rows'[x].folio = rows[s].folio /\ ~rows'[x].void
      /\ \A r \in Rows \ {s, m, x} : Kept(r)
  BY MovingParts
<1>2. rows'[s].folio = rows[s].folio /\ rows[s].folio # None
  BY <1>1, RowsStay DEF Existing
<1>3. Charged' = Charged
  <2>1. ASSUME NEW c \in Charges PROVE rows'[c].folio = rows[c].folio
    BY <1>1, <1>2, Apart DEF Kept
  <2>2. \A c : c \in Charged' <=> c \in Charged
    BY <2>1, InLive
  <2> QED
    BY <2>2
<1> HIDE DEF m, x
<1>4. m \notin PosCharges /\ x \notin PosCharges /\ m \notin L /\ x \notin L /\ s \in L
  BY <1>1, <1>2, FolioAssumption, InLive
<1>5. L' = Z
  <2>1. ASSUME NEW r PROVE r \in L' <=> r \in Z
    <3>1. CASE r \in {s, m, x}
      BY <3>1, <1>1, <1>2, <1>4, Apart, InLive
    <3>2. CASE r \in Rows \ {s, m, x}
      BY <3>2, <1>1, InLive DEF Kept
    <3>3. CASE r \notin Rows
      BY <3>3, <1>1, InLive
    <3> QED
      BY <3>1, <3>2, <3>3
  <2> QED
    BY <2>1
<1>6. SumAfter(Z) = Sum(L)
  <2>1. L \in SUBSET Existing
    BY InLive
  <2> HIDE DEF L
  <2>2. Sum(L) \in Nat /\ rows[s].value \in Nat /\ s \in L /\ m \in Rows \ L
    BY <2>1, <1>1, <1>4, SumFacts
  <2>3. CASE v = rows[s].value
    <3>1. SumAfter((L \ {s}) \cup {m}) = Sum(L) - rows[s].value + rows'[m].value
      BY <2>1, <2>2, SumReplaced
    <3> QED
      BY <3>1, <2>2, <2>3, <1>1
  <2>4. CASE v # rows[s].value
    <3>1. rows[s].value = rows'[m].value + rows'[x].value
      BY <2>2, <2>4, <1>1
    <3>2. SumAfter(((L \ {s}) \cup {m}) \cup {x}) = Sum(L)
      BY <2>1, <2>2, <3>1, <1>1, SumMoved
    <3> QED
      BY <3>2, <2>4
  <2> QED
    BY <2>3, <2>4
<1>7. SumAfter(Charged) = Sum(Charged)
  BY InLive, NextFacts
<1>8. Sum(L)' = SumAfter(L') /\ Sum(Charged)' = SumAfter(Charged')
  BY InLive
<1>9. Sum(LostRows)' = Sum(LostRows)
  BY MovingLoses, LostSums
<1> HIDE DEF Z
<1> QED
  BY <1>3, <1>5, <1>6, <1>7, <1>8, <1>9 DEF AmountsConserved, L

LEMMA ReturningParts ==
    ASSUME IInv, LineInv, NEW k \in Transfers, NEW t \in Transfers, Returning(k, t)
    PROVE  LET line == transfers[t]
               s == line.source
               m == line.moved
               P == {line.rest} \ {None}
           IN  /\ s \in Existing /\ m \in Existing /\ P \subseteq Existing
               /\ s # m /\ s \notin P /\ m \notin P
               /\ s \notin PosCharges /\ m \notin PosCharges /\ P \cap PosCharges = {}
               /\ rows[s].void /\ ~rows'[s].void
               /\ ~rows[m].void /\ rows'[m].void
               /\ \A r \in P : ~rows[r].void /\ rows'[r].void /\ rows[r].invoice = None
               /\ rows[s].invoice = None /\ rows'[s].invoice = None /\ rows[m].invoice = None
               /\ \A r \in P : rows[r].folio = rows[s].folio
               /\ rows[s].folio # rows[m].folio
               /\ \A r \in Rows \ ({s, m} \cup P) : Kept(r)
               /\ P = {} => RestValue(t) = 0
               /\ \A r \in P : P = {r} /\ RestValue(t) = rows[r].value
<1> DEFINE line == transfers[t]
           s == line.source
           m == line.moved
           P == {line.rest} \ {None}
<1>1. /\ InEffect(t) /\ Turns(s, FALSE) /\ Turns(m, TRUE)
      /\ line.rest # None => Turns(line.rest, TRUE)
      /\ Others({s, m, line.rest})
  BY DEF Returning
<1>2. /\ s \in Rows \ PosCharges /\ m \in Rows \ PosCharges
      /\ rows[s].folio # rows[m].folio
  BY <1>1 DEF LineInv, Crossings, InEffect
<1>3. <<t, "rest">> \in Rows \ PosCharges
  BY Apart, FolioAssumption
<1>4. ASSUME NEW r \in P
      PROVE  /\ r = line.rest /\ r = <<t, "rest">> /\ Turns(r, TRUE) /\ r # s /\ r # m
             /\ P = {r} /\ RestValue(t) = rows[r].value
  <2>1. Original(t) /\ line.rest = <<t, "rest">>
    BY LostFacts
  <2>2. m = <<t, "moved">> /\ s # <<t, "rest">>
    BY <2>1 DEF LineInv, Splits
  <2>3. r = line.rest /\ line.rest # None /\ P = {r}
    OBVIOUS
  <2>4. r # m
    BY <2>1, <2>2, <2>3
  <2> QED
    BY <1>1, <2>1, <2>2, <2>3, <2>4 DEF RestValue
<1>5. P = {} => RestValue(t) = 0
  BY DEF RestValue
<1>6. ASSUME NEW r \in P PROVE rows[r].folio = rows[s].folio
  <2>1. transfers[t].rest # None /\ r = transfers[t].rest
    BY <1>4
  <2>2. rows[transfers[t].rest].folio = rows[transfers[t].source].folio
    BY <2>1, <1>1 DEF IInv, InEffect, Lines
  <2> QED
    BY <2>1, <2>2
<1> QED
  <2>1. /\ s \in Existing /\ rows[s].void /\ ~rows'[s].void
        /\ rows[s].invoice = None /\ rows'[s].invoice = None
    BY <1>1, <1>2 DEF Turns, Existing
  <2>2. m \in Existing /\ ~rows[m].void /\ rows'[m].void /\ rows[m].invoice = None
    BY <1>1, <1>2 DEF Turns, Existing
  <2>3. ASSUME NEW r \in P
        PROVE  r \in Existing /\ ~rows[r].void /\ rows'[r].void /\ rows[r].invoice = None
    BY <1>3, <1>4 DEF Turns, Existing
  <2>4. s # m /\ s \notin P /\ m \notin P /\ P \cap PosCharges = {}
    BY <1>2, <1>3, <1>4
  <2>5. \A r \in Rows \ ({s, m} \cup P) : Kept(r)
    BY <1>1, Apart DEF Others
  <2> QED
    BY <2>1, <2>2, <2>3, <2>4, <2>5, <1>2, <1>3, <1>4, <1>5, <1>6

LEMMA ReturningConserves ==
    ASSUME IInv, IInv', LineInv, Books, Effect, AmountsConserved,
           NEW k \in Transfers, NEW t \in Transfers, Returning(k, t)
    PROVE  AmountsConserved'
<1> DEFINE L == Live \ PosCharges
           line == transfers[t]
           s == line.source
           m == line.moved
           P == {line.rest} \ {None}
           v == RestValue(t)
           Z == ((L \ {m}) \ P) \cup {s}
<1>1. /\ s \in Existing /\ m \in Existing /\ P \subseteq Existing
      /\ s # m /\ s \notin P /\ m \notin P
      /\ s \notin PosCharges /\ m \notin PosCharges /\ P \cap PosCharges = {}
      /\ rows[s].void /\ ~rows'[s].void
      /\ ~rows[m].void /\ rows'[m].void
      /\ \A r \in P : ~rows[r].void /\ rows'[r].void
      /\ \A r \in Rows \ ({s, m} \cup P) : Kept(r)
      /\ P = {} => v = 0
      /\ \A r \in P : P = {r} /\ v = rows[r].value
  BY ReturningParts
<1>0. \/ rows[s].value = rows[m].value + v /\ LostRows' = LostRows
      \/ P = {} /\ \E x \in Existing \ LostRows : /\ rows[m].value = rows[s].value + rows[x].value
                                                  /\ LostRows' = LostRows \cup {x}
      \/ P = {} /\ \E x \in LostRows : /\ rows[s].value = rows[m].value + rows[x].value
                                        /\ LostRows' = LostRows \ {x}
  BY LostChanges
<1> HIDE DEF s, m, P, v
<1>2. \A r \in Existing : /\ r \in Rows /\ rows'[r].folio = rows[r].folio
                          /\ rows[r].folio # None /\ rows[r].value \in Nat
  BY RowsStay, SumFacts DEF Existing
<1>3. Charged' = Charged
  <2>1. ASSUME NEW c \in Charges PROVE rows'[c].folio = rows[c].folio
    BY <1>1, <1>2, Apart DEF Kept
  <2>2. \A c : c \in Charged' <=> c \in Charged
    BY <2>1, InLive
  <2> QED
    BY <2>2
<1>4. L' = Z
  <2>1. ASSUME NEW r PROVE r \in L' <=> r \in Z
    <3>1. CASE r \in {s, m} \cup P
      <4>1. r \in P => r # s /\ r # m /\ r \in Existing
        BY <1>1
      <4>2. r \in Z <=> r = s
        BY <3>1, <1>1
      <4>3. s \in L'
        BY <1>1, <1>2, InLive
      <4>4. r # s => r \notin L'
        BY <3>1, <4>1, <1>1, InLive
      <4> QED
        BY <4>2, <4>3, <4>4
    <3>2. CASE r \in Rows \ ({s, m} \cup P)
      BY <3>2, <1>1, InLive DEF Kept
    <3>3. CASE r \notin Rows
      BY <3>3, <1>1, <1>2, InLive
    <3> QED
      BY <3>1, <3>2, <3>3
  <2> QED
    BY <2>1
<1>5. /\ L \in SUBSET Existing /\ s \in Existing \ L /\ m \in L /\ P \in SUBSET (L \ {m})
      /\ v \in Nat
  BY <1>1, <1>2, InLive
<1>6. SumAfter(Charged) = Sum(Charged)
  BY InLive, NextFacts
<1>7. Sum(L)' = SumAfter(L') /\ Sum(Charged)' = SumAfter(Charged')
  BY InLive
<1>8. Sum(L) + Sum(LostRows) = Sum(Charged) /\ Sum(LostRows) \in Nat
  BY LostSums DEF AmountsConserved
<1>9. SUFFICES Sum(L)' + Sum(LostRows)' = Sum(L) + Sum(LostRows)
  BY <1>3, <1>6, <1>7, <1>8 DEF AmountsConserved
<1> HIDE DEF L
<1>10. CASE rows[s].value = rows[m].value + v /\ LostRows' = LostRows
  <2>1. SumAfter(Z) = Sum(L)
    BY <1>1, <1>5, <1>10, SumReturned
  <2>2. Sum(LostRows)' = Sum(LostRows)
    BY <1>10, LostSums
  <2> QED
    BY <2>1, <2>2, <1>4, <1>7
<1>11. ASSUME P = {}
       PROVE  /\ Sum(L)' = Sum(L) - rows[m].value + rows[s].value
              /\ Sum(L) \in Nat /\ rows[m].value \in Nat /\ rows[s].value \in Nat
  <2>1. Z = (L \ {m}) \cup {s}
    BY <1>11
  <2>2. s \in Rows \ L /\ rows'[s].value = rows[s].value
    BY <1>2, <1>5, RowsStay
  <2>3. SumAfter((L \ {m}) \cup {s}) = Sum(L) - rows[m].value + rows'[s].value
    BY <1>5, <2>2, SumReplaced
  <2>4. Sum(L)' = Sum(L) - rows[m].value + rows[s].value
    BY <2>1, <2>2, <2>3, <1>4, <1>7
  <2> QED
    BY <2>4, <1>1, <1>2, <1>5, SumFacts
<1>12. ASSUME P = {}, NEW x \in Existing \ LostRows,
              rows[m].value = rows[s].value + rows[x].value, LostRows' = LostRows \cup {x}
       PROVE  Sum(L)' + Sum(LostRows)' = Sum(L) + Sum(LostRows)
  <2>1. Sum(LostRows)' = Sum(LostRows) + rows[x].value /\ rows[x].value \in Nat
    BY <1>12, LostSums
  <2> QED
    BY <2>1, <1>8, <1>11, <1>12
<1>13. ASSUME P = {}, NEW x \in LostRows,
              rows[s].value = rows[m].value + rows[x].value, LostRows' = LostRows \ {x}
       PROVE  Sum(L)' + Sum(LostRows)' = Sum(L) + Sum(LostRows)
  <2>1. Sum(LostRows)' = Sum(LostRows) - rows[x].value /\ rows[x].value \in 1..Sum(LostRows)
    BY <1>13, LostSums
  <2>2. rows[x].value \in Nat
    BY <2>1, <1>8
  <2> QED
    BY <2>1, <2>2, <1>8, <1>11, <1>13
<1> QED
  BY <1>0, <1>10, <1>12, <1>13

LEMMA ConservedStep ==
    ASSUME IInv, IInv', LineInv, Books, Effect, AmountsConserved
    PROVE  AmountsConserved'
<1>1. ASSUME Others({}), UNCHANGED transfers PROVE AmountsConserved'
  <2>1. /\ \A r : r \in (Live \ PosCharges)' <=> r \in Live \ PosCharges
        /\ \A r : r \in Charged' <=> r \in Charged
    BY <1>1, InLive, Apart DEF Others, Kept
  <2>2. (Live \ PosCharges)' = Live \ PosCharges /\ Charged' = Charged
    BY <2>1
  <2> QED
    BY <1>1, <2>2, SameSums
<1>2. ASSUME NEW i \in Invoice, NEW link, Linking(i, link) PROVE AmountsConserved'
  <2>1. \A r \in Rows : /\ rows'[r].folio = rows[r].folio
                        /\ r \notin PosCharges => rows'[r].void = rows[r].void
    BY <1>2 DEF Linking, Others, Kept
  <2>2. /\ \A r : r \in (Live \ PosCharges)' <=> r \in Live \ PosCharges
        /\ \A r : r \in Charged' <=> r \in Charged
    BY <2>1, InLive, Apart
  <2>3. (Live \ PosCharges)' = Live \ PosCharges /\ Charged' = Charged
    BY <2>2
  <2>4. UNCHANGED transfers
    BY <1>2 DEF Linking
  <2> QED
    BY <2>3, <2>4, SameSums
<1>3. CASE Quiet
  BY <1>1, <1>3 DEF Quiet
<1>4. ASSUME NEW i \in Invoice, NEW f \in Folios, Billing(i, f) PROVE AmountsConserved'
  BY <1>2, <1>4 DEF Billing
<1>5. ASSUME NEW i \in Active, Releasing(i) PROVE AmountsConserved'
  <2>1. i \in Invoice
    BY DEF IInv, TypeOK, Active
  <2> QED
    BY <2>1, <1>2, <1>5 DEF Releasing
<1>6. ASSUME NEW c \in Charges, NEW f \in Folios, Posting(c, f) PROVE AmountsConserved'
  BY <1>6, PostingConserves
<1>7. ASSUME NEW k \in Transfers, NEW s \in Rows, NEW f \in Folios, NEW v \in Nat, Moving(k, s, f, v)
      PROVE  AmountsConserved'
  BY <1>7, MovingConserves
<1>8. ASSUME NEW k \in Transfers, NEW t \in Transfers, Returning(k, t) PROVE AmountsConserved'
  BY <1>8, ReturningConserves
<1> QED
  BY <1>3, <1>4, <1>5, <1>6, <1>7, <1>8 DEF Effect

LEMMA InitConserved == Init => AmountsConserved
<1> SUFFICES ASSUME Init PROVE AmountsConserved
  OBVIOUS
<1>1. Live \ PosCharges = {} /\ Charged = {}
  BY Apart DEF Init, Live, Charged, NoRow
<1>2. LostRows = {}
  BY DEF Init, NoTransfer, LostRows, Forgotten
<1>3. Sum({}) = 0
  BY SumEmpty DEF Sum
<1> QED
  BY <1>1, <1>2, <1>3 DEF AmountsConserved

LEMMA AlwaysConserved ==
    ASSUME ReconcilesAtRepeatableRead
    PROVE  Spec => [](IInv /\ BooksInv /\ AmountsConserved)
<1>1. Init => IInv /\ BooksInv /\ AmountsConserved
  BY InitIInv, InitBooks, InitConserved
<1>2. IInv /\ BooksInv /\ AmountsConserved /\ [Next]_vars
          => (IInv /\ BooksInv /\ AmountsConserved)'
  <2> SUFFICES ASSUME IInv, BooksInv, AmountsConserved, [Next]_vars
               PROVE  (IInv /\ BooksInv /\ AmountsConserved)'
    OBVIOUS
  <2>1. IInv' /\ Effect /\ BooksInv'
    BY NextIInv, NextEffect, NextBooks
  <2> QED
    BY <2>1, ConservedStep DEF BooksInv
<1> QED
  BY <1>1, <1>2, PTL DEF Spec

(* Transfers, splits, reversals and reversals of reversals make no money and lose    *)
(* none but the remainders of splits that are forgotten: with these, what is not     *)
(* void is worth as much as the charges that were posted.                            *)
THEOREM AmountsAreConserved ==
    ASSUME ReconcilesAtRepeatableRead
    PROVE  Spec => []AmountsConserved
BY AlwaysConserved, PTL
-----------------------------------------------------------------------------
(* What is open and billed before and after a step. *)

LEMMA OpenSums ==
    ASSUME IInv, IInv', Books, Effect, NEW g \in Folios
    PROVE  /\ OpenAmounts[g] = Sum(OpenRows(g)) /\ OpenAmounts[g] \in Nat
           /\ OpenAmounts'[g] = SumAfter(OpenRows(g)')
           /\ SumAfter(OpenRows(g)) = Sum(OpenRows(g))
           /\ OpenRows(g) \in SUBSET Existing
<1>1. OpenRows(g) \in SUBSET Existing /\ Sum(OpenRows(g))' = SumAfter(OpenRows(g)')
  BY InOpen
<1>2. Sum(OpenRows(g)) \in Nat /\ SumAfter(OpenRows(g)) = Sum(OpenRows(g))
  BY <1>1, SumFacts, NextFacts
<1>3. OpenAmounts[g] = Sum(OpenRows(g)) /\ OpenAmounts'[g] = Sum(OpenRows(g))'
  BY DEF OpenAmounts
<1> QED
  BY <1>1, <1>2, <1>3

LEMMA OpenIsAFunction ==
    /\ OpenAmounts = [g \in Folios |-> OpenAmounts[g]]
    /\ OpenAmounts' = [g \in Folios |-> OpenAmounts'[g]]
BY DEF OpenAmounts

LEMMA OpenStays ==
    ASSUME IInv, IInv', Books, Effect, NEW g \in Folios,
           \A r \in Rows : rows[r].folio = g \/ rows'[r].folio = g => Kept(r)
    PROVE  OpenAmounts'[g] = OpenAmounts[g]
<1>1. \A r : r \in OpenRows(g)' <=> r \in OpenRows(g)
  BY InOpen DEF Kept
<1>2. OpenRows(g)' = OpenRows(g)
  BY <1>1
<1> QED
  BY <1>2, OpenSums

OnFolio(i, g) == {r \in i.rows : rows[r].folio = g}

Bills(g) == [i \in Active |-> Sum(OnFolio(i, g))]

BillsAfter(g) == [i \in Active' |-> SumAfter(OnFolio(i, g)')]

LEMMA BilledSums ==
    ASSUME NEW g \in Folios
    PROVE  /\ BilledAmounts[g] = SumFunctionOnSet(Bills(g), Active)
           /\ BilledAmounts'[g] = SumFunctionOnSet(BillsAfter(g), Active')
<1>1. BilledAmounts[g] = SumFunctionOnSet(Bills(g), Active)
  BY DEF BilledAmounts, Bills, OnFolio
<1>2. \A i : Sum(OnFolio(i, g))' = SumAfter(OnFolio(i, g)')
  BY DEF Sum, SumAfter
<1>3. BilledAmounts'[g] = SumFunctionOnSet([i \in Active' |-> Sum(OnFolio(i, g))'], Active')
  BY DEF BilledAmounts, OnFolio
<1>4. [i \in Active' |-> Sum(OnFolio(i, g))'] = BillsAfter(g)
  BY <1>2 DEF BillsAfter
<1> QED
  BY <1>1, <1>3, <1>4

LEMMA BilledIsAFunction ==
    /\ BilledAmounts = [g \in Folios |-> BilledAmounts[g]]
    /\ BilledAmounts' = [g \in Folios |-> BilledAmounts'[g]]
BY DEF BilledAmounts

LEMMA BilledRows ==
    ASSUME IInv, NEW i \in Active
    PROVE  /\ i \in Invoice /\ i.rows \in SUBSET Existing
           /\ \A r \in i.rows : /\ r \in Rows \ PosCharges /\ rows[r].invoice = i
                                /\ ~rows[r].void /\ rows[r].folio \in Folios
<1>1. i \in Invoice /\ i.rows \subseteq Rows /\ i # None
  BY Apart DEF IInv, TypeOK, Active, Invoice
<1>2. ASSUME NEW r \in i.rows
      PROVE  /\ r \in Rows \ PosCharges /\ rows[r].invoice = i /\ ~rows[r].void
             /\ rows[r].folio \in Folios /\ r \in Existing
  <2>1. rows[r].invoice = i /\ ~rows[r].void /\ r \in Rows \ PosCharges
    BY <1>1 DEF IInv, Links
  <2>2. rows[r].folio \in Folios
    <3>1. rows[r] \in Row
      BY <2>1, <1>1, RowFacts DEF IInv, TypeOK
    <3> QED
      BY <3>1 DEF Row
  <2> QED
    BY <2>1, <2>2, Apart DEF Existing
<1> QED
  BY <1>1, <1>2

(* An invoice bills the same before and after a step. *)
LEMMA OnFolioStays ==
    ASSUME IInv, IInv', Books, Effect, NEW i \in Invoice, i.rows \subseteq Existing,
           NEW g \in Folios
    PROVE  /\ OnFolio(i, g)' = OnFolio(i, g) /\ OnFolio(i, g) \in SUBSET Existing
           /\ SumAfter(OnFolio(i, g)') = Sum(OnFolio(i, g)) /\ Sum(OnFolio(i, g)) \in Nat
<1>1. \A r \in i.rows : rows'[r].folio = rows[r].folio
  BY RowsStay DEF Existing
<1>2. OnFolio(i, g)' = OnFolio(i, g) /\ OnFolio(i, g) \in SUBSET Existing
  BY <1>1 DEF OnFolio
<1> QED
  BY <1>2, NextFacts

LEMMA BillsStay ==
    ASSUME IInv, IInv', Books, Effect, NEW g \in Folios
    PROVE  /\ \A i \in Active : Bills(g)[i] \in Nat
           /\ \A i \in Active \cap Active' : BillsAfter(g)[i] = Bills(g)[i]
<1>1. ASSUME NEW i \in Active
      PROVE  Bills(g)[i] = Sum(OnFolio(i, g)) /\ i \in Invoice /\ i.rows \subseteq Existing
  BY BilledRows DEF Bills
<1>2. \A i \in Active' : BillsAfter(g)[i] = SumAfter(OnFolio(i, g)')
  BY DEF BillsAfter
<1> QED
  BY <1>1, <1>2, OnFolioStays

LEMMA BilledStays ==
    ASSUME IInv, IInv', Books, Effect, Active' = Active
    PROVE  BilledAmounts' = BilledAmounts
<1>1. ASSUME NEW g \in Folios PROVE BilledAmounts'[g] = BilledAmounts[g]
  <2>1. \A i \in Active : Bills(g)[i] \in Int /\ BillsAfter(g)[i] = Bills(g)[i]
    BY BillsStay
  <2>2. IsFiniteSet(Active)
    BY DEF Books
  <2>3. SumFunctionOnSet(BillsAfter(g), Active) = SumFunctionOnSet(Bills(g), Active)
    BY <2>1, <2>2, SumSame
  <2> QED
    BY <2>3, BilledSums
<1> QED
  BY <1>1, BilledIsAFunction
-----------------------------------------------------------------------------
(* Every step is one of the ledger, or changes nothing in it. *)

Stutters ==
    /\ Charged' = Charged /\ OpenAmounts' = OpenAmounts /\ BilledAmounts' = BilledAmounts
    /\ Sum(LostRows)' = Sum(LostRows)

LEMMA ChargedStays ==
    ASSUME \A c \in Charges : rows'[c].folio = rows[c].folio
    PROVE  Charged' = Charged
<1>1. \A c : c \in Charged' <=> c \in Charged
  BY InLive
<1> QED
  BY <1>1

LEMMA QuietStutters ==
    ASSUME IInv, IInv', LineInv, Books, Effect, Others({}), UNCHANGED transfers,
           Active' = Active
    PROVE  Stutters
<1>1. \A r \in Rows : Kept(r)
  BY DEF Others
<1>2. Charged' = Charged
  BY <1>1, ChargedStays, Apart DEF Kept
<1>3. OpenAmounts' = OpenAmounts
  BY <1>1, OpenStays, OpenIsAFunction
<1> QED
  BY <1>2, <1>3, BilledStays, LostStays, LostSums DEF Stutters

LEMMA PosPostingStutters ==
    ASSUME IInv, IInv', LineInv, Books, Effect,
           NEW c \in PosCharges, NEW f \in Folios, Posting(c, f)
    PROVE  Stutters
<1>1. \A r \in Rows \ {c} : Kept(r)
  BY DEF Posting, Others
<1>2. Charged' = Charged
  <2>1. \A d : d \in Charged' <=> d \in Charged
    BY <1>1, InLive, Apart DEF Kept
  <2> QED
    BY <2>1
<1>3. ASSUME NEW g \in Folios PROVE OpenAmounts'[g] = OpenAmounts[g]
  <2>1. \A r : r \in OpenRows(g)' <=> r \in OpenRows(g)
    BY <1>1, InOpen DEF Kept
  <2>2. OpenRows(g)' = OpenRows(g)
    BY <2>1
  <2> QED
    BY <2>2, OpenSums
<1>4. OpenAmounts' = OpenAmounts
  BY <1>3, OpenIsAFunction
<1> QED
  BY <1>2, <1>4, BilledStays, LostStays, LostSums DEF Stutters, Posting

LEMMA PostingPosts ==
    ASSUME IInv, IInv', LineInv, Books, Effect,
           NEW c \in Charges \ PosCharges, NEW f \in Folios, Posting(c, f)
    PROVE  OpenAmounts' # OpenAmounts /\ Ledger!Post(f, c)
<1>1. /\ \A r \in Rows \ {c} : Kept(r)
      /\ rows[c].folio = None /\ rows'[c].folio = f /\ rows'[c].value = Worth[c]
      /\ ~rows'[c].void /\ rows'[c].invoice = None
      /\ c \in Rows /\ c \notin PosCharges /\ f # None /\ Worth[c] \in Nat \ {0}
      /\ Active' = Active
  BY Apart, FolioAssumption DEF Posting, Others, Enters
<1>2. c \notin Charged /\ Charged' = Charged \cup {c}
  <2>1. \A d : d \in Charged' <=> d \in Charged \/ d = c
    BY <1>1, InLive, Apart DEF Kept
  <2> QED
    BY <2>1, <1>1, InLive
<1>3. OpenAmounts'[f] = OpenAmounts[f] + Worth[c]
  <2>1. \A r : r \in OpenRows(f)' <=> r \in OpenRows(f) \/ r = c
    BY <1>1, InOpen DEF Kept
  <2>2. OpenRows(f)' = OpenRows(f) \cup {c}
    BY <2>1
  <2>3. OpenRows(f) \in SUBSET Existing /\ c \in Rows \ OpenRows(f)
    BY <1>1, InOpen
  <2>4. SumAfter(OpenRows(f) \cup {c}) = Sum(OpenRows(f)) + rows'[c].value
    BY <2>3, SumEntered
  <2> QED
    BY <2>2, <2>4, <1>1, OpenSums
<1>4. ASSUME NEW g \in Folios \ {f} PROVE OpenAmounts'[g] = OpenAmounts[g]
  <2>1. \A r \in Rows : rows[r].folio = g \/ rows'[r].folio = g => Kept(r)
    BY <1>1, Apart
  <2> QED
    BY <2>1, OpenStays
<1>5. OpenAmounts' = [OpenAmounts EXCEPT ![f] = @ + Worth[c]]
  BY <1>3, <1>4, OpenIsAFunction
<1>6. OpenAmounts' # OpenAmounts
  <2>1. OpenAmounts[f] \in Nat
    BY OpenSums
  <2> QED
    BY <2>1, <1>1, <1>3
<1>7. BilledAmounts' = BilledAmounts
  BY <1>1, BilledStays
<1>8. Sum(LostRows)' = Sum(LostRows)
  BY LostStays, LostSums DEF Posting
<1> QED
  BY <1>2, <1>5, <1>6, <1>7, <1>8 DEF Ledger!Post

(* Money goes from folio f to folio g. *)
LEMMA MoneyMoves ==
    ASSUME IInv, IInv', Books, Effect, Active' = Active,
           NEW f \in Folios, NEW g \in Folios \ {f}, NEW v \in 1..OpenAmounts[f],
           Charged' = Charged, Sum(LostRows)' = Sum(LostRows),
           OpenAmounts'[f] = OpenAmounts[f] - v, OpenAmounts'[g] = OpenAmounts[g] + v,
           \A h \in Folios \ {f, g} : OpenAmounts'[h] = OpenAmounts[h]
    PROVE  OpenAmounts' # OpenAmounts /\ Ledger!Move(f, g)
<1>1. OpenAmounts' = [OpenAmounts EXCEPT ![f] = @ - v, ![g] = @ + v]
  BY OpenIsAFunction
<1>2. OpenAmounts[f] \in Nat
  BY OpenSums
<1>3. OpenAmounts'[f] # OpenAmounts[f]
  BY <1>2
<1>4. BilledAmounts' = BilledAmounts
  BY BilledStays
<1> QED
  BY <1>1, <1>3, <1>4 DEF Ledger!Move

LEMMA MovingMoves ==
    ASSUME IInv, IInv', LineInv, Books, Effect,
           NEW k \in Transfers, NEW s \in Rows, NEW f \in Folios, NEW v \in Nat,
           Moving(k, s, f, v), NEW e \in Folios, e = rows[s].folio
    PROVE  OpenAmounts' # OpenAmounts /\ Ledger!Move(e, f)
<1> DEFINE m == <<k, "moved">>
           x == <<k, "rest">>
<1>1. /\ s \in Existing /\ m \in Rows \ Existing /\ x \in Rows \ Existing /\ m # x
      /\ m \notin Charges /\ x \notin Charges
      /\ s \notin PosCharges /\ ~rows[s].void /\ rows'[s].void
      /\ rows[s].invoice = None /\ e \in Folios \ {f}
      /\ v \in 1..rows[s].value
      /\ rows'[m].value = v /\ rows'[m].folio = f
      /\ ~rows'[m].void /\ rows'[m].invoice = None
      /\ v = rows[s].value => rows'[x].folio = None
      /\ v # rows[s].value => /\ v < rows[s].value
                              /\ rows'[x].value = rows[s].value - v
                              /\ rows'[x].folio = e
                              /\ ~rows'[x].void /\ rows'[x].invoice = None
      /\ \A r \in Rows \ {s, m, x} : Kept(r)
  BY MovingParts
<1>2. rows'[s].folio = e /\ rows[m].folio = None /\ rows[x].folio = None
  BY <1>1, RowsStay, Apart DEF Existing
<1> HIDE DEF m, x
<1>3. m \notin PosCharges /\ x \notin PosCharges /\ f # None /\ e # None
  BY <1>1, FolioAssumption, Apart
<1>4. Charged' = Charged
  <2>1. ASSUME NEW c \in Charges PROVE rows'[c].folio = rows[c].folio
    BY <1>1, <1>2, Apart DEF Kept
  <2> QED
    BY <2>1, ChargedStays
<1>5. OpenAmounts'[f] = OpenAmounts[f] + v
  <2>1. \A r : r \in OpenRows(f)' <=> r \in OpenRows(f) \/ r = m
    <3>1. ASSUME NEW r \in {s, m, x} PROVE r \in OpenRows(f)' <=> r \in OpenRows(f) \/ r = m
      BY <1>1, <1>2, <1>3, InOpen
    <3>2. ASSUME NEW r \in Rows \ {s, m, x} PROVE r \in OpenRows(f)' <=> r \in OpenRows(f)
      BY <1>1, InOpen DEF Kept
    <3>3. ASSUME NEW r, r \notin Rows PROVE r \notin OpenRows(f)' /\ r \notin OpenRows(f)
      BY <3>3, InOpen
    <3> QED
      BY <3>1, <3>2, <3>3, <1>1
  <2>2. OpenRows(f)' = OpenRows(f) \cup {m}
    BY <2>1
  <2>3. OpenRows(f) \in SUBSET Existing /\ m \in Rows \ OpenRows(f)
    BY <1>1, InOpen
  <2>4. SumAfter(OpenRows(f) \cup {m}) = Sum(OpenRows(f)) + rows'[m].value
    BY <2>3, SumEntered
  <2> QED
    BY <2>2, <2>4, <1>1, OpenSums
<1>6. OpenAmounts'[e] = OpenAmounts[e] - v /\ v \in 1..OpenAmounts[e]
  <2> DEFINE O == OpenRows(e)
             P == IF v = rows[s].value THEN {} ELSE {x}
  <2>1. \A r : r \in OpenRows(e)' <=> (r \in O /\ r # s) \/ r \in P
    <3>1. ASSUME NEW r \in {s, m, x} PROVE r \in OpenRows(e)' <=> (r \in O /\ r # s) \/ r \in P
      BY <1>1, <1>2, <1>3, InOpen
    <3>2. ASSUME NEW r \in Rows \ {s, m, x} PROVE r \in OpenRows(e)' <=> r \in O
      BY <1>1, InOpen DEF Kept
    <3>3. ASSUME NEW r, r \notin Rows PROVE r \notin OpenRows(e)' /\ r \notin O
      BY <3>3, <1>1, InOpen
    <3> QED
      BY <3>1, <3>2, <3>3, <1>1
  <2>2. /\ O \in SUBSET Existing /\ x \in Rows \ O /\ s \in O
    BY <1>1, InOpen
  <2>3. /\ Sum(O) \in Nat /\ rows[s].value \in Nat /\ rows[s].value <= Sum(O)
    BY <2>2, SumFacts
  <2>4. OpenAmounts[e] = Sum(O) /\ OpenAmounts'[e] = SumAfter(OpenRows(e)')
    BY <1>1, OpenSums
  <2>5. CASE v = rows[s].value
    <3>1. OpenRows(e)' = O \ {s}
      BY <2>1, <2>5
    <3>2. SumAfter(O \ {s}) = Sum(O) - rows[s].value
      BY <2>2, SumLeft
    <3> QED
      BY <3>1, <3>2, <2>3, <2>4, <2>5, <1>1
  <2>6. CASE v # rows[s].value
    <3>1. OpenRows(e)' = (O \ {s}) \cup {x}
      BY <2>1, <2>6
    <3>2. SumAfter((O \ {s}) \cup {x}) = Sum(O) - rows[s].value + rows'[x].value
      BY <2>2, SumReplaced
    <3> QED
      BY <3>1, <3>2, <2>3, <2>4, <2>6, <1>1
  <2> QED
    BY <2>5, <2>6
<1>7. ASSUME NEW h \in Folios \ {e, f} PROVE OpenAmounts'[h] = OpenAmounts[h]
  <2>1. \A r \in Rows : rows[r].folio = h \/ rows'[r].folio = h => Kept(r)
    BY <1>1, <1>2, Apart
  <2> QED
    BY <2>1, OpenStays
<1>8. Active' = Active /\ e \in Folios /\ f \in Folios \ {e}
  BY <1>1 DEF Moving
<1>9. Sum(LostRows)' = Sum(LostRows)
  BY MovingLoses, LostSums
<1> QED
  BY <1>4, <1>5, <1>6, <1>7, <1>8, <1>9, MoneyMoves

LEMMA ReturningOpens ==
    ASSUME IInv, IInv', LineInv, Books, Effect,
           NEW k \in Transfers, NEW t \in Transfers, Returning(k, t),
           NEW s, NEW m, s = transfers[t].source, m = transfers[t].moved,
           NEW e \in Folios, NEW g \in Folios, e = rows[m].folio, g = rows[s].folio
    PROVE  /\ e # g /\ rows[m].value \in 1..OpenAmounts[e] /\ rows[s].value \in Nat \ {0}
           /\ OpenAmounts'[e] = OpenAmounts[e] - rows[m].value
           /\ OpenAmounts'[g] = OpenAmounts[g] - RestValue(t) + rows[s].value
           /\ \A h \in Folios \ {e, g} : OpenAmounts'[h] = OpenAmounts[h]
           /\ Charged' = Charged /\ Active' = Active /\ RestValue(t) \in Nat
<1> DEFINE P == {transfers[t].rest} \ {None}
           v == RestValue(t)
<1>1. /\ s \in Existing /\ m \in Existing /\ P \subseteq Existing
      /\ s # m /\ s \notin P /\ m \notin P
      /\ s \notin PosCharges /\ m \notin PosCharges /\ P \cap PosCharges = {}
      /\ rows[s].void /\ ~rows'[s].void
      /\ ~rows[m].void /\ rows'[m].void
      /\ \A r \in P : ~rows[r].void /\ rows'[r].void /\ rows[r].invoice = None
      /\ rows[s].invoice = None /\ rows'[s].invoice = None /\ rows[m].invoice = None
      /\ \A r \in P : rows[r].folio = g
      /\ g # e
      /\ \A r \in Rows \ ({s, m} \cup P) : Kept(r)
      /\ P = {} => v = 0
      /\ \A r \in P : P = {r} /\ v = rows[r].value
  BY ReturningParts
<1> HIDE DEF P, v
<1>2. \A r \in Existing : /\ r \in Rows /\ rows'[r].folio = rows[r].folio
                          /\ rows'[r].value = rows[r].value
                          /\ rows[r].folio # None /\ rows[r].value \in Nat \ {0}
  BY RowsStay, SumFacts DEF Existing
<1>3. Charged' = Charged
  <2>1. ASSUME NEW c \in Charges PROVE rows'[c].folio = rows[c].folio
    BY <1>1, <1>2, Apart DEF Kept
  <2> QED
    BY <2>1, ChargedStays
<1>4. \A h \in Folios : \A r : r \in Rows \ ({s, m} \cup P) \/ r \notin Rows =>
          (r \in OpenRows(h)' <=> r \in OpenRows(h))
  BY <1>1, InOpen DEF Kept
<1>5. OpenAmounts'[e] = OpenAmounts[e] - rows[m].value /\ rows[m].value \in 1..OpenAmounts[e]
  <2>1. \A r \in {s, m} \cup P : r \in OpenRows(e)' <=> r \in OpenRows(e) /\ r # m
    BY <1>1, <1>2, InOpen
  <2>2. m \in Rows
    BY <1>1, <1>2
  <2>3. OpenRows(e)' = OpenRows(e) \ {m}
    <3>1. \A r : r \in OpenRows(e)' <=> r \in OpenRows(e) /\ r # m
      BY <1>4, <2>1, <2>2
    <3> QED
      BY <3>1
  <2>4. m \in OpenRows(e) /\ OpenRows(e) \in SUBSET Existing
    BY <1>1, <2>2, InOpen
  <2>5. SumAfter(OpenRows(e) \ {m}) = Sum(OpenRows(e)) - rows[m].value
    BY <2>4, SumLeft
  <2>6. /\ Sum(OpenRows(e)) \in Nat /\ rows[m].value \in Nat \ {0}
        /\ rows[m].value <= Sum(OpenRows(e))
    BY <2>4, SumFacts
  <2>7. OpenAmounts[e] = Sum(OpenRows(e)) /\ OpenAmounts'[e] = SumAfter(OpenRows(e)')
    BY OpenSums
  <2>8. OpenAmounts'[e] = Sum(OpenRows(e)) - rows[m].value
    BY <2>3, <2>5, <2>7
  <2> QED
    BY <2>6, <2>7, <2>8
<1>6. OpenAmounts'[g] = OpenAmounts[g] - v + rows[s].value
  <2>1. /\ s \in OpenRows(g)' /\ m \notin OpenRows(g)' /\ m \notin OpenRows(g)
        /\ \A r \in P : r \notin OpenRows(g)' /\ r \in OpenRows(g)
    BY <1>1, <1>2, InOpen
  <2>2. /\ OpenRows(g) \in SUBSET Existing /\ s \in Rows \ OpenRows(g) /\ P \in SUBSET OpenRows(g)
        /\ m \in Rows /\ P \subseteq Rows
    BY <1>1, <1>2, <2>1, InOpen
  <2>3. OpenRows(g)' = (OpenRows(g) \ P) \cup {s}
    <3>1. \A r : r \in OpenRows(g)' <=> (r \in OpenRows(g) /\ r \notin P) \/ r = s
      BY <1>4, <2>1
    <3> QED
      BY <3>1
  <2>4. /\ Sum(OpenRows(g)) \in Nat /\ rows'[s].value = rows[s].value
        /\ rows[s].value \in Nat /\ rows[m].value \in Nat
    BY <1>1, <1>2, <2>2, SumFacts
  <2>5. OpenAmounts[g] = Sum(OpenRows(g)) /\ OpenAmounts'[g] = SumAfter(OpenRows(g)')
    BY OpenSums
  <2>6. CASE P = {}
    <3>1. OpenRows(g)' = OpenRows(g) \cup {s}
      BY <2>3, <2>6
    <3>2. SumAfter(OpenRows(g) \cup {s}) = Sum(OpenRows(g)) + rows'[s].value
      BY <2>2, SumEntered
    <3>3. OpenAmounts'[g] = Sum(OpenRows(g)) + rows[s].value
      BY <3>1, <3>2, <2>4, <2>5
    <3> QED
      BY <3>3, <2>4, <2>6, <2>5, <1>1
  <2>7. CASE P # {}
    <3>1. PICK x \in P : P = {x} /\ v = rows[x].value
      BY <2>7, <1>1
    <3>2. x \in OpenRows(g) /\ rows[x].value \in Nat
      BY <3>1, <2>2, SumFacts
    <3>3. SumAfter((OpenRows(g) \ {x}) \cup {s}) = Sum(OpenRows(g)) - rows[x].value + rows'[s].value
      BY <3>2, <2>2, SumReplaced
    <3>4. OpenRows(g)' = (OpenRows(g) \ {x}) \cup {s}
      BY <3>1, <2>3
    <3>5. OpenAmounts'[g] = Sum(OpenRows(g)) - rows[x].value + rows[s].value
      BY <3>3, <3>4, <2>4, <2>5
    <3> QED
      BY <3>1, <3>2, <3>5, <2>4, <2>5, <1>1
  <2> QED
    BY <2>6, <2>7
<1>7. ASSUME NEW h \in Folios \ {e, g} PROVE OpenAmounts'[h] = OpenAmounts[h]
  <2>1. \A r \in Rows : rows[r].folio = h \/ rows'[r].folio = h => Kept(r)
    BY <1>1, <1>2
  <2> QED
    BY <2>1, OpenStays
<1>8. Active' = Active
  BY DEF Returning
<1>9. v \in Nat
  BY <1>1, <1>2
<1> QED
  BY <1>1, <1>2, <1>3, <1>5, <1>6, <1>7, <1>8, <1>9 DEF v

LEMMA ReturningMoves ==
    ASSUME IInv, IInv', LineInv, Books, Effect,
           NEW k \in Transfers, NEW t \in Transfers, Returning(k, t),
           NEW s, NEW m, s = transfers[t].source, m = transfers[t].moved,
           NEW e \in Folios, NEW g \in Folios, e = rows[m].folio, g = rows[s].folio
    PROVE  /\ OpenAmounts' # OpenAmounts
           /\ Ledger!Move(e, g) \/ Ledger!Forget(e, g) \/ Ledger!Recall(e, g)
<1>1. /\ e # g /\ rows[m].value \in 1..OpenAmounts[e] /\ rows[s].value \in Nat \ {0}
      /\ OpenAmounts'[e] = OpenAmounts[e] - rows[m].value
      /\ OpenAmounts'[g] = OpenAmounts[g] - RestValue(t) + rows[s].value
      /\ \A h \in Folios \ {e, g} : OpenAmounts'[h] = OpenAmounts[h]
      /\ Charged' = Charged /\ Active' = Active /\ RestValue(t) \in Nat
  BY ReturningOpens
<1>2. OpenAmounts[e] \in Nat /\ OpenAmounts[g] \in Nat
  BY OpenSums
<1>3. OpenAmounts' # OpenAmounts
  <2>1. OpenAmounts'[e] # OpenAmounts[e]
    BY <1>1, <1>2
  <2> QED
    BY <2>1
<1>4. BilledAmounts' = BilledAmounts
  BY <1>1, BilledStays
<1>5. CASE rows[s].value = rows[m].value + RestValue(t) /\ LostRows' = LostRows
  <2>1. OpenAmounts'[g] = OpenAmounts[g] + rows[m].value
    BY <1>1, <1>2, <1>5
  <2>2. Sum(LostRows)' = Sum(LostRows)
    BY <1>5, LostSums
  <2> QED
    BY <2>1, <2>2, <1>1, MoneyMoves
<1>6. ASSUME transfers[t].rest = None, NEW x \in Existing \ LostRows,
             rows[m].value = rows[s].value + rows[x].value, LostRows' = LostRows \cup {x}
      PROVE  Ledger!Forget(e, g)
  <2>1. rows[x].value \in Nat \ {0} /\ Sum(LostRows)' = Sum(LostRows) + rows[x].value
    BY <1>6, LostSums
  <2>2. RestValue(t) = 0
    BY <1>6 DEF RestValue
  <2>3. OpenAmounts'[g] = OpenAmounts[g] + (rows[m].value - rows[x].value)
    BY <1>1, <1>2, <1>6, <2>1, <2>2
  <2>4. rows[x].value \in 1..(rows[m].value - 1)
    BY <1>1, <1>6, <2>1
  <2>5. OpenAmounts' = [OpenAmounts EXCEPT ![e] = @ - rows[m].value,
                                           ![g] = @ + (rows[m].value - rows[x].value)]
    BY <1>1, <2>3, OpenIsAFunction
  <2> QED
    BY <1>1, <1>4, <2>1, <2>4, <2>5 DEF Ledger!Forget
<1>7. ASSUME transfers[t].rest = None, NEW x \in LostRows,
             rows[s].value = rows[m].value + rows[x].value, LostRows' = LostRows \ {x}
      PROVE  Ledger!Recall(e, g)
  <2>1. rows[x].value \in 1..Sum(LostRows) /\ Sum(LostRows)' = Sum(LostRows) - rows[x].value
    BY <1>7, LostSums
  <2>2. RestValue(t) = 0
    BY <1>7 DEF RestValue
  <2>3. OpenAmounts'[g] = OpenAmounts[g] + (rows[m].value + rows[x].value)
    BY <1>1, <1>2, <1>7, <2>1, <2>2
  <2>4. OpenAmounts' = [OpenAmounts EXCEPT ![e] = @ - rows[m].value,
                                           ![g] = @ + (rows[m].value + rows[x].value)]
    BY <1>1, <2>3, OpenIsAFunction
  <2> QED
    BY <1>1, <1>4, <2>1, <2>4 DEF Ledger!Recall
<1> QED
  BY <1>3, <1>5, <1>6, <1>7, LostChanges

LEMMA LinkingKeepsOthers ==
    ASSUME IInv, IInv', Books, Effect, NEW i \in Invoice, NEW link, Linking(i, link),
           NEW f \in Folios, \A r \in i.rows : r \in Rows /\ rows[r].folio = f
    PROVE  /\ Charged' = Charged
           /\ \A h \in Folios \ {f} : OpenAmounts'[h] = OpenAmounts[h]
<1>1. \A r \in i.rows : rows'[r].folio = f
  BY DEF Linking
<1>2. \A r \in Rows \ i.rows : Kept(r)
  BY DEF Linking, Others
<1>3. \A r \in Rows : rows'[r].folio = rows[r].folio
  BY <1>1, <1>2 DEF Kept
<1>4. Charged' = Charged
  BY <1>3, ChargedStays, Apart
<1>5. ASSUME NEW h \in Folios \ {f} PROVE OpenAmounts'[h] = OpenAmounts[h]
  <2>1. \A r \in Rows : rows[r].folio = h \/ rows'[r].folio = h => Kept(r)
    BY <1>1, <1>2
  <2> QED
    BY <2>1, OpenStays
<1> QED
  BY <1>4, <1>5

LEMMA BillingBills ==
    ASSUME IInv, IInv', LineInv, Books, Effect,
           NEW i \in Invoice, NEW f \in Folios, Billing(i, f)
    PROVE  OpenAmounts' # OpenAmounts /\ Ledger!Bill(f)
<1>1. /\ i \notin Active /\ Active' = Active \cup {i}
      /\ i.rows = OpenRows(f) /\ i.rows # {} /\ Linking(i, i)
  BY DEF Billing
<1>2. /\ OpenRows(f) \in SUBSET Existing
      /\ \A r \in i.rows : r \in Rows /\ rows[r].folio = f
  BY <1>1, InOpen
<1>3. PICK r \in i.rows : TRUE
  BY <1>1
<1>4. OpenAmounts[f] > 0
  <2>1. Sum(OpenRows(f)) \in Nat /\ rows[r].value \in Nat \ {0} /\ rows[r].value <= Sum(OpenRows(f))
    BY <1>1, <1>2, <1>3, SumFacts
  <2> QED
    BY <2>1, OpenSums
<1>5. OpenAmounts'[f] = 0
  <2>1. \A x : x \in OpenRows(f)' => FALSE
    <3>1. ASSUME NEW x, x \in OpenRows(f)' PROVE FALSE
      <4>1. x \in Rows /\ rows'[x].invoice = None
        BY <3>1, InOpen
      <4>2. x \notin i.rows
        BY <4>1, <1>1, Apart DEF Linking
      <4>3. Kept(x)
        BY <4>1, <4>2, <1>1 DEF Linking, Others
      <4>4. x \in OpenRows(f)
        BY <3>1, <4>3, InOpen DEF Kept
      <4> QED
        BY <4>2, <4>4, <1>1
    <3> QED
      BY <3>1
  <2>2. OpenRows(f)' = {}
    BY <2>1
  <2>3. SumAfter({}) = 0
    BY SumEmpty DEF SumAfter
  <2> QED
    BY <2>2, <2>3, OpenSums
<1>6. Charged' = Charged /\ \A h \in Folios \ {f} : OpenAmounts'[h] = OpenAmounts[h]
  BY <1>1, <1>2, LinkingKeepsOthers
<1>7. OpenAmounts' = [OpenAmounts EXCEPT ![f] = 0]
  BY <1>5, <1>6, OpenIsAFunction
<1>8. ASSUME NEW h \in Folios
      PROVE  BilledAmounts'[h] = IF h = f THEN BilledAmounts[h] + OpenAmounts[h] ELSE BilledAmounts[h]
  <2>1. i.rows \subseteq Existing
    BY <1>1, <1>2
  <2>2. SumAfter(OnFolio(i, h)') = Sum(OnFolio(i, h)) /\ Sum(OnFolio(i, h)) \in Nat
    BY <2>1, OnFolioStays
  <2>3. BillsAfter(h)[i] = Sum(OnFolio(i, h))
    BY <1>1, <2>2 DEF BillsAfter
  <2>4. /\ \A j \in Active : Bills(h)[j] \in Int /\ BillsAfter(h)[j] = Bills(h)[j]
        /\ \A j \in Active \cup {i} : BillsAfter(h)[j] \in Int
    BY <1>1, <2>2, <2>3, BillsStay
  <2>5. IsFiniteSet(Active)
    BY DEF Books
  <2>6. SumFunctionOnSet(BillsAfter(h), Active \cup {i})
            = BillsAfter(h)[i] + SumFunctionOnSet(BillsAfter(h), Active)
    BY <2>4, <2>5, <1>1, SumPutIn
  <2>7. /\ SumFunctionOnSet(BillsAfter(h), Active) = SumFunctionOnSet(Bills(h), Active)
        /\ SumFunctionOnSet(Bills(h), Active) \in Int
    BY <2>4, <2>5, SumSame, SumInteger
  <2>8. BilledAmounts'[h] = BilledAmounts[h] + Sum(OnFolio(i, h)) /\ BilledAmounts[h] \in Int
    <3>1. /\ BilledAmounts[h] = SumFunctionOnSet(Bills(h), Active)
          /\ BilledAmounts'[h] = SumFunctionOnSet(BillsAfter(h), Active \cup {i})
      BY <1>1, BilledSums
    <3> QED
      BY <3>1, <2>2, <2>3, <2>6, <2>7
  <2>9. CASE h = f
    <3>1. OnFolio(i, h) = OpenRows(f)
      BY <2>9, <1>1, <1>2 DEF OnFolio
    <3> QED
      BY <3>1, <2>8, <2>9, OpenSums
  <2>10. CASE h # f
    <3>1. OnFolio(i, h) = {}
      BY <2>10, <1>2 DEF OnFolio
    <3>2. Sum({}) = 0
      BY SumEmpty DEF Sum
    <3> QED
      BY <3>1, <3>2, <2>8, <2>10
  <2> QED
    BY <2>9, <2>10
<1>9. BilledAmounts' = [BilledAmounts EXCEPT ![f] = @ + OpenAmounts[f]]
  BY <1>8, BilledIsAFunction
<1>10. OpenAmounts' # OpenAmounts
  BY <1>4, <1>5
<1>11. Sum(LostRows)' = Sum(LostRows)
  BY <1>1, LostStays, LostSums DEF Linking
<1> QED
  BY <1>4, <1>6, <1>7, <1>9, <1>10, <1>11 DEF Ledger!Bill

LEMMA ReleasingGivesBack ==
    ASSUME IInv, IInv', LineInv, Books, Effect,
           NEW i \in Active, Releasing(i), NEW f \in Folios,
           \A r \in i.rows : rows[r].folio = f
    PROVE  OpenAmounts' # OpenAmounts /\ Ledger!GiveBack(f)
<1> DEFINE I == i.rows
           O == OpenRows(f)
<1>1. /\ Active' = Active \ {i} /\ Linking(i, None) /\ i \in Invoice
      /\ I \in SUBSET Existing /\ I # {}
      /\ \A r \in I : /\ r \in Rows \ PosCharges /\ rows[r].invoice = i /\ ~rows[r].void
                      /\ rows[r].folio = f /\ i # None
  BY BilledRows, Apart DEF Releasing, Books
<1>2. /\ \A r \in I : /\ rows'[r].folio = f /\ ~rows'[r].void /\ rows'[r].invoice = None
      /\ \A r \in Rows \ I : Kept(r)
  BY <1>1 DEF Linking, Others
<1>3. OpenRows(f)' = O \cup I
  <2>1. ASSUME NEW r \in I PROVE r \in OpenRows(f)'
    BY <1>1, <1>2, InOpen
  <2>2. ASSUME NEW r, r \notin I PROVE r \in OpenRows(f)' <=> r \in O
    BY <2>2, <1>2, InOpen DEF Kept
  <2>3. \A r : r \in OpenRows(f)' <=> r \in O \/ r \in I
    BY <2>1, <2>2
  <2> QED
    BY <2>3
<1>4. O \in SUBSET Existing /\ O \cap I = {}
  BY <1>1, InOpen
<1>5. /\ Sum(I) \in Nat \ {0} /\ SumAfter(I) = Sum(I) /\ SumAfter(O) = Sum(O)
      /\ Sum(O) \in Nat
  <2>1. PICK r \in I : TRUE
    BY <1>1
  <2>2. Sum(I) \in Nat /\ rows[r].value \in Nat \ {0} /\ rows[r].value <= Sum(I)
    BY <1>1, <2>1, SumFacts
  <2>3. Sum(I) # 0
    BY <2>2
  <2> QED
    BY <2>2, <2>3, <1>1, <1>4, NextFacts
<1> HIDE DEF I, O
<1>6. SumAfter(O \cup I) = Sum(O) + Sum(I)
  <2>1. /\ O \cup I \in SUBSET Rows /\ IsFiniteSet(O \cup I) /\ I \in SUBSET (O \cup I)
        /\ (O \cup I) \ I = O
    <3>1. O \cup I \in SUBSET Existing
      BY <1>1, <1>4
    <3>2. IsFiniteSet(O \cup I)
      BY <3>1, SumFacts
    <3> QED
      BY <3>1, <3>2, <1>4 DEF Existing
  <2>2. SumAfter(O \cup I) = SumAfter(I) + SumAfter((O \cup I) \ I)
    <3>1. \A S \in SUBSET Rows : \A A \in SUBSET S :
              IsFiniteSet(S) => SumAfter(S) = SumAfter(A) + SumAfter(S \ A)
      BY NextFacts
    <3> QED
      BY <3>1, <2>1
  <2>3. (O \cup I) \ I = O
    BY <2>1
  <2>4. SumAfter(O \cup I) = SumAfter(I) + SumAfter(O)
    BY <2>2, <2>3, Zenon
  <2> QED
    BY <2>4, <1>5
<1>7. OpenAmounts[f] = Sum(O) /\ OpenAmounts'[f] = Sum(O) + Sum(I)
  BY <1>3, <1>6, OpenSums DEF O
<1>8. Charged' = Charged /\ \A h \in Folios \ {f} : OpenAmounts'[h] = OpenAmounts[h]
  BY <1>1, LinkingKeepsOthers DEF I
<1>9. OpenAmounts' = [OpenAmounts EXCEPT ![f] = @ + Sum(I)]
  BY <1>7, <1>8, OpenIsAFunction
<1>10. ASSUME NEW h \in Folios
       PROVE  /\ BilledAmounts'[h] = IF h = f THEN BilledAmounts[h] - Sum(I) ELSE BilledAmounts[h]
              /\ h = f => Sum(I) <= BilledAmounts[h] /\ BilledAmounts[h] \in Nat
  <2>1. Bills(h)[i] = Sum(OnFolio(i, h))
    BY DEF Bills
  <2>2. Bills(h)[i] = IF h = f THEN Sum(I) ELSE 0
    <3>1. CASE h = f
      <4>1. OnFolio(i, h) = I
        BY <3>1, <1>1 DEF OnFolio, I
      <4> QED
        BY <4>1, <3>1, <2>1
    <3>2. CASE h # f
      <4>1. OnFolio(i, h) = {}
        BY <3>2, <1>1 DEF OnFolio, I
      <4>2. Sum({}) = 0
        BY SumEmpty DEF Sum
      <4> QED
        BY <4>1, <4>2, <3>2, <2>1
    <3> QED
      BY <3>1, <3>2
  <2> DEFINE A == Active \ {i}
  <2>3. /\ \A j \in Active : Bills(h)[j] \in Nat
        /\ \A j \in A : BillsAfter(h)[j] = Bills(h)[j]
    BY <1>1, BillsStay
  <2>4. IsFiniteSet(Active) /\ IsFiniteSet(A)
    BY FS_RemoveElement DEF Books
  <2>5. /\ SumFunctionOnSet(Bills(h), Active) \in Nat
        /\ Bills(h)[i] <= SumFunctionOnSet(Bills(h), Active)
    BY <2>3, <2>4, SumNatural, SumAtLeast
  <2>6. /\ SumFunctionOnSet(Bills(h), Active) = Bills(h)[i] + SumFunctionOnSet(Bills(h), A)
        /\ SumFunctionOnSet(Bills(h), A) \in Nat
    <3>1. \A j \in Active : Bills(h)[j] \in Int
      BY <2>3
    <3>2. SumFunctionOnSet(Bills(h), Active) = Bills(h)[i] + SumFunctionOnSet(Bills(h), A)
      BY <3>1, <2>4, SumTakeOut
    <3> QED
      BY <3>2, <2>3, <2>4, SumNatural
  <2>7. SumFunctionOnSet(BillsAfter(h), A) = SumFunctionOnSet(Bills(h), A)
    <3>1. \A j \in A : Bills(h)[j] \in Int /\ BillsAfter(h)[j] = Bills(h)[j]
      BY <2>3
    <3> QED
      BY <3>1, <2>4, SumSame
  <2>8. /\ BilledAmounts[h] = SumFunctionOnSet(Bills(h), Active)
        /\ BilledAmounts'[h] = SumFunctionOnSet(BillsAfter(h), A)
    <3>1. Active' = A
      BY <1>1
    <3>2. /\ BilledAmounts[h] = SumFunctionOnSet(Bills(h), Active)
          /\ BilledAmounts'[h] = SumFunctionOnSet(BillsAfter(h), Active')
      BY BilledSums
    <3> HIDE DEF A
    <3> QED
      BY <3>1, <3>2
  <2> HIDE DEF A
  <2> QED
    BY <2>2, <2>3, <2>5, <2>6, <2>7, <2>8
<1>11. BilledAmounts' = [BilledAmounts EXCEPT ![f] = @ - Sum(I)]
  BY <1>10, BilledIsAFunction
<1>12. Sum(I) \in 1..BilledAmounts[f]
  BY <1>5, <1>10
<1>13. OpenAmounts'[f] # OpenAmounts[f]
  BY <1>5, <1>7
<1>14. Sum(LostRows)' = Sum(LostRows)
  BY <1>1, LostStays, LostSums DEF Linking
<1> QED
  BY <1>8, <1>9, <1>11, <1>12, <1>13, <1>14 DEF Ledger!GiveBack
-----------------------------------------------------------------------------
(* Folios and invoices implement the ledger. *)

LEMMA LedgerStep ==
    ASSUME IInv, IInv', LineInv, Books, Effect
    PROVE  [Ledger!Next]_(Ledger!vars)
<1>1. ASSUME NEW e \in Folios, OpenAmounts' # OpenAmounts,
             \/ \E c \in Charges \ PosCharges : Ledger!Post(e, c)
             \/ \E g \in Folios : Ledger!Move(e, g) \/ Ledger!Forget(e, g) \/ Ledger!Recall(e, g)
             \/ Ledger!Bill(e)
             \/ Ledger!GiveBack(e)
      PROVE  Ledger!Next
  BY <1>1 DEF Ledger!Next
<1>2. ASSUME Stutters PROVE UNCHANGED Ledger!vars
  BY <1>2 DEF Stutters, Ledger!vars
<1>3. CASE Quiet
  BY <1>2, <1>3, QuietStutters DEF Quiet
<1>4. ASSUME NEW c \in Charges, NEW f \in Folios, Posting(c, f)
      PROVE  [Ledger!Next]_(Ledger!vars)
  <2>1. CASE c \in PosCharges
    BY <1>2, <1>4, <2>1, PosPostingStutters
  <2>2. CASE c \notin PosCharges
    BY <1>1, <1>4, <2>2, PostingPosts
  <2> QED
    BY <2>1, <2>2
<1>5. ASSUME NEW k \in Transfers, NEW s \in Rows, NEW f \in Folios, NEW v \in Nat, Moving(k, s, f, v)
      PROVE  Ledger!Next
  <2>1. PICK e \in Folios : e = rows[s].folio
    BY <1>5, MovingParts
  <2>2. OpenAmounts' # OpenAmounts /\ Ledger!Move(e, f)
    BY <1>5, <2>1, MovingMoves
  <2> QED
    BY <2>2, <1>1
<1>6. ASSUME NEW k \in Transfers, NEW t \in Transfers, Returning(k, t) PROVE Ledger!Next
  <2>1. PICK s, m : s = transfers[t].source /\ m = transfers[t].moved
    OBVIOUS
  <2>2. s \in Existing /\ m \in Existing
    BY <1>6, <2>1, ReturningParts
  <2>3. PICK e \in Folios, g \in Folios : e = rows[m].folio /\ g = rows[s].folio
    BY <2>2, RowFacts DEF Existing, IInv, TypeOK
  <2>4. /\ OpenAmounts' # OpenAmounts
        /\ Ledger!Move(e, g) \/ Ledger!Forget(e, g) \/ Ledger!Recall(e, g)
    BY <1>6, <2>1, <2>3, ReturningMoves
  <2> QED
    BY <2>4, <1>1
<1>7. ASSUME NEW i \in Invoice, NEW f \in Folios, Billing(i, f) PROVE Ledger!Next
  BY <1>1, <1>7, BillingBills
<1>8. ASSUME NEW i \in Active, Releasing(i) PROVE Ledger!Next
  <2>1. PICK f \in Folios : \A r \in i.rows : rows[r].folio = f
    <3>1. PICK r \in i.rows : TRUE
      BY DEF Books
    <3>2. rows[r].folio \in Folios
      BY <3>1, BilledRows
    <3> QED
      BY <3>1, <3>2 DEF Books
  <2> QED
    BY <2>1, <1>1, <1>8, ReleasingGivesBack
<1> QED
  BY <1>3, <1>2, QuietStutters, <1>4, <1>5, <1>6, <1>7, <1>8 DEF Effect

LEMMA InitLedger == Init => Ledger!Init
<1> SUFFICES ASSUME Init PROVE Ledger!Init
  OBVIOUS
<1>1. \A r \in Rows : rows[r].folio = None
  BY DEF Init, NoRow
<1>2. Charged = {} /\ Active = {} /\ \A f \in Folios : OpenRows(f) = {}
  BY <1>1, Apart DEF Init, Charged, Active, OpenRows, Live
<1>3. \A f : SumFunctionOnSet(f, {}) = 0
  BY SumEmpty
<1>4. OpenAmounts = [f \in Folios |-> 0]
  BY <1>2, <1>3 DEF OpenAmounts, Sum
<1>5. BilledAmounts = [f \in Folios |-> 0]
  BY <1>2, <1>3 DEF BilledAmounts
<1>6. Sum(LostRows) = 0
  <2>1. LostRows = {}
    BY DEF Init, NoTransfer, LostRows, Forgotten
  <2> QED
    BY <2>1, <1>3 DEF Sum
<1> QED
  BY <1>2, <1>4, <1>5, <1>6 DEF Ledger!Init

(* The rows, forms, invoices and hooks implement the ledger: every step posts one   *)
(* charge, moves an amount between two folios, forgets or recalls the remainder of  *)
(* a split, bills all that is open on a folio or gives one bill back, or leaves     *)
(* what is posted, open, billed and forgotten alone.                                *)
THEOREM FoliosImplementLedger ==
    ASSUME ReconcilesAtRepeatableRead
    PROVE  Spec => ImplementsLedger
<1>1. IInv /\ BooksInv /\ [Next]_vars /\ IInv' => [Ledger!Next]_(Ledger!vars)
  BY NextEffect, LedgerStep DEF BooksInv
<1> QED
  BY <1>1, InitLedger, AlwaysConserved, PTL DEF Spec, ImplementsLedger, Ledger!Spec
=============================================================================
