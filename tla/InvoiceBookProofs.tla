-------------------------- MODULE InvoiceBookProofs --------------------------
(***************************************************************************)
(* Proofs about InvoiceBook for any number of invoices, principals and      *)
(* concurrent requests, whatever the roles grant.                           *)
(*                                                                         *)
(* A request may write over a status it never saw.  The argument therefore  *)
(* never uses the status at the commit: it uses what the request saw and    *)
(* what is never taken back (an approver, the announcement).                *)
(***************************************************************************)
EXTENDS InvoiceBook, TLAPS

\* An approver held invoice.approve; who is approved or announced has one.
ApproverSound ==
    \A i \in Invoices :
        /\ invoice[i].approver # None => Can(invoice[i].approver, "invoice.approve")
        /\ invoice[i].status = "approved" \/ invoice[i].announced
             => invoice[i].approver # None

\* Side records are about an invoice that was announced.
SideSound ==
    /\ \A n \in Notes : note[n].status # "absent"
         => note[n].of \in Invoices /\ invoice[note[n].of].announced
    /\ \A d \in Disputes : dispute[d].status # "absent"
         => dispute[d].of \in Invoices /\ invoice[dispute[d].of].announced

\* What a request under way knows for good about its invoice.
TransitionSound(t) ==
    t.route = "transition" =>
        /\ t.of \in Invoices /\ t.user \in Users
        /\ t.to \in Allowed(t.seen)
        /\ t.seen \in Delivered => invoice[t.of].announced
        /\ t.seen = "approved" => invoice[t.of].approver # None
        /\ t.to = "approved" => Can(t.user, "invoice.approve")

SideTxnSound(t) ==
    t.route \in {"dispute", "resolve", "note", "issueNote"} =>
        /\ t.of \in Invoices /\ invoice[t.of].announced
        /\ t.route = "dispute" => t.to = "disputed" /\ t.doc \in Disputes
        /\ t.route = "resolve" => /\ t.doc \in Disputes
                                  /\ dispute[t.doc].status # "absent"
                                  /\ t.to \in {"under_review", "issued"}
        /\ t.route = "note" => t.doc \in Notes
        /\ t.route = "issueNote" => t.doc \in Notes /\ note[t.doc].status # "absent"

TxnSound == \A s \in Sessions : TransitionSound(txn[s]) /\ SideTxnSound(txn[s])

IInv == TypeOK /\ ApproverSound /\ DeliveredWasAnnounced /\ SideSound /\ TxnSound

----------------------------------------------------------------------------
\* What the whitelist says of the edges into approval and delivery.
LEMMA AllowedEdges ==
    ASSUME NEW f \in InvoiceStates \cup {"absent"}
    PROVE  /\ Allowed(f) \subseteq InvoiceStates
           /\ "approved" \in Allowed(f) => f = "under_review"
           /\ "issued" \in Allowed(f) => f = "approved"
           /\ \A to \in Allowed(f) : to \in Delivered \ {"issued"} => f \in Delivered
           /\ Required("under_review", "approved") = {"invoice.approve"}
<1>1. Allowed("absent") = {}
  BY DEF Allowed
<1>2. Required("under_review", "approved") = {"invoice.approve"}
  BY DEF Required
<1>3. CASE f \in InvoiceStates
  BY <1>2, <1>3 DEF InvoiceStates, Allowed, Delivered
<1> QED
  BY <1>1, <1>2, <1>3

\* The empty invoice book satisfies the inductive invariant.
LEMMA InitInv == Init => IInv
  BY NoneAssumption
  DEF Init, IInv, TypeOK, InvoiceRow, NoteRow, DisputeRow, Txn, Routes, Idle, ApproverSound,
      DeliveredWasAnnounced, SideSound, TxnSound, TransitionSound, SideTxnSound, Delivered

\* A request that begins has seen what TxnSound says of it.
LEMMA BeginInv ==
    ASSUME IInv, NEW s \in Sessions, NEW u \in Users, NEW i \in Invoices,
           NEW route \in Routes, NEW to \in InvoiceStates,
           NEW doc \in Notes \cup Disputes \cup {None},
           Begin(s, route, u, i, to, doc),
           LET t == [route |-> route, user |-> u, of |-> i,
                     seen |-> invoice[i].status, to |-> to, doc |-> doc]
           IN TransitionSound(t) /\ SideTxnSound(t)
    PROVE  IInv'
<1> DEFINE t == [route |-> route, user |-> u, of |-> i,
                 seen |-> invoice[i].status, to |-> to, doc |-> doc]
<1>1. txn' = [txn EXCEPT ![s] = t] /\ UNCHANGED <<invoice, note, dispute>>
  BY DEF Begin
<1>2. t \in Txn
  BY DEF Txn, IInv, TypeOK, InvoiceRow
<1>3. TypeOK'
  BY <1>1, <1>2 DEF IInv, TypeOK
<1>4. \A r \in Sessions : txn'[r] = IF r = s THEN t ELSE txn[r]
  BY <1>1 DEF IInv, TypeOK
<1>5. TransitionSound(t) /\ SideTxnSound(t)
  OBVIOUS
<1>6. TxnSound'
  BY <1>1, <1>4, <1>5 DEF IInv, TxnSound, TransitionSound, SideTxnSound
<1>7. ApproverSound' /\ DeliveredWasAnnounced' /\ SideSound'
  BY <1>1 DEF IInv, ApproverSound, DeliveredWasAnnounced, SideSound
<1> QED
  BY <1>3, <1>6, <1>7 DEF IInv

\* Every route that begins on a sound book has read what TxnSound says of it.
LEMMA BeginStepInv ==
    ASSUME IInv, NEW s \in Sessions, BeginStep(s)
    PROVE  IInv'
<1>1. ASSUME NEW u \in Users, NEW i \in Invoices, NEW to \in InvoiceStates,
             BeginTransition(s, u, i, to)
      PROVE  IInv'
  <2> DEFINE t == [route |-> "transition", user |-> u, of |-> i,
                   seen |-> invoice[i].status, to |-> to, doc |-> None]
  <2>1. invoice[i].status \in InvoiceStates \cup {"absent"}
    BY DEF IInv, TypeOK, InvoiceRow
  <2>2. to \in Allowed(invoice[i].status)
    BY <1>1 DEF BeginTransition
  <2>3. to = "approved" => Can(u, "invoice.approve")
    BY <1>1, <2>1, <2>2, AllowedEdges DEF BeginTransition
  <2>4. TransitionSound(t)
    BY <2>2, <2>3 DEF TransitionSound, IInv, ApproverSound, DeliveredWasAnnounced
  <2>5. SideTxnSound(t)
    BY DEF SideTxnSound
  <2>6. Begin(s, "transition", u, i, to, None)
    BY <1>1 DEF BeginTransition
  <2> QED
    BY <2>4, <2>5, <2>6, BeginInv DEF Routes
<1>2. ASSUME NEW u \in Users, NEW i \in Invoices, NEW d \in Disputes, BeginDispute(s, u, i, d)
      PROVE  IInv'
  <2> DEFINE t == [route |-> "dispute", user |-> u, of |-> i,
                   seen |-> invoice[i].status, to |-> "disputed", doc |-> d]
  <2>1. TransitionSound(t) /\ SideTxnSound(t)
    BY <1>2 DEF BeginDispute, TransitionSound, SideTxnSound, IInv, DeliveredWasAnnounced,
                Disputable, Delivered
  <2>2. Begin(s, "dispute", u, i, "disputed", d)
    BY <1>2 DEF BeginDispute
  <2> QED
    BY <2>1, <2>2, BeginInv DEF Routes, InvoiceStates
<1>3. ASSUME NEW u \in Users, NEW d \in Disputes, NEW accepted \in BOOLEAN,
             BeginResolve(s, u, d, accepted)
      PROVE  IInv'
  <2> DEFINE to == IF accepted THEN "under_review" ELSE "issued"
             i == dispute[d].of
             t == [route |-> "resolve", user |-> u, of |-> i,
                   seen |-> invoice[i].status, to |-> to, doc |-> d]
  <2>1. dispute[d].status # "absent" /\ Begin(s, "resolve", u, i, to, d)
    BY <1>3 DEF BeginResolve
  <2>2. i \in Invoices /\ invoice[i].announced
    BY <2>1 DEF IInv, SideSound
  <2>3. to \in {"under_review", "issued"}
    OBVIOUS
  <2> HIDE DEF to, i
  <2>4. TransitionSound(t) /\ SideTxnSound(t)
    BY <2>1, <2>2, <2>3 DEF TransitionSound, SideTxnSound
  <2> QED
    BY <2>1, <2>2, <2>3, <2>4, BeginInv DEF Routes, InvoiceStates
<1>4. ASSUME NEW u \in Users, NEW i \in Invoices, NEW n \in Notes, BeginNote(s, u, i, n)
      PROVE  IInv'
  <2> DEFINE t == [route |-> "note", user |-> u, of |-> i,
                   seen |-> invoice[i].status, to |-> "corrected", doc |-> n]
  <2>1. TransitionSound(t) /\ SideTxnSound(t)
    BY <1>4 DEF BeginNote, TransitionSound, SideTxnSound, IInv, DeliveredWasAnnounced,
                Correctable, Delivered
  <2>2. Begin(s, "note", u, i, "corrected", n)
    BY <1>4 DEF BeginNote
  <2> QED
    BY <2>1, <2>2, BeginInv DEF Routes, InvoiceStates
<1>5. ASSUME NEW u \in Users, NEW n \in Notes, BeginIssueNote(s, u, n)
      PROVE  IInv'
  <2> DEFINE i == note[n].of
             t == [route |-> "issueNote", user |-> u, of |-> i,
                   seen |-> invoice[i].status, to |-> "corrected", doc |-> n]
  <2>1. note[n].status = "draft" /\ Begin(s, "issueNote", u, i, "corrected", n)
    BY <1>5 DEF BeginIssueNote
  <2>2. i \in Invoices /\ invoice[i].announced
    BY <2>1 DEF IInv, SideSound
  <2> HIDE DEF i
  <2>3. TransitionSound(t) /\ SideTxnSound(t)
    BY <2>1, <2>2 DEF TransitionSound, SideTxnSound
  <2> QED
    BY <2>1, <2>2, <2>3, BeginInv DEF Routes, InvoiceStates
<1> QED
  BY <1>1, <1>2, <1>3, <1>4, <1>5 DEF BeginStep

----------------------------------------------------------------------------
\* A commit that takes back no announcement and no approver, and drops no note
\* or dispute, keeps every other request sound.
Monotone ==
    /\ \A i \in Invoices : /\ invoice[i].announced => invoice'[i].announced
                           /\ invoice[i].approver # None => invoice'[i].approver # None
    /\ \A n \in Notes : note[n].status # "absent" => note'[n].status # "absent"
    /\ \A d \in Disputes : dispute[d].status # "absent" => dispute'[d].status # "absent"

\* A request that ends leaves the other requests sound: rows only ever appear.
LEMMA EndInv ==
    ASSUME IInv, NEW s \in Sessions, End(s), Monotone
    PROVE  TxnSound' /\ txn' \in [Sessions -> Txn]
<1>1. /\ txn' \in [Sessions -> Txn]
      /\ \A r \in Sessions : txn'[r] = IF r = s THEN Idle ELSE txn[r]
  BY DEF End, IInv, TypeOK, Txn, Idle, Routes
<1>2. ASSUME NEW r \in Sessions
      PROVE  TransitionSound(txn[r])' /\ SideTxnSound(txn[r])'
  <2>1. CASE txn'[r] = Idle
    BY <2>1 DEF TransitionSound, SideTxnSound, Idle
  <2>2. CASE txn'[r] = txn[r]
    <3>1. TransitionSound(txn[r]) /\ SideTxnSound(txn[r])
      BY DEF IInv, TxnSound
    <3> QED
      BY <2>2, <3>1 DEF TransitionSound, SideTxnSound, Monotone
  <2> QED
    BY <1>1, <2>1, <2>2
<1> QED
  BY <1>1, <1>2 DEF TxnSound

\* Writing a status: the row a commit leaves must be sound itself.
LEMMA WriteInv ==
    ASSUME IInv, NEW s \in Sessions, End(s), NEW i \in Invoices, NEW row \in InvoiceRow,
           invoice' = [invoice EXCEPT ![i] = row],
           invoice[i].announced => row.announced,
           row.approver # None => Can(row.approver, "invoice.approve"),
           row.status = "approved" \/ row.announced => row.approver # None,
           invoice[i].approver # None => row.approver # None,
           row.status \in Delivered => row.announced
    PROVE  /\ invoice' \in [Invoices -> InvoiceRow]
           /\ \A x \in Invoices : invoice[x].announced => invoice'[x].announced
           /\ \A x \in Invoices : invoice[x].approver # None => invoice'[x].approver # None
           /\ ApproverSound' /\ DeliveredWasAnnounced'
<1>1. /\ invoice' \in [Invoices -> InvoiceRow]
      /\ \A x \in Invoices : invoice'[x] = IF x = i THEN row ELSE invoice[x]
  BY DEF IInv, TypeOK
<1> QED
  BY <1>1 DEF IInv, ApproverSound, DeliveredWasAnnounced

\* A committed transition, whatever the status has become since it was read.
LEMMA CommitTransitionInv ==
    ASSUME IInv, NEW s \in Sessions, CommitTransition(s)
    PROVE  IInv'
<1> DEFINE t == txn[s]
           i == t.of
           row == [Transitioned(i, t.to, t.user) EXCEPT !.status = t.to]
<1>1. /\ t \in Txn /\ t.route = "transition" /\ End(s)
      /\ invoice' = [invoice EXCEPT ![i] = row]
      /\ UNCHANGED <<note, dispute>>
  BY DEF CommitTransition, SetStatus, IInv, TypeOK
<1>2. /\ i \in Invoices /\ t.user \in Users /\ t.to \in Allowed(t.seen)
      /\ t.seen \in Delivered => invoice[i].announced
      /\ t.seen = "approved" => invoice[i].approver # None
      /\ t.to = "approved" => Can(t.user, "invoice.approve")
  BY <1>1 DEF IInv, TxnSound, TransitionSound
<1>3. t.seen \in InvoiceStates \cup {"absent"} /\ t.to \in InvoiceStates
  BY <1>1, <1>2, AllowedEdges DEF Txn
<1>4. /\ t.to = "issued" => t.seen = "approved"
      /\ t.to \in Delivered \ {"issued"} => t.seen \in Delivered
  BY <1>2, <1>3, AllowedEdges
<1>5. invoice[i] \in InvoiceRow
  BY <1>2 DEF IInv, TypeOK
<1>6. /\ row \in InvoiceRow /\ row.status = t.to
      /\ row.approver = IF t.to = "approved" THEN t.user ELSE invoice[i].approver
      /\ row.announced = IF t.to = "issued" THEN TRUE ELSE invoice[i].announced
  BY <1>2, <1>3, <1>5 DEF Transitioned, InvoiceRow
<1> HIDE DEF row, i, t
<1>7. /\ invoice[i].approver # None => Can(invoice[i].approver, "invoice.approve")
      /\ invoice[i].announced => invoice[i].approver # None
  BY <1>2 DEF IInv, ApproverSound
<1>8. /\ invoice[i].announced => row.announced
      /\ row.approver # None => Can(row.approver, "invoice.approve")
      /\ row.status = "approved" \/ row.announced => row.approver # None
      /\ invoice[i].approver # None => row.approver # None
      /\ row.status \in Delivered => row.announced
  BY <1>2, <1>4, <1>6, <1>7, NoneAssumption
<1>9. /\ invoice' \in [Invoices -> InvoiceRow]
      /\ \A x \in Invoices : invoice[x].announced => invoice'[x].announced
      /\ \A x \in Invoices : invoice[x].approver # None => invoice'[x].approver # None
      /\ ApproverSound' /\ DeliveredWasAnnounced'
  BY <1>1, <1>2, <1>6, <1>8, WriteInv
<1>10. Monotone
  BY <1>1, <1>9 DEF Monotone
<1>11. TxnSound' /\ TypeOK'
  BY <1>1, <1>9, <1>10, EndInv DEF IInv, TypeOK
<1>12. SideSound'
  BY <1>1, <1>9 DEF IInv, SideSound
<1> QED
  BY <1>9, <1>11, <1>12 DEF IInv

\* The other routes set a status on an invoice that was announced.
LEMMA SideStatus ==
    ASSUME IInv, NEW s \in Sessions, End(s), SideTxnSound(txn[s]),
           txn[s].route \in {"dispute", "resolve", "note", "issueNote"},
           NEW to \in {"disputed", "under_review", "issued", "corrected"},
           SetStatus(txn[s].of, to, invoice[txn[s].of]) \/ UNCHANGED invoice
    PROVE  /\ invoice' \in [Invoices -> InvoiceRow]
           /\ \A x \in Invoices : invoice[x].announced => invoice'[x].announced
           /\ \A x \in Invoices : invoice[x].approver # None => invoice'[x].approver # None
           /\ ApproverSound' /\ DeliveredWasAnnounced'
<1> DEFINE i == txn[s].of
           row == [invoice[i] EXCEPT !.status = to]
<1>1. i \in Invoices /\ invoice[i].announced
  BY DEF SideTxnSound
<1>2. CASE UNCHANGED invoice
  BY <1>2 DEF IInv, TypeOK, ApproverSound, DeliveredWasAnnounced
<1>3. CASE SetStatus(i, to, invoice[i])
  <2>1. /\ row \in InvoiceRow /\ row.status = to
        /\ row.announced = invoice[i].announced /\ row.approver = invoice[i].approver
    BY <1>1 DEF IInv, TypeOK, InvoiceRow, InvoiceStates
  <2>2. invoice' = [invoice EXCEPT ![i] = row]
    BY <1>3 DEF SetStatus
  <2>3. /\ invoice[i].approver # None
        /\ Can(invoice[i].approver, "invoice.approve")
    BY <1>1 DEF IInv, ApproverSound
  <2> HIDE DEF row, i
  <2> QED
    BY <1>1, <2>1, <2>2, <2>3, WriteInv
<1> QED
  BY <1>2, <1>3

\* A note or dispute row before and after a commit about invoice i.
Kept(old, new, i) ==
    \/ new = old
    \/ new.status # "absent" /\ new.of = i
    \/ new.status # "absent" /\ new.of = old.of /\ old.status # "absent"

\* A commit that writes a note or a dispute next to the invoice.
LEMMA SideCommitInv ==
    ASSUME IInv, NEW s \in Sessions,
           \/ CommitDispute(s) \/ CommitResolve(s) \/ CommitNote(s) \/ CommitIssueNote(s)
    PROVE  IInv'
<1> DEFINE t == txn[s]
           i == t.of
<1>1. /\ SideTxnSound(t) /\ End(s)
      /\ t.route \in {"dispute", "resolve", "note", "issueNote"}
  BY DEF IInv, TxnSound, CommitDispute, CommitResolve, CommitNote, CommitIssueNote
<1>2. \E to \in {"disputed", "under_review", "issued", "corrected"} :
        SetStatus(i, to, invoice[i]) \/ UNCHANGED invoice
  BY <1>1 DEF SideTxnSound, CommitDispute, CommitResolve, CommitNote, CommitIssueNote
<1>3. /\ invoice' \in [Invoices -> InvoiceRow]
      /\ \A x \in Invoices : invoice[x].announced => invoice'[x].announced
      /\ \A x \in Invoices : invoice[x].approver # None => invoice'[x].approver # None
      /\ ApproverSound' /\ DeliveredWasAnnounced'
  BY <1>1, <1>2, SideStatus
<1>4. i \in Invoices /\ invoice[i].announced
  BY <1>1 DEF SideTxnSound
<1>5. /\ note' \in [Notes -> NoteRow] /\ dispute' \in [Disputes -> DisputeRow]
      /\ \A n \in Notes : Kept(note[n], note'[n], i)
      /\ \A d \in Disputes : Kept(dispute[d], dispute'[d], i)
  <2>1. note \in [Notes -> NoteRow] /\ dispute \in [Disputes -> DisputeRow]
    BY DEF IInv, TypeOK
  <2>2. CASE CommitDispute(s)
    <3>1. /\ t.doc \in Disputes /\ note' = note
          /\ dispute' = [dispute EXCEPT ![t.doc] = [of |-> i, status |-> "open"]]
      BY <1>1, <2>2 DEF CommitDispute, SideTxnSound
    <3> QED
      BY <1>4, <2>1, <3>1 DEF DisputeRow, Kept
  <2>3. CASE CommitResolve(s)
    <3>1. /\ t.doc \in Disputes /\ note' = note /\ dispute[t.doc].status # "absent"
          /\ dispute' = [dispute EXCEPT ![t.doc].status = "resolved"]
      BY <1>1, <2>3 DEF CommitResolve, SideTxnSound
    <3> QED
      BY <2>1, <3>1 DEF DisputeRow, Kept
  <2>4. CASE CommitNote(s)
    <3>1. /\ t.doc \in Notes /\ dispute' = dispute
          /\ note' = [note EXCEPT ![t.doc] = [of |-> i, status |-> "draft"]]
      BY <1>1, <2>4 DEF CommitNote, SideTxnSound
    <3> QED
      BY <1>4, <2>1, <3>1 DEF NoteRow, Kept
  <2>5. CASE CommitIssueNote(s)
    <3>1. /\ t.doc \in Notes /\ dispute' = dispute /\ note[t.doc].status # "absent"
          /\ note' = [note EXCEPT ![t.doc].status = "issued"]
      BY <1>1, <2>5 DEF CommitIssueNote, SideTxnSound
    <3> QED
      BY <2>1, <3>1 DEF NoteRow, Kept
  <2> QED
    BY <2>2, <2>3, <2>4, <2>5
<1> HIDE DEF i
<1>6. Monotone
  BY <1>3, <1>5 DEF Monotone, Kept
<1>7. TxnSound' /\ TypeOK'
  BY <1>1, <1>3, <1>5, <1>6, EndInv DEF IInv, TypeOK
<1>8. SideSound'
  BY <1>3, <1>4, <1>5 DEF IInv, SideSound, Kept
<1> QED
  BY <1>3, <1>7, <1>8 DEF IInv

\* A rollback writes nothing and ends its request.
LEMMA QuietStepInv ==
    ASSUME IInv, NEW s \in Sessions, Rollback(s)
    PROVE  IInv'
<1>1. UNCHANGED <<invoice, note, dispute>> /\ End(s)
  BY DEF Rollback
<1>2. TxnSound' /\ TypeOK'
  BY <1>1, EndInv DEF Monotone, IInv, TypeOK
<1>3. ApproverSound' /\ DeliveredWasAnnounced' /\ SideSound'
  BY <1>1 DEF IInv, ApproverSound, DeliveredWasAnnounced, SideSound
<1> QED
  BY <1>2, <1>3 DEF IInv

\* A new invoice is undelivered, unannounced and nobody has read it as more.
LEMMA CreateInv ==
    ASSUME IInv, NEW i \in Invoices, NEW u \in Users, Create(i, u)
    PROVE  IInv'
<1> DEFINE row == [invoice[i] EXCEPT !.status = "calculated"]
<1>1. invoice[i] \in InvoiceRow /\ UNCHANGED <<note, dispute, txn>>
  BY DEF IInv, TypeOK, Create
<1>2. invoice' = [invoice EXCEPT ![i] = row]
  BY <1>1 DEF Create, IInv, TypeOK, InvoiceRow
<1>3. /\ row \in InvoiceRow /\ row.status = "calculated"
      /\ row.approver = invoice[i].approver /\ row.announced = invoice[i].announced
  BY <1>1 DEF InvoiceRow, InvoiceStates
<1> HIDE DEF row
<1>4. /\ invoice' \in [Invoices -> InvoiceRow]
      /\ \A x \in Invoices : invoice'[x] = IF x = i THEN row ELSE invoice[x]
  BY <1>2, <1>3 DEF IInv, TypeOK
<1>5. TypeOK'
  BY <1>1, <1>4 DEF IInv, TypeOK
<1>6. ApproverSound' /\ DeliveredWasAnnounced'
  BY <1>3, <1>4 DEF IInv, ApproverSound, DeliveredWasAnnounced, Delivered
<1>7. SideSound'
  BY <1>1, <1>3, <1>4 DEF IInv, SideSound
<1>8. TxnSound'
  BY <1>1, <1>3, <1>4 DEF IInv, TxnSound, TransitionSound, SideTxnSound
<1> QED
  BY <1>5, <1>6, <1>7, <1>8 DEF IInv

\* The invariant is inductive: every request step of every session keeps it.
LEMMA NextInv == IInv /\ [Next]_vars => IInv'
<1> SUFFICES ASSUME IInv, [Next]_vars PROVE IInv'
  OBVIOUS
<1>1. CASE UNCHANGED vars
  BY <1>1 DEF vars, IInv, TypeOK, ApproverSound, DeliveredWasAnnounced, SideSound, TxnSound,
              TransitionSound, SideTxnSound
<1>2. ASSUME NEW i \in Invoices, NEW u \in Users, Create(i, u)
      PROVE  IInv'
  BY <1>2, CreateInv
<1>3. ASSUME NEW s \in Sessions, BeginStep(s) PROVE IInv'
  BY <1>3, BeginStepInv
<1>4. ASSUME NEW s \in Sessions, CommitStep(s) PROVE IInv'
  BY <1>4, CommitTransitionInv, SideCommitInv, QuietStepInv DEF CommitStep
<1> QED
  BY <1>1, <1>2, <1>3, <1>4 DEF Next

\* The inductive invariant holds in every reachable state of the invoice book.
THEOREM Invariance == Spec => []IInv
  BY InitInv, NextInv, PTL DEF Spec

\* Every reachable state is well typed.
THEOREM TypeCorrect == Spec => []TypeOK
<1>1. IInv => TypeOK
  BY DEF IInv
<1> QED
  BY <1>1, Invariance, PTL

\* No invoice is delivered without the approval of a principal who holds
\* invoice.approve, for any number of overlapping requests and any roles.
THEOREM ApprovalPrecedesDelivery == Spec => []ApprovedBeforeDelivery
<1>1. IInv => ApprovedBeforeDelivery
  BY DEF IInv, ApproverSound, DeliveredWasAnnounced, ApprovedBeforeDelivery
<1> QED
  BY <1>1, Invariance, PTL

\* No invoice is delivered unannounced.
THEOREM DeliveryIsAnnounced == Spec => []DeliveredWasAnnounced
<1>1. IInv => DeliveredWasAnnounced
  BY DEF IInv
<1> QED
  BY <1>1, Invariance, PTL

\* Notes and disputes are about announced invoices only.
THEOREM SideRecordsOnDelivered == Spec => []NotesOnDelivered
<1>1. IInv => NotesOnDelivered
  BY DEF IInv, SideSound, NotesOnDelivered
<1> QED
  BY <1>1, Invariance, PTL

=============================================================================
