---------------------------- MODULE InvoiceBook -----------------------------
(***************************************************************************)
(* The life of committed invoices under concurrent requests: status         *)
(* transitions (billing.py, invoice_lifecycle.py), disputes (extras.py) and *)
(* credit/debit notes (ops.py).  Every route reads the invoice without a    *)
(* lock, decides on the status it read, and writes status and its side      *)
(* records in one commit; the UPDATE carries no version check, so a request *)
(* may write over a status it never saw.  The only guard at write time is   *)
(* the Postgres trigger.                                                   *)
(*                                                                         *)
(* One action Begin... per route (reads and checks) and one Commit...       *)
(* (flush, trigger, commit).  Amounts, numbers, dates, the audit rows and   *)
(* the org scope of the caller are left out; permissions are kept.          *)
(***************************************************************************)
EXTENDS InvoiceLifecycle

CONSTANTS
    Invoices,   \* invoice ids
    Users,      \* principals
    Can(_, _),  \* Can(u, p): principal u holds permission p
    Sessions,   \* request slots, reused
    Notes,      \* billing note ids
    Disputes,   \* dispute ids
    None        \* SQL NULL

ASSUME NoneAssumption == None \notin Users \cup Invoices

VARIABLES
    invoice,    \* invoice[i]: status, approver, announced
    note,       \* note[n]: the invoice it corrects and its status
    dispute,    \* dispute[d]: the invoice it is about and its status
    txn         \* txn[s]: what the request in slot s has read and will write

vars == <<invoice, note, dispute, txn>>

\* announced: an invoice.issued event was queued for it.  Who triggered the pricing
\* run behind the invoice is left out: no route looks at it.
InvoiceRow == [status : InvoiceStates \cup {"absent"},
               approver : Users \cup {None},
               announced : BOOLEAN]
NoteRow == [of : Invoices \cup {None}, status : {"absent", "draft", "issued"}]
DisputeRow == [of : Invoices \cup {None}, status : {"absent", "open", "resolved"}]

\* A request: its route, the caller, the invoice with the status it read, the
\* status it will write, and the note or dispute it is about.
Routes == {"idle", "transition", "dispute", "resolve", "note", "issueNote"}
Txn == [route : Routes, user : Users \cup {None}, of : Invoices \cup {None},
        seen : InvoiceStates \cup {"absent"}, to : InvoiceStates \cup {"absent"},
        doc : Notes \cup Disputes \cup {None}]
Idle == [route |-> "idle", user |-> None, of |-> None, seen |-> "absent",
         to |-> "absent", doc |-> None]

TypeOK ==
    /\ invoice \in [Invoices -> InvoiceRow]
    /\ note \in [Notes -> NoteRow]
    /\ dispute \in [Disputes -> DisputeRow]
    /\ txn \in [Sessions -> Txn]

Init ==
    /\ invoice = [i \in Invoices |-> [status |-> "absent", approver |-> None, announced |-> FALSE]]
    /\ note = [n \in Notes |-> [of |-> None, status |-> "absent"]]
    /\ dispute = [d \in Disputes |-> [of |-> None, status |-> "absent"]]
    /\ txn = [s \in Sessions |-> Idle]

Begin(s, route, u, i, to, doc) ==
    /\ txn[s] = Idle
    /\ txn' = [txn EXCEPT ![s] = [route |-> route, user |-> u, of |-> i,
                                  seen |-> invoice[i].status, to |-> to, doc |-> doc]]
    /\ UNCHANGED <<invoice, note, dispute>>

End(s) == txn' = [txn EXCEPT ![s] = Idle]

\* A note or dispute id nobody uses or is about to use (a fresh uuid).
Fresh(table, d) ==
    /\ table[d].status = "absent"
    /\ \A s \in Sessions : txn[s].doc # d

\* UPDATE invoices SET status: the trigger must accept it against the committed
\* row, which need not be the one the request read.
SetStatus(i, to, row) ==
    /\ ~TriggerRejects(invoice[i].status, to)
    /\ invoice' = [invoice EXCEPT ![i] = [row EXCEPT !.status = to]]
----------------------------------------------------------------------------
\* create_invoice and build_invoice_from_run, whose own steps InvoiceBuild models:
\* u asks, and the invoice appears as calculated, from a completed run.
Create(i, u) ==
    /\ invoice[i].status = "absent"
    /\ Can(u, "invoice.write")
    /\ invoice' = [invoice EXCEPT ![i].status = "calculated"]
    /\ UNCHANGED <<note, dispute, txn>>

\* transition_invoice: whitelist and permission are checked on the read status.
BeginTransition(s, u, i, to) ==
    /\ to \in Allowed(invoice[i].status)
    /\ \A p \in Required(invoice[i].status, to) : Can(u, p)
    /\ Begin(s, "transition", u, i, to, None)

\* What transition_invoice writes next to the status: the approver on approval,
\* the queued invoice.issued event on issue. (The ORM skips approved_by when the
\* request read the same approver already: no property tells the two apart.)
Transitioned(i, to, u) ==
    [invoice[i] EXCEPT
        !.approver = IF to = "approved" THEN u ELSE @,
        !.announced = IF to = "issued" THEN TRUE ELSE @]

CommitTransition(s) ==
    LET t == txn[s] IN
    /\ t.route = "transition"
    /\ SetStatus(t.of, t.to, Transitioned(t.of, t.to, t.user))
    /\ End(s)
    /\ UNCHANGED <<note, dispute>>

\* create_dispute: sets `disputed` itself, past the whitelist.
BeginDispute(s, u, i, d) ==
    /\ Can(u, "dispute.write")
    /\ invoice[i].status \in Disputable
    /\ Fresh(dispute, d)
    /\ Begin(s, "dispute", u, i, "disputed", d)

CommitDispute(s) ==
    LET t == txn[s] IN
    /\ t.route = "dispute"
    /\ SetStatus(t.of, "disputed", invoice[t.of])
    /\ dispute' = [dispute EXCEPT ![t.doc] = [of |-> t.of, status |-> "open"]]
    /\ End(s)
    /\ UNCHANGED note

\* resolve_dispute: does not look at the dispute's own status. An accepted
\* dispute sends the invoice to review; a denied or withdrawn one back to
\* `issued`, whatever it was before the dispute.
BeginResolve(s, u, d, accepted) ==
    /\ Can(u, "dispute.resolve")
    /\ dispute[d].status # "absent"
    /\ Begin(s, "resolve", u, dispute[d].of,
             IF accepted THEN "under_review" ELSE "issued", d)

CommitResolve(s) ==
    LET t == txn[s] IN
    /\ t.route = "resolve"
    /\ IF t.seen = "disputed"
       THEN SetStatus(t.of, t.to, invoice[t.of])
       ELSE UNCHANGED invoice
    /\ dispute' = [dispute EXCEPT ![t.doc].status = "resolved"]
    /\ End(s)
    /\ UNCHANGED note

\* create_note: a draft against a delivered invoice.
BeginNote(s, u, i, n) ==
    /\ Can(u, "invoice.correct")
    /\ invoice[i].status \in Correctable
    /\ Fresh(note, n)
    /\ Begin(s, "note", u, i, "corrected", n)

\* Fault: a status the column does not know.
CommitOpenNote(s) ==
    LET t == txn[s] IN
    /\ t.route = "note"
    /\ note' = [note EXCEPT ![t.doc] = [of |-> t.of, status |-> "open"]]
    /\ End(s)
    /\ UNCHANGED <<invoice, dispute>>

CommitNote(s) ==
    LET t == txn[s] IN
    /\ t.route = "note"
    /\ note' = [note EXCEPT ![t.doc] = [of |-> t.of, status |-> "draft"]]
    /\ End(s)
    /\ UNCHANGED <<invoice, dispute>>

\* issue_note: the note is issued and its invoice becomes corrected.
BeginIssueNote(s, u, n) ==
    /\ Can(u, "invoice.correct")
    /\ note[n].status = "draft"
    /\ invoice[note[n].of].status \in NoteIssuable
    /\ Begin(s, "issueNote", u, note[n].of, "corrected", n)

CommitIssueNote(s) ==
    LET t == txn[s] IN
    /\ t.route = "issueNote"
    /\ SetStatus(t.of, "corrected", invoice[t.of])
    /\ note' = [note EXCEPT ![t.doc].status = "issued"]
    /\ End(s)
    /\ UNCHANGED dispute

\* The trigger raises, the connection is lost or the server restarts.
Rollback(s) ==
    /\ txn[s] # Idle
    /\ End(s)
    /\ UNCHANGED <<invoice, note, dispute>>

BeginStep(s) ==
    \E u \in Users :
        \/ \E i \in Invoices, to \in InvoiceStates : BeginTransition(s, u, i, to)
        \/ \E i \in Invoices, d \in Disputes : BeginDispute(s, u, i, d)
        \/ \E d \in Disputes, accepted \in BOOLEAN : BeginResolve(s, u, d, accepted)
        \/ \E i \in Invoices, n \in Notes : BeginNote(s, u, i, n)
        \/ \E n \in Notes : BeginIssueNote(s, u, n)

CommitStep(s) ==
    \/ CommitTransition(s) \/ CommitDispute(s) \/ CommitResolve(s)
    \/ CommitNote(s) \/ CommitIssueNote(s) \/ Rollback(s)

Next ==
    \/ \E i \in Invoices, u \in Users : Create(i, u)
    \/ \E s \in Sessions : BeginStep(s) \/ CommitStep(s)

Spec == Init /\ [][Next]_vars
----------------------------------------------------------------------------
\* No invoice reaches the customer unapproved: whatever requests overlap, an
\* invoice that is or was delivered has an approver, and that principal holds
\* invoice.approve.  Nothing keeps him from having triggered the pricing run.
ApprovedBeforeDelivery ==
    \A i \in Invoices :
        (invoice[i].status \in Delivered \/ invoice[i].announced)
            => /\ invoice[i].approver # None
               /\ Can(invoice[i].approver, "invoice.approve")

\* A delivered invoice was announced: no interleaving takes an invoice to a
\* delivered status without the invoice.issued event having been queued.
DeliveredWasAnnounced ==
    \A i \in Invoices : invoice[i].status \in Delivered => invoice[i].announced

\* Notes and disputes are only ever about an invoice the customer was sent,
\* also when its status moved between the route's read and its commit.
NotesOnDelivered ==
    /\ \A n \in Notes : note[n].status # "absent" => invoice[note[n].of].announced
    /\ \A d \in Disputes : dispute[d].status # "absent" => invoice[dispute[d].of].announced
=============================================================================
