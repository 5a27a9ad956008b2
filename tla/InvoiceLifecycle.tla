-------------------------- MODULE InvoiceLifecycle --------------------------
(***************************************************************************)
(* The tables of the invoice lifecycle: the transition whitelist and the    *)
(* permissions of services/invoice_lifecycle.py, the status sets other      *)
(* routes test, and the Postgres trigger that guards invoices.              *)
(***************************************************************************)

InvoiceStates ==
    {"draft", "calculated", "under_review", "approved", "issued", "exported",
     "paid_or_settled", "disputed", "corrected", "voided"}

\* ALLOWED: the whitelist of POST /invoices/{id}/transition.
Allowed(frm) ==
    CASE frm = "draft"           -> {"calculated", "voided"}
      [] frm = "calculated"      -> {"under_review", "draft", "voided"}
      [] frm = "under_review"    -> {"approved", "calculated", "voided"}
      [] frm = "approved"        -> {"issued", "under_review", "voided"}
      [] frm = "issued"          -> {"exported", "paid_or_settled", "disputed",
                                     "corrected", "voided"}
      [] frm = "exported"        -> {"paid_or_settled", "disputed", "corrected"}
      [] frm = "paid_or_settled" -> {"corrected"}
      [] frm = "disputed"        -> {"under_review", "corrected", "voided"}
      [] OTHER                   -> {}

\* Fault: one permission for every edge.
RequiredToWrite(frm, to) == {"invoice.write"}

\* TRANSITION_PERMISSION: the permissions a transition needs. An edge that is
\* not in the table needs none.
Required(frm, to) ==
    CASE frm = "draft" /\ to = "calculated"         -> {"invoice.write"}
      [] frm = "calculated" /\ to = "under_review"  -> {"invoice.write"}
      [] frm = "under_review" /\ to = "approved"    -> {"invoice.approve"}
      [] frm = "approved" /\ to = "issued"          -> {"invoice.issue"}
      [] frm = "issued" /\ to = "exported"          -> {"export.data"}
      [] frm = "issued" /\ to = "paid_or_settled"   -> {"invoice.read"}
      [] frm = "issued" /\ to = "disputed"          -> {"dispute.write"}
      [] frm = "disputed" /\ to = "under_review"    -> {"invoice.write"}
      [] frm = "issued" /\ to = "corrected"         -> {"invoice.correct"}
      [] frm = "disputed" /\ to = "corrected"       -> {"invoice.correct"}
      [] OTHER                                      -> {}

\* invoice_immutable_guard: the row trigger looks at the committed status, so it
\* also stops a writer whose read is stale. It guards `issued` only; the
\* financial columns it also guards are written by nothing after the build.
TriggerRejects(old, new) ==
    /\ old = "issued"
    /\ new # old
    /\ new \notin {"exported", "paid_or_settled", "disputed", "corrected", "voided"}

\* Fault: a dispute may be filed as soon as the invoice is approved.
DisputableOnceApproved == {"approved", "issued", "exported", "paid_or_settled"}

\* Fault: a note may be drafted as soon as the invoice is approved.
CorrectableOnceApproved ==
    {"approved", "issued", "exported", "paid_or_settled", "disputed", "corrected"}

\* Statuses in which a dispute may be filed, a note drafted, a note issued.
Disputable == {"issued", "exported", "paid_or_settled"}
Correctable == {"issued", "exported", "paid_or_settled", "disputed", "corrected"}
NoteIssuable == {"issued", "exported", "paid_or_settled", "disputed"}

\* The customer holds the invoice: it was issued and not voided since.
Delivered == {"issued", "exported", "paid_or_settled", "disputed", "corrected"}
=============================================================================
