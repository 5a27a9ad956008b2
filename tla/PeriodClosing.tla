---------------------------- MODULE PeriodClosing ----------------------------
(***************************************************************************)
(* Closing a billing period: reconciliation runs and their exceptions       *)
(* (reconciliation_service.py, billing.py), maker-checker approvals         *)
(* (approvals.py), waivers and the close gate (ops.py), for one             *)
(* organisation and period, as concurrent requests.  A request reads rows   *)
(* without locks, one snapshot per statement, and writes in one commit the  *)
(* columns whose value differs from the one it loaded (SQLAlchemy's unit of *)
(* work), onto whatever the row has become.                                *)
(*                                                                         *)
(* Abstracted: what a reconciliation compares. A run finds any set of       *)
(* material issues; minor ones do not block a close and are left out. The   *)
(* request number of an approval is left out: two requests that count the   *)
(* same rows clash on its unique index and one is refused unwritten.        *)
(***************************************************************************)
EXTENDS Naturals

CONSTANTS
    Users,
    Can(_, _),  \* Can(u, p): user u holds permission p
    Sessions,   \* request slots, reused
    Runs,       \* reconciliation runs, numbered by created_at (start of the txn)
    Issues,     \* what a run may object to (dedupe_key)
    Approvals,  \* approval request ids
    None        \* SQL NULL

ASSUME ClosingAssumption == Runs \subseteq Nat /\ None \notin Users \cup Approvals

VARIABLES
    completed,  \* the committed reconciliation runs
    exc,        \* exc[<<r, k>>]: the material exception of run r about issue k
    approval,   \* approval[a]: a recon_waiver approval
    period,     \* the period_closes row and, as a ghost, the run it was gated on
    txn,        \* txn[s]: the request in slot s
    granted,    \* history: approvals that were committed as approved
    cleared     \* history: exceptions that were committed as resolved or waived

vars == <<completed, exc, approval, period, txn, granted, cleared>>

Exceptions == Runs \X Issues
ExcStates == {"absent", "open", "investigating", "resolved", "waived"}
ExcRow == [status : ExcStates, waivedBy : Users \cup {None}, waiver : Approvals \cup {None}]
Decisions == {"approved", "denied", "cancelled"}
ApprovalRow == [status : {"absent", "pending"} \cup Decisions,
                of : Exceptions \cup {None},
                maker : Users \cup {None}, checker : Users \cup {None}]
PeriodRow == [status : {"open", "closed"}, by : Users \cup {None}, run : Runs \cup {None}]

Idle == [route |-> "idle"]
Txn == {Idle}
       \cup [route : {"reconcile"}, run : Runs]
       \cup [route : {"decide"}, user : Users, approval : Approvals, to : Decisions]
       \cup [route : {"exception"}, exc : Exceptions, seen : ExcRow, new : ExcRow]
       \cup [route : {"close", "gate", "closing"}, user : Users, run : Runs,
             open : SUBSET Exceptions]

TypeOK ==
    /\ completed \subseteq Runs
    /\ exc \in [Exceptions -> ExcRow]
    /\ approval \in [Approvals -> ApprovalRow]
    /\ period \in PeriodRow
    /\ txn \in [Sessions -> Txn]
    /\ granted \subseteq Approvals
    /\ cleared \subseteq Exceptions

Init ==
    /\ completed = {}
    /\ exc = [e \in Exceptions |-> [status |-> "absent", waivedBy |-> None, waiver |-> None]]
    /\ approval = [a \in Approvals |-> [status |-> "absent", of |-> None,
                                        maker |-> None, checker |-> None]]
    /\ period = [status |-> "open", by |-> None, run |-> None]
    /\ txn = [s \in Sessions |-> Idle]
    /\ granted = {}
    /\ cleared = {}

Goto(s, t) == txn' = [txn EXCEPT ![s] = t]

Begin(s, t) ==
    /\ txn[s] = Idle
    /\ Goto(s, t)
    /\ UNCHANGED <<completed, exc, approval, period, granted, cleared>>
----------------------------------------------------------------------------
\* run_reconciliation: created_at is the start of the transaction, the run and
\* its exceptions appear together when it commits.
Started == completed \cup {r \in Runs : \E s \in Sessions :
                               txn[s].route = "reconcile" /\ txn[s].run = r}

BeginReconcile(s, u, r) ==
    /\ Can(u, "recon.read")
    /\ \A q \in Started : q < r
    /\ Begin(s, [route |-> "reconcile", run |-> r])

CommitReconcile(s, found) ==
    LET t == txn[s] IN
    /\ t.route = "reconcile"
    /\ completed' = completed \cup {t.run}
    /\ exc' = [e \in Exceptions |->
                 IF e \in {t.run} \X found THEN [exc[e] EXCEPT !.status = "open"]
                 ELSE exc[e]]
    /\ Goto(s, Idle)
    /\ UNCHANGED <<approval, period, granted, cleared>>

\* Fault: a status the column does not know.
RequestUnknown(u, e, a) ==
    /\ exc[e].status # "absent"
    /\ approval[a].status = "absent"
    /\ approval' = [approval EXCEPT ![a] = [status |-> "requested", of |-> e,
                                            maker |-> u, checker |-> None]]
    /\ UNCHANGED <<completed, exc, period, txn, granted, cleared>>

\* request_waiver and create_approval.
RequestWaiver(u, e, a) ==
    /\ Can(u, "recon.waive")
    /\ exc[e].status # "absent"
    /\ approval[a].status = "absent"
    /\ approval' = [approval EXCEPT ![a] = [status |-> "pending", of |-> e,
                                            maker |-> u, checker |-> None]]
    /\ UNCHANGED <<completed, exc, period, txn, granted, cleared>>

\* Fault: the maker may decide too.
BeginDecideOwn(s, u, a, decision) ==
    /\ approval[a].status = "pending"
    /\ decision = "cancelled" => approval[a].maker = u
    /\ Begin(s, [route |-> "decide", user |-> u, approval |-> a, to |-> decision])

\* decide: the maker may cancel, another user with the permission of the kind
\* may approve or deny; all of it checked on the row as loaded.
BeginDecide(s, u, a, decision) ==
    /\ approval[a].status = "pending"
    /\ IF decision = "cancelled"
       THEN approval[a].maker = u
       ELSE Can(u, "recon.waive") /\ approval[a].maker # u
    /\ Begin(s, [route |-> "decide", user |-> u, approval |-> a, to |-> decision])

CommitDecide(s) ==
    LET t == txn[s] IN
    /\ t.route = "decide"
    /\ approval' = [approval EXCEPT ![t.approval].status = t.to,
                                    ![t.approval].checker = t.user]
    /\ granted' = IF t.to = "approved" THEN granted \cup {t.approval} ELSE granted
    /\ Goto(s, Idle)
    /\ UNCHANGED <<completed, exc, period, cleared>>

\* Fault: a waiver that was merely asked for counts.
AskedFor(e) ==
    {a \in Approvals : approval[a].of = e /\ approval[a].status \in {"pending", "approved"}}

\* require_approved: any approval of the exception that reads as approved.
ApprovedFor(e) == {a \in Approvals : approval[a].of = e /\ approval[a].status = "approved"}

\* mark_waived: not by the one who asked for the waiver; whatever the status of
\* the exception. Its two reads are one step here.
BeginMarkWaived(s, u, e) ==
    /\ Can(u, "recon.waive")
    /\ exc[e].status # "absent"
    /\ \E a \in ApprovedFor(e) :
         /\ approval[a].maker # u
         /\ Begin(s, [route |-> "exception", exc |-> e, seen |-> exc[e],
                      new |-> [status |-> "waived", waivedBy |-> u, waiver |-> a]])

\* resolve_exception: also whatever the status; only `resolved` is guarded.
BeginUpdateException(s, u, e, to) ==
    /\ exc[e].status # "absent"
    /\ to = "resolved" => Can(u, "recon.resolve")
    /\ Begin(s, [route |-> "exception", exc |-> e, seen |-> exc[e],
                 new |-> [exc[e] EXCEPT !.status = to]])

\* The UPDATE of a row: changed columns only.
Flushed(row, seen, new) ==
    [c \in DOMAIN row |-> IF new[c] # seen[c] THEN new[c] ELSE row[c]]

CommitException(s) ==
    LET t == txn[s]
        row == Flushed(exc[t.exc], t.seen, t.new)
    IN /\ t.route = "exception"
       /\ exc' = [exc EXCEPT ![t.exc] = row]
       /\ cleared' = IF row.status \in {"resolved", "waived"}
                     THEN cleared \cup {t.exc} ELSE cleared
       /\ Goto(s, Idle)
       /\ UNCHANGED <<completed, approval, period, granted>>

\* close_period, statement by statement: no close yet and the latest completed
\* run; its open exceptions; an approved waiver for each (one statement per
\* exception, one step here); the commit.
BeginClose(s, u) ==
    /\ Can(u, "period.close")
    /\ period.status # "closed"
    /\ \E r \in completed :
         /\ \A q \in completed : q <= r
         /\ Begin(s, [route |-> "close", user |-> u, run |-> r, open |-> {}])

\* Fault: an exception under investigation does not block the close.
ReadOpenOnly(s) ==
    LET t == txn[s]
        open == {e \in {t.run} \X Issues : exc[e].status = "open"}
    IN /\ t.route = "close"
       /\ Goto(s, [route |-> "gate", user |-> t.user, run |-> t.run, open |-> open])
       /\ UNCHANGED <<completed, exc, approval, period, granted, cleared>>

ReadOpen(s) ==
    LET t == txn[s]
        open == {e \in {t.run} \X Issues : exc[e].status \in {"open", "investigating"}}
    IN /\ t.route = "close"
       /\ Goto(s, [route |-> "gate", user |-> t.user, run |-> t.run, open |-> open])
       /\ UNCHANGED <<completed, exc, approval, period, granted, cleared>>

ReadWaivers(s) ==
    LET t == txn[s] IN
    /\ t.route = "gate"
    /\ \A e \in t.open : ApprovedFor(e) # {}
    /\ Goto(s, [t EXCEPT !.route = "closing"])
    /\ UNCHANGED <<completed, exc, approval, period, granted, cleared>>

\* Two closes clash on the unique index (org_path, billing_period_start).
CommitClose(s) ==
    LET t == txn[s] IN
    /\ t.route = "closing"
    /\ period.status # "closed"
    /\ period' = [status |-> "closed", by |-> t.user, run |-> t.run]
    /\ Goto(s, Idle)
    /\ UNCHANGED <<completed, exc, approval, granted, cleared>>

\* Refused after the reads (409), refused by an index, or lost: nothing written.
Rollback(s) ==
    /\ txn[s] # Idle
    /\ Goto(s, Idle)
    /\ UNCHANGED <<completed, exc, approval, period, granted, cleared>>

BeginStep(s, u) ==
    \/ \E r \in Runs : BeginReconcile(s, u, r)
    \/ \E a \in Approvals, decision \in Decisions : BeginDecide(s, u, a, decision)
    \/ \E e \in Exceptions : BeginMarkWaived(s, u, e)
    \/ \E e \in Exceptions, to \in {"investigating", "resolved"} :
         BeginUpdateException(s, u, e, to)
    \/ BeginClose(s, u)

CommitStep(s) ==
    \/ \E found \in SUBSET Issues : CommitReconcile(s, found)
    \/ CommitDecide(s) \/ CommitException(s)
    \/ ReadOpen(s) \/ ReadWaivers(s) \/ CommitClose(s) \/ Rollback(s)

Next ==
    \/ \E u \in Users, e \in Exceptions, a \in Approvals : RequestWaiver(u, e, a)
    \/ \E s \in Sessions : CommitStep(s) \/ \E u \in Users : BeginStep(s, u)

Spec == Init /\ [][Next]_vars
----------------------------------------------------------------------------
\* Maker is never checker: an approval that ended approved or denied was decided
\* by somebody else, a cancelled one by its maker, also when two decisions that
\* both found it pending overwrite each other.
MakerIsNotChecker ==
    \A a \in Approvals :
        /\ approval[a].status \in {"approved", "denied"}
             => approval[a].checker \notin {None, approval[a].maker}
        /\ approval[a].status = "cancelled" => approval[a].checker = approval[a].maker

\* A waived exception names a waiver about itself that was granted, though the
\* row may be assembled from the columns of several overlapping requests.
WaivedWasGranted ==
    \A e \in Exceptions :
        exc[e].status = "waived"
            => /\ exc[e].waiver \in granted
               /\ approval[exc[e].waiver].of = e
               /\ exc[e].waivedBy # None

\* The close gate cannot be skipped: every material exception of the run the
\* close looked at was resolved, waived or had a granted waiver.
ClosedRunWasClear ==
    period.status = "closed" =>
        /\ period.run \in completed
        /\ \A e \in {period.run} \X Issues :
             exc[e].status = "absent" \/ e \in cleared
                \/ \E a \in granted : approval[a].of = e
=============================================================================
