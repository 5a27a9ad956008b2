----------------------------- MODULE RunHistory -----------------------------
(***************************************************************************)
(* What a reader of the pricing history of ONE customer and billing period *)
(* is promised: runs are recorded one at a time, each takes the next run    *)
(* number, a completed run supersedes the run that was current until then,  *)
(* and nothing recorded is ever rewritten except completed -> superseded.   *)
(* Recording a run is one atomic step here; PricingRuns.tla shows that the  *)
(* unlocked read-then-write code of pricing_service.py implements it.       *)
(***************************************************************************)
EXTENDS Integers

CONSTANTS
    Requests,   \* ids of the PricingRun rows that may come to exist
    NoRun       \* supersedes_id IS NULL

VARIABLE run    \* run[q]: the committed pricing_runs row with id q

Absent == [number |-> 0, status |-> "absent", supersedes |-> NoRun]

Recorded == {q \in Requests : run[q].status # "absent"}

\* m is what SELECT coalesce(max(run_number), 0) returns.
IsTop(m) ==
    /\ m = 0 \/ \E q \in Recorded : run[q].number = m
    /\ \A q \in Recorded : run[q].number <= m

\* p is the completed run with the highest number, NoRun when there is none.
IsCurrent(p) ==
    \/ /\ p = NoRun
       /\ \A q \in Recorded : run[q].status # "completed"
    \/ /\ p \in Recorded
       /\ run[p].status = "completed"
       /\ \A q \in Recorded :
            run[q].status = "completed" => run[q].number <= run[p].number

\* Candidates for the two queries above.
Numbers == {0} \cup {run[q].number : q \in Requests}
RunIds == Requests \cup {NoRun}

\* Fault: the predecessor of a completed run is not marked superseded.
RecordLeavesPredecessor(q, n, p, st) ==
    run' = [run EXCEPT ![q] = [number |-> n, status |-> st, supersedes |-> p]]

\* The table after row q is written with number n and status st, and, when the
\* run completed, its predecessor p is marked superseded.
Record(q, n, p, st) ==
    run' = [x \in Requests |->
              IF x = q THEN [number |-> n, status |-> st, supersedes |-> p]
              ELSE IF x = p /\ st = "completed"
                   THEN [run[x] EXCEPT !.status = "superseded"]
                   ELSE run[x]]

Init == run = [q \in Requests |-> Absent]

\* A run is recorded: it has the next number and names the current run.
RecordRun(q, st) ==
    /\ q \notin Recorded
    /\ \E m \in Numbers, p \in RunIds :
         /\ IsTop(m)
         /\ IsCurrent(p)
         /\ Record(q, m + 1, p, st)

Next == \E q \in Requests : RecordRun(q, "completed") \/ RecordRun(q, "failed")

Spec == Init /\ [][Next]_run
=============================================================================
