---------------------------- MODULE PricingRuns -----------------------------
(***************************************************************************)
(* run_pricing (services/pricing_service.py) for one customer and billing   *)
(* period, as concurrent requests, each in its own READ COMMITTED           *)
(* transaction.  A request reads the highest run number, then the latest    *)
(* completed run, inserts its own row, prices, and commits.  No row is      *)
(* locked before the insert: two requests may read the same numbers.  What  *)
(* keeps the history linear is the unique index                             *)
(* (org_path, customer_id, period_start, run_number): an insert waits for   *)
(* an uncommitted row with the same number and fails when it is committed.  *)
(*                                                                         *)
(* `run` holds committed rows only.  A request's own row is invisible to    *)
(* the others until it commits: it is pc = "pricing" with number top + 1.   *)
(* Not modelled: the priced amounts (rule engine) and the rows' timestamps. *)
(***************************************************************************)
EXTENDS Integers

CONSTANTS
    Requests,   \* pricing requests; each is the id of the row it inserts
    NoRun       \* no previous run

ASSUME NoRunAssumption == NoRun \notin Requests

VARIABLES
    run,    \* run[q]: the committed pricing_runs row of request q
    pc,     \* pc[q]: how far request q has got
    top,    \* top[q]: the run number q read (max_n)
    prev    \* prev[q]: the completed run q read (previous)

rvars == <<run, pc, top, prev>>

History == INSTANCE RunHistory WITH run <- run, Requests <- Requests, NoRun <- NoRun

Steps == {"start", "readTop", "readPrev", "pricing", "done", "failed", "refused"}
Ended == {"done", "failed", "refused"}

RunRow == [number : Nat,
           status : {"absent", "completed", "failed", "superseded"},
           supersedes : Requests \cup {NoRun}]

RunsTypeOK ==
    /\ run \in [Requests -> RunRow]
    /\ pc \in [Requests -> Steps]
    /\ top \in [Requests -> Nat]
    /\ prev \in [Requests -> Requests \cup {NoRun}]

RunsInit ==
    /\ History!Init
    /\ pc = [q \in Requests |-> "start"]
    /\ top = [q \in Requests |-> 0]
    /\ prev = [q \in Requests |-> NoRun]

Goto(q, step) == pc' = [pc EXCEPT ![q] = step]

----------------------------------------------------------------------------
\* Contract version missing, not covering the period, or of another customer:
\* ValueError before anything is written.
Refuse(q) ==
    /\ pc[q] = "start"
    /\ Goto(q, "refused")
    /\ UNCHANGED <<run, top, prev>>

\* SELECT coalesce(max(run_number), 0): sees committed rows of any status.
ReadTop(q) ==
    /\ pc[q] = "start"
    /\ \E m \in History!Numbers : History!IsTop(m) /\ top' = [top EXCEPT ![q] = m]
    /\ Goto(q, "readTop")
    /\ UNCHANGED <<run, prev>>

\* A second statement, so a second snapshot: rows committed in between show.
ReadPrevious(q) ==
    /\ pc[q] = "readTop"
    /\ \E p \in History!RunIds : History!IsCurrent(p) /\ prev' = [prev EXCEPT ![q] = p]
    /\ Goto(q, "readPrev")
    /\ UNCHANGED <<run, top>>

\* Fault: no unique index stops an insert next to an uncommitted equal number.
NumberNeverHeld(q) == FALSE

\* Another transaction holds an uncommitted row with the number q wants.
NumberHeld(q) ==
    \E r \in Requests \ {q} : pc[r] = "pricing" /\ top[r] = top[q]

\* Fault: the unique index covers completed runs only.
TakenByCompleted(q) ==
    \E r \in History!Recorded : run[r].status = "completed" /\ run[r].number = top[q] + 1

\* The number q wants is committed already.
NumberTaken(q) ==
    \E r \in History!Recorded : run[r].number = top[q] + 1

\* session.flush() of the new row: the unique index admits it.
Insert(q) ==
    /\ pc[q] = "readPrev"
    /\ ~NumberHeld(q)
    /\ ~NumberTaken(q)
    /\ Goto(q, "pricing")
    /\ UNCHANGED <<run, top, prev>>

\* The unique index refuses it: IntegrityError, outside the try, so the
\* request ends with nothing written.
InsertConflict(q) ==
    /\ pc[q] = "readPrev"
    /\ ~NumberHeld(q)
    /\ NumberTaken(q)
    /\ Goto(q, "refused")
    /\ UNCHANGED <<run, top, prev>>

\* Pricing succeeded: the row completes, its predecessor is superseded, and
\* both are committed together.
Complete(q) ==
    /\ pc[q] = "pricing"
    /\ History!Record(q, top[q] + 1, prev[q], "completed")
    /\ Goto(q, "done")
    /\ UNCHANGED <<top, prev>>

\* Fault: the predecessor is superseded before the outcome is known.
FailSupersedes(q) ==
    /\ pc[q] = "pricing"
    /\ run' = [x \in Requests |->
                 IF x = q THEN [number |-> top[q] + 1, status |-> "failed",
                                supersedes |-> prev[q]]
                 ELSE IF x = prev[q] THEN [run[x] EXCEPT !.status = "superseded"]
                 ELSE run[x]]
    /\ Goto(q, "failed")
    /\ UNCHANGED <<top, prev>>

\* Pricing raised: the row is committed as failed, the predecessor untouched.
Fail(q) ==
    /\ pc[q] = "pricing"
    /\ History!Record(q, top[q] + 1, prev[q], "failed")
    /\ Goto(q, "failed")
    /\ UNCHANGED <<top, prev>>

\* The process or the connection is lost before the commit: rolled back.
Lose(q) ==
    /\ pc[q] \in {"readTop", "readPrev", "pricing"}
    /\ Goto(q, "refused")
    /\ UNCHANGED <<run, top, prev>>

RequestStep(q) ==
    \/ Refuse(q) \/ ReadTop(q) \/ ReadPrevious(q)
    \/ Insert(q) \/ InsertConflict(q)
    \/ Complete(q) \/ Fail(q) \/ Lose(q)

RunsNext == \E q \in Requests : RequestStep(q)

RunsSpec == RunsInit /\ [][RunsNext]_rvars
----------------------------------------------------------------------------
\* Run numbers are unique and leave no gap, whatever requests were lost or
\* failed on the way (run_number = max + 1 with no lock before the insert).
NumbersLinear ==
    /\ \A p, q \in History!Recorded : run[p].number = run[q].number => p = q
    /\ \A q \in History!Recorded : \A k \in 1..run[q].number :
         \E p \in History!Recorded : run[p].number = k

\* At most one run of the period is current: two concurrent reprocessings can
\* not both leave their run `completed`.
OneCurrentRun ==
    \A p, q \in History!Recorded :
        run[p].status = "completed" /\ run[q].status = "completed" => p = q

\* A superseded run has exactly one completed (or later superseded) successor
\* that names it, so the chain of supersedes_id can be walked back from the
\* current run without a fork.
Successors(p) ==
    {q \in History!Recorded : run[q].supersedes = p
                              /\ run[q].status \in {"completed", "superseded"}}
ChainUnforked ==
    \A p \in History!Recorded :
        /\ run[p].status = "superseded" => \E q \in Successors(p) : TRUE
        /\ \A q, r \in Successors(p) : q = r
        /\ \A q \in Successors(p) : run[q].number > run[p].number

\* Every step of the unlocked code is one atomic recording of RunHistory or
\* invisible: no interleaving shows a reader a history RunHistory forbids.
ImplementsHistory == History!Spec

=============================================================================
