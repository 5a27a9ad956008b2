---------------------------- MODULE InvoiceBuild ----------------------------
(***************************************************************************)
(* build_invoice_from_run and next_invoice_number (invoice_service.py) as   *)
(* concurrent sessions next to the pricing requests of PricingRuns.  A      *)
(* build reads a completed run without locking it, takes the next number    *)
(* from the InvoiceSequence row of the organisation with SELECT ... FOR     *)
(* UPDATE, and writes invoice and sequence in one commit.  The sequence row *)
(* does not exist before the first invoice: two first builds may both miss  *)
(* it, both insert it, and the unique index (org_path, pattern_key) lets    *)
(* one of them through.                                                     *)
(*                                                                         *)
(* One organisation and number pattern; amounts and lines are left out.     *)
(***************************************************************************)
EXTENDS PricingRuns

CONSTANTS
    Sessions,   \* database sessions that serve POST /invoices, reused
    NoSession,  \* nobody holds the sequence row
    Invoices    \* ids of the invoices that may come to exist

ASSUME NoSessionAssumption == NoSession \notin Sessions
ASSUME InvoicesAssumption == Invoices # {}

VARIABLES
    invoice,    \* invoice[i]: committed row, number 0 while it does not exist
    nextValue,  \* next_value of the sequence row, 0 while there is no row
    holder,     \* session with the sequence row locked or inserted, uncommitted
    at,         \* at[s]: how far the build of session s has got
    built       \* built[s]: the invoice under construction in session s

bvars == <<invoice, nextValue, holder, at, built>>
allvars == <<rvars, bvars>>

BuildSteps == {"idle", "readRun", "noSequence", "numbered"}
InvoiceRow == [number : Nat, run : Requests \cup {NoRun}]
NoInvoice == [number |-> 0, run |-> NoRun]

\* built[s] is the invoice object of session s, its id and the row it will be;
\* Blank between builds.
Blank == [id |-> CHOOSE i \in Invoices : TRUE, row |-> NoInvoice]

BuildTypeOK ==
    /\ invoice \in [Invoices -> InvoiceRow]
    /\ nextValue \in Nat
    /\ holder \in Sessions \cup {NoSession}
    /\ at \in [Sessions -> BuildSteps]
    /\ built \in [Sessions -> [id : Invoices, row : InvoiceRow]]

Created == {i \in Invoices : invoice[i].number # 0}
Building == {s \in Sessions : at[s] # "idle"}

\* The ids no invoice has; a fresh uuid is one of them, and as nothing tells one
\* id from another it is enough to take one.
Unused == Invoices \ (Created \cup {built[t].id : t \in Building})
NextId == CHOOSE i \in Unused : TRUE

BuildInit ==
    /\ invoice = [i \in Invoices |-> NoInvoice]
    /\ nextValue = 0
    /\ holder = NoSession
    /\ at = [s \in Sessions |-> "idle"]
    /\ built = [s \in Sessions |-> Blank]

BuildAt(s, step) == at' = [at EXCEPT ![s] = step]

\* The request ends and its session is closed.
EndBuild(s) ==
    /\ BuildAt(s, "idle")
    /\ built' = [built EXCEPT ![s] = Blank]
----------------------------------------------------------------------------
\* Fault: the status of the run is not looked at.
ReadAnyRun(s) ==
    /\ at[s] = "idle"
    /\ \E q \in History!Recorded, i \in Unused :
         /\ i = NextId
         /\ built' = [built EXCEPT ![s] = [id |-> i, row |-> [number |-> 0, run |-> q]]]
    /\ BuildAt(s, "readRun")
    /\ UNCHANGED <<invoice, nextValue, holder>>

\* The run is read and must be completed; nothing stops a later reprocessing
\* from superseding it before the invoice is committed.  A fresh uuid names
\* the invoice.
ReadRun(s) ==
    /\ at[s] = "idle"
    /\ \E q \in History!Recorded, i \in Unused :
         /\ run[q].status = "completed"
         /\ i = NextId
         /\ built' = [built EXCEPT ![s] = [id |-> i, row |-> [number |-> 0, run |-> q]]]
    /\ BuildAt(s, "readRun")
    /\ UNCHANGED <<invoice, nextValue, holder>>

\* Fault: SELECT without FOR UPDATE.
ReadSequence(s) ==
    /\ at[s] = "readRun"
    /\ nextValue # 0
    /\ holder' = s
    /\ built' = [built EXCEPT ![s].row.number = nextValue]
    /\ BuildAt(s, "numbered")
    /\ UNCHANGED <<invoice, nextValue>>

\* SELECT ... FOR UPDATE finds the row: wait for its holder, then read the
\* value the holder committed.
LockSequence(s) ==
    /\ at[s] = "readRun"
    /\ nextValue # 0
    /\ holder = NoSession
    /\ holder' = s
    /\ built' = [built EXCEPT ![s].row.number = nextValue]
    /\ BuildAt(s, "numbered")
    /\ UNCHANGED <<invoice, nextValue>>

\* SELECT ... FOR UPDATE finds no committed row, so it locks nothing.
MissSequence(s) ==
    /\ at[s] = "readRun"
    /\ nextValue = 0
    /\ BuildAt(s, "noSequence")
    /\ UNCHANGED <<invoice, nextValue, holder, built>>

\* The first sequence row is inserted with next_value 1 (uncommitted).
InsertSequence(s) ==
    /\ at[s] = "noSequence"
    /\ holder = NoSession
    /\ nextValue = 0
    /\ holder' = s
    /\ built' = [built EXCEPT ![s].row.number = 1]
    /\ BuildAt(s, "numbered")
    /\ UNCHANGED <<invoice, nextValue>>

\* Another first build committed the row meanwhile: IntegrityError, rollback.
SequenceConflict(s) ==
    /\ at[s] = "noSequence"
    /\ holder = NoSession
    /\ nextValue # 0
    /\ EndBuild(s)
    /\ UNCHANGED <<invoice, nextValue, holder>>

\* One commit: the invoice with its lines, and next_value advanced.
CommitBuild(s) ==
    /\ at[s] = "numbered"
    /\ invoice' = [invoice EXCEPT ![built[s].id] = built[s].row]
    /\ nextValue' = built[s].row.number + 1
    /\ holder' = NoSession
    /\ EndBuild(s)

\* Fault: an aborted build leaves its transaction, and so the row lock, open.
AbortKeepsLock(s) ==
    /\ at[s] # "idle"
    /\ EndBuild(s)
    /\ UNCHANGED <<invoice, nextValue, holder>>

\* Fault: an aborted build gives a number back that it may not have taken.
AbortReturnsNumber(s) ==
    /\ at[s] # "idle"
    /\ EndBuild(s)
    /\ holder' = IF holder = s THEN NoSession ELSE holder
    /\ nextValue' = nextValue - 1
    /\ UNCHANGED invoice

\* ValueError (the run has no items), a database error or a lost connection:
\* rolled back, the lock released and the number not used.
AbortBuild(s) ==
    /\ at[s] # "idle"
    /\ EndBuild(s)
    /\ holder' = IF holder = s THEN NoSession ELSE holder
    /\ UNCHANGED <<invoice, nextValue>>

BuildStep(s) ==
    \/ ReadRun(s) \/ LockSequence(s) \/ MissSequence(s) \/ InsertSequence(s)
    \/ SequenceConflict(s) \/ CommitBuild(s) \/ AbortBuild(s)

InvoiceInit == RunsInit /\ BuildInit

InvoiceNext ==
    \/ (\E s \in Sessions : BuildStep(s)) /\ UNCHANGED rvars
    \/ RunsNext /\ UNCHANGED bvars

\* A session that is under way runs on (it need not be aborted), and row and
\* index locks are granted in queue order, so a session that waits for the
\* sequence row gets its turn.
BuildFairness ==
    \A s \in Sessions :
        /\ WF_allvars((MissSequence(s) \/ CommitBuild(s)) /\ UNCHANGED rvars)
        /\ SF_allvars((LockSequence(s) \/ InsertSequence(s) \/ SequenceConflict(s))
                      /\ UNCHANGED rvars)

InvoiceSpec == InvoiceInit /\ [][InvoiceNext]_allvars
FairInvoiceSpec == InvoiceSpec /\ BuildFairness
----------------------------------------------------------------------------
\* The committed invoice numbers are exactly 1 .. next_value - 1, each used
\* once: no number is issued twice by concurrent builds and none is lost by a
\* build that failed after taking it.
NumbersGapless ==
    /\ \A i, j \in Created : invoice[i].number = invoice[j].number => i = j
    /\ \A i \in Created : invoice[i].number < nextValue
    /\ \A n \in 1..(nextValue - 1) : \E i \in Created : invoice[i].number = n

\* An invoice only ever prices a run that completed: never one that failed or
\* was rolled back, though the run is read unlocked and may be superseded
\* between the read and the commit.
InvoicedRunCompleted ==
    \A i \in Created :
        /\ invoice[i].run \in History!Recorded
        /\ run[invoice[i].run].status \in {"completed", "superseded"}

\* A build request always ends, also when it waits for the sequence row.
BuildsEnd == \A s \in Sessions : (at[s] # "idle") ~> (at[s] = "idle")
=============================================================================
