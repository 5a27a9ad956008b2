-------------------------- MODULE ReportSchedules ---------------------------
(***************************************************************************)
(* Scheduled reports (services/schedules.py, api/v1/reports.py) and the     *)
(* e-mail outbox they feed (flush_notifications, services/webhooks.py).     *)
(* Beat starts run_due_schedules every 15 minutes on any worker.  A sweep   *)
(* takes the time once, scans for due schedules and ends that transaction;  *)
(* then it serves them one by one, each in a transaction of its own, from   *)
(* the copies it scanned.  No row is locked: sweeps may overlap, a sweep    *)
(* may be overtaken by the clock or by a toggle, and its commit writes      *)
(* next_run_at whatever stands there.  The object store takes no part in    *)
(* the transaction.                                                        *)
(*                                                                         *)
(* Time is a count of ticks and a cadence a number of ticks with an offset  *)
(* (months have one length).  One organisation, at most one recipient each; *)
(* the rows of a report are left out, and so is the on-demand report, whose *)
(* job names no object and no schedule.  Of the jobs of a schedule the last *)
(* committed one is kept: no code reads an older one again.                *)
(***************************************************************************)
EXTENDS Integers, FiniteSets

CONSTANTS
    Schedules,      \* report schedules
    Workers,        \* Celery workers that may run a sweep
    Flushers,       \* processes that may flush the outbox
    Every,          \* Every[s]: ticks between two occurrences of s
    Offset,         \* Offset[s]: tick of the first occurrence of s
    Report,         \* Report[s]: the report key of s
    Mailed,         \* the schedules with a recipient
    Month,          \* ticks of a billing period
    MaxTime,        \* bound of the clock
    MaxLosses,      \* bound of the processes lost or database errors
    NoObject        \* no object was stored

ASSUME CadenceAssumption ==
    \A s \in Schedules : Every[s] \in Nat \ {0} /\ Offset[s] \in 0..(Every[s] - 1)

\* The keys of the store: a report and a billing period.
Objects == [report : {Report[s] : s \in Schedules}, period : Nat]

ASSUME MailedAssumption == Mailed \subseteq Schedules
ASSUME ObjectAssumption == Month \in Nat \ {0} /\ NoObject \notin Objects

VARIABLES
    now,        \* the clock
    schedule,   \* schedule[s]: the report_schedules row
    job,        \* job[s]: the last export_jobs row committed for s
    stored,     \* keys of the objects in the store
    queued,     \* notification_outbox rows still queued; the others are sent
    written,    \* mails handed to the transport (the file of the local one)
    sweep,      \* sweep[w]: the sweep worker w runs
    batch,      \* batch[f]: mails flusher f has written and not committed
    losses      \* processes lost and database errors so far

rowVars == <<schedule, job, queued>>
mailVars == <<written, batch>>
vars == <<now, rowVars, stored, mailVars, sweep, losses>>

Absent == [enabled |-> FALSE, next |-> -1, created |-> -1]
Idle == [step |-> "idle", at |-> 0, due |-> [s \in {} |-> 0], object |-> NoObject]

\* The next occurrence strictly after `after`.
NextRun(s, after) ==
    ((after - Offset[s]) \div Every[s] + 1) * Every[s] + Offset[s]

\* The key of the object a run at time t writes: report and billing period, so
\* all runs of a period write the same object.
Object(s, t) == [report |-> Report[s], period |-> t \div Month]
NoJob == [at |-> -1, status |-> "none", object |-> NoObject]
AddJob(s, t, status, object) ==
    job' = [job EXCEPT ![s] = [at |-> t, status |-> status, object |-> object]]
Mail(s, t) == [schedule |-> s, at |-> t]

Created == {s \in Schedules : schedule[s].created # -1}
Due == {s \in Created : schedule[s].enabled /\ schedule[s].next <= now}

Init ==
    /\ now = 0
    /\ schedule = [s \in Schedules |-> Absent]
    /\ job = [s \in Schedules |-> NoJob]
    /\ stored = {}
    /\ queued = {} /\ written = {}
    /\ sweep = [w \in Workers |-> Idle]
    /\ batch = [f \in Flushers |-> {}]
    /\ losses = 0
----------------------------------------------------------------------------
Tick ==
    /\ now < MaxTime
    /\ now' = now + 1
    /\ UNCHANGED <<rowVars, stored, mailVars, sweep, losses>>

\* POST /reports/schedules.
CreateSchedule(s) ==
    /\ s \notin Created
    /\ schedule' = [schedule EXCEPT
         ![s] = [enabled |-> TRUE, next |-> NextRun(s, now), created |-> now]]
    /\ UNCHANGED <<now, job, queued, stored, mailVars, sweep, losses>>

\* POST /reports/schedules/{id}/toggle: the one column that changes is written.
\* A schedule enabled again keeps its next_run_at and may be due at once.
ToggleSchedule(s) ==
    /\ s \in Created
    /\ schedule' = [schedule EXCEPT ![s].enabled = ~@]
    /\ UNCHANGED <<now, job, queued, stored, mailVars, sweep, losses>>

----------------------------------------------------------------------------
\* What a sweep still has to serve: its due schedules, each with the next_run_at
\* it was scanned with, which orders them (rows of the same tick come in one
\* fixed order; no property tells two such orders apart).
First(due) == CHOOSE s \in DOMAIN due : \A r \in DOMAIN due : due[s] <= due[r]
Rest(due) == [s \in DOMAIN due \ {First(due)} |-> due[s]]

\* The due scan; one that finds nothing ends the sweep at once.
BeginSweep(w) ==
    /\ sweep[w].step = "idle"
    /\ Due # {}
    /\ sweep' = [sweep EXCEPT ![w] =
         [step |-> "serving", at |-> now, object |-> NoObject,
          due |-> [s \in Due |-> schedule[s].next]]]
    /\ UNCHANGED <<now, rowVars, stored, mailVars, losses>>

\* The schedule worker w serves next is done with; after the last one it is idle.
NextDue(w) ==
    LET left == Rest(sweep[w].due) IN
    sweep' = [sweep EXCEPT ![w] =
        IF DOMAIN left = {} THEN Idle
        ELSE [@ EXCEPT !.step = "serving", !.due = left, !.object = NoObject]]

Advance(s, t) == schedule' = [schedule EXCEPT ![s].next = NextRun(s, t)]

\* Fault: a report that cannot be generated is left as it is, and retried.
RowsFailAgain(w) ==
    /\ sweep[w].step = "serving"
    /\ LET s == First(sweep[w].due) IN
         /\ AddJob(s, sweep[w].at, "failed", NoObject)
         /\ UNCHANGED schedule
    /\ NextDue(w)
    /\ UNCHANGED <<now, queued, stored, mailVars, losses>>

\* The report is unknown or its data cannot be aggregated: a failed job, and the
\* schedule waits for its next occurrence.
RowsFail(w) ==
    /\ sweep[w].step = "serving"
    /\ LET s == First(sweep[w].due) IN
         /\ AddJob(s, sweep[w].at, "failed", NoObject)
         /\ Advance(s, sweep[w].at)
    /\ NextDue(w)
    /\ UNCHANGED <<now, queued, stored, mailVars, losses>>

\* Fault: next_run_at is committed before the report is stored.
PutObjectAdvanced(w) ==
    /\ sweep[w].step = "serving"
    /\ LET s == First(sweep[w].due)
           object == Object(s, sweep[w].at)
       IN /\ Advance(s, sweep[w].at)
          /\ stored' = stored \cup {object}
          /\ sweep' = [sweep EXCEPT ![w].step = "put", ![w].object = object]
    /\ UNCHANGED <<now, job, queued, mailVars, losses>>

\* The rows are read and the object is put, while the transaction is open.
PutObject(w) ==
    /\ sweep[w].step = "serving"
    /\ LET object == Object(First(sweep[w].due), sweep[w].at) IN
         /\ stored' = stored \cup {object}
         /\ sweep' = [sweep EXCEPT ![w].step = "put", ![w].object = object]
    /\ UNCHANGED <<now, rowVars, mailVars, losses>>

\* Fault: the error of the store is logged and the key kept.
StorageFailsUnseen(w) ==
    /\ sweep[w].step = "serving"
    /\ LET object == Object(First(sweep[w].due), sweep[w].at) IN
         sweep' = [sweep EXCEPT ![w].step = "put", ![w].object = object]
    /\ UNCHANGED <<now, rowVars, stored, mailVars, losses>>

\* The rows are read and the store refuses the object.
StorageFails(w) ==
    /\ sweep[w].step = "serving"
    /\ sweep' = [sweep EXCEPT ![w].step = "put"]
    /\ UNCHANGED <<now, rowVars, stored, mailVars, losses>>

\* One commit: the job, with it the report.ready event if the object was stored,
\* the mail, and next_run_at counted from the time of the sweep.  The mail goes
\* out also when the store failed.
CommitReport(w) ==
    /\ sweep[w].step = "put"
    /\ LET s == First(sweep[w].due)
           t == sweep[w].at
           ready == sweep[w].object # NoObject
       IN /\ AddJob(s, t, IF ready THEN "completed" ELSE "failed", sweep[w].object)
          /\ queued' = IF s \in Mailed THEN queued \cup {Mail(s, t)} ELSE queued
          /\ Advance(s, t)
    /\ NextDue(w)
    /\ UNCHANGED <<now, stored, mailVars, losses>>

\* The worker is lost, or the database fails a statement, so that the handler's
\* own UPDATE fails as well: the open transaction is rolled back, the sweep ends,
\* and what was put stays in the store.
LoseSweep(w) ==
    /\ losses < MaxLosses
    /\ sweep[w].step # "idle"
    /\ sweep' = [sweep EXCEPT ![w] = Idle]
    /\ losses' = losses + 1
    /\ UNCHANGED <<now, rowVars, stored, mailVars>>

----------------------------------------------------------------------------
\* Fault: the mails are marked sent before they are written.
MarkMails(f) ==
    /\ batch[f] = {}
    /\ queued # {}
    /\ batch' = [batch EXCEPT ![f] = queued]
    /\ queued' = {}
    /\ UNCHANGED <<now, schedule, job, stored, written, sweep, losses>>

\* Queued mails are read without a lock and written to the transport.
WriteMails(f) ==
    /\ batch[f] = {}
    /\ queued # {}
    /\ batch' = [batch EXCEPT ![f] = queued]
    /\ written' = written \cup queued
    /\ UNCHANGED <<now, rowVars, stored, sweep, losses>>

\* The rows are marked sent and committed.
CommitMails(f) ==
    /\ batch[f] # {}
    /\ queued' = queued \ batch[f]
    /\ batch' = [batch EXCEPT ![f] = {}]
    /\ UNCHANGED <<now, schedule, job, stored, written, sweep, losses>>

\* The process is lost after the write: the mails stay queued.
LoseMails(f) ==
    /\ losses < MaxLosses
    /\ batch[f] # {}
    /\ batch' = [batch EXCEPT ![f] = {}]
    /\ losses' = losses + 1
    /\ UNCHANGED <<now, rowVars, stored, written, sweep>>

Serve(w) == RowsFail(w) \/ PutObject(w) \/ StorageFails(w) \/ CommitReport(w)

Next ==
    \/ Tick
    \/ \E s \in Schedules : CreateSchedule(s) \/ ToggleSchedule(s)
    \/ \E w \in Workers : BeginSweep(w) \/ Serve(w) \/ LoseSweep(w)
    \/ \E f \in Flushers : WriteMails(f) \/ CommitMails(f) \/ LoseMails(f)

\* Beat goes on starting sweeps and a worker takes them (the queue of reports is
\* consumed, see TaskDispatch); a sweep under way runs on unless it is lost.
\* Nothing is assumed of the outbox: beat does not reach flush_notifications.
Fairness ==
    /\ WF_vars(\E w \in Workers : BeginSweep(w))
    /\ \A w \in Workers : WF_vars(Serve(w))

Spec == Init /\ [][Next]_vars /\ Fairness
----------------------------------------------------------------------------
\* What is announced exists: the object that a completed job or a report.ready
\* event names is in the store, wherever the sweep was lost between the put and
\* the commit, and a scheduled job without an object is not completed.
ReportWasStored ==
    \A s \in Schedules :
        /\ job[s].object # NoObject => job[s].object \in stored
        /\ job[s].status = "completed" <=> job[s].object # NoObject

\* A schedule moves on only with a job to show for it: next_run_at is the first
\* occurrence after the last committed run (at first, after the creation), so no
\* lost sweep passes over a report.
NextFollowsJob ==
    \A s \in Created : schedule[s].next =
        NextRun(s, IF job[s] = NoJob THEN schedule[s].created ELSE job[s].at)

\* The mail of a completed report is not lost on its way: it stays in the outbox
\* until it was written to the transport, at least once.
MailNotLost ==
    \A s \in Mailed : job[s].status = "completed" => Mail(s, job[s].at) \in queued \cup written

\* A due schedule is served in the end, or was switched off, whatever sweep is
\* lost, overtaken by the clock, or finds that its report fails every time.
DueIsServed == \A s \in Schedules : (s \in Due) ~> (s \notin Due)
=============================================================================
