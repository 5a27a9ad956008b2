---------------------------- MODULE TaskDispatch ----------------------------
(***************************************************************************)
(* The background jobs: Celery beat publishes a message per schedule entry, *)
(* a route puts it in a queue, a worker that consumes the queue looks the   *)
(* task up by name, runs it and acknowledges it afterwards (task_acks_late, *)
(* task_reject_on_worker_lost: the message of a lost worker is put back).   *)
(* The tables are those of tasks/__init__.py and the @task decorators; beat,*)
(* broker and worker are Celery's, modelled as the application sets them up.*)
(*                                                                         *)
(* A queue is FIFO in Redis; here it is a count per entry, and its order    *)
(* shows in the fairness only.  A task name is <<module, name>>.            *)
(***************************************************************************)
EXTENDS Naturals, FiniteSets

CONSTANTS
    Entries,        \* entries of beat_schedule
    Workers,        \* worker processes (prefetch multiplier 1: one message each)
    WorkerQueues,   \* the queues named by the worker command's -Q
    NoEntry,        \* an idle worker
    MaxTicks,       \* bound: publications of one entry
    MaxLosses       \* bound: lost workers

BeatSchedule == {"nightly-session-prune", "scheduled-reports", "due-connectors",
                 "nightly-finops-passes", "integrations-sweep"}

ASSUME DispatchAssumption ==
    /\ Entries \subseteq BeatSchedule /\ NoEntry \notin Entries
    /\ MaxTicks \in Nat /\ MaxLosses \in Nat /\ IsFiniteSet(Workers)

\* beat_schedule: the task name beat sends.
SentName(e) ==
    CASE e = "nightly-session-prune" -> <<"billing", "prune_sessions">>
      [] e = "scheduled-reports"     -> <<"reports", "run_due_schedules">>
      [] e = "due-connectors"        -> <<"connectors", "run_due_connectors">>
      [] e = "nightly-finops-passes" -> <<"finops", "run_finops_passes">>
      [] e = "integrations-sweep"    -> <<"integrations", "sweep_integrations">>

\* The names of the @celery_app.task decorators.
Registered ==
    {<<"billing", "prune_sessions">>, <<"ingestion", "process_file">>,
     <<"reports", "run_due_schedules">>, <<"connectors", "run_due_connectors">>,
     <<"finops", "run_finops_passes">>, <<"integrations", "sweep">>}

\* task_routes; a name that matches no route goes to Celery's default queue,
\* which is called "celery".
QueueOf(e) ==
    CASE SentName(e)[1] = "billing"   -> "pricing"
      [] SentName(e)[1] = "ingestion" -> "ingestion"
      [] SentName(e)[1] = "reports"   -> "default"
      [] OTHER                        -> "celery"

\* Entries whose queue has a consumer that knows the task.
Served == {e \in Entries : QueueOf(e) \in WorkerQueues /\ SentName(e) \in Registered}

VARIABLES
    sent,       \* sent[e]: messages published for entry e
    waiting,    \* waiting[e]: its messages in the queue
    acked,      \* acked[e]: its messages acknowledged
    ran,        \* ran[e]: executions of its task that came to an end
    holds,      \* holds[w]: the entry whose message worker w holds
    finished,   \* finished[w]: w has run it and not acknowledged it yet
    losses

vars == <<sent, waiting, acked, ran, holds, finished, losses>>

TypeOK ==
    /\ sent \in [Entries -> 0..MaxTicks]
    /\ waiting \in [Entries -> 0..MaxTicks]
    /\ acked \in [Entries -> 0..MaxTicks]
    /\ ran \in [Entries -> 0..(MaxTicks + MaxLosses)]
    /\ holds \in [Workers -> Entries \cup {NoEntry}]
    /\ finished \in [Workers -> BOOLEAN]
    /\ losses \in 0..MaxLosses

Init ==
    /\ sent = [e \in Entries |-> 0]
    /\ waiting = [e \in Entries |-> 0]
    /\ acked = [e \in Entries |-> 0]
    /\ ran = [e \in Entries |-> 0]
    /\ holds = [w \in Workers |-> NoEntry]
    /\ finished = [w \in Workers |-> FALSE]
    /\ losses = 0

Release(w) ==
    /\ holds' = [holds EXCEPT ![w] = NoEntry]
    /\ finished' = [finished EXCEPT ![w] = FALSE]
----------------------------------------------------------------------------
\* Beat publishes, whether or not the last message of the entry was consumed.
Publish(e) ==
    /\ sent[e] < MaxTicks
    /\ sent' = [sent EXCEPT ![e] = @ + 1]
    /\ waiting' = [waiting EXCEPT ![e] = @ + 1]
    /\ UNCHANGED <<acked, ran, holds, finished, losses>>

CanTake(w, e) == holds[w] = NoEntry /\ waiting[e] > 0 /\ QueueOf(e) \in WorkerQueues

Take(w, e) ==
    /\ CanTake(w, e)
    /\ SentName(e) \in Registered
    /\ waiting' = [waiting EXCEPT ![e] = @ - 1]
    /\ holds' = [holds EXCEPT ![w] = e]
    /\ UNCHANGED <<sent, acked, ran, finished, losses>>

\* A message whose task is not registered is logged and acknowledged unrun.
Discard(w, e) ==
    /\ CanTake(w, e)
    /\ SentName(e) \notin Registered
    /\ waiting' = [waiting EXCEPT ![e] = @ - 1]
    /\ acked' = [acked EXCEPT ![e] = @ + 1]
    /\ UNCHANGED <<sent, ran, holds, finished, losses>>

\* The task returns or raises.
Finish(w) ==
    /\ holds[w] # NoEntry
    /\ ~finished[w]
    /\ ran' = [ran EXCEPT ![holds[w]] = @ + 1]
    /\ finished' = [finished EXCEPT ![w] = TRUE]
    /\ UNCHANGED <<sent, waiting, acked, holds, losses>>

Acknowledge(w) ==
    /\ finished[w]
    /\ acked' = [acked EXCEPT ![holds[w]] = @ + 1]
    /\ Release(w)
    /\ UNCHANGED <<sent, waiting, ran, losses>>

\* Fault: the message of a lost worker is not put back.
LoseMessage(w) ==
    /\ holds[w] # NoEntry
    /\ losses < MaxLosses
    /\ losses' = losses + 1
    /\ Release(w)
    /\ UNCHANGED <<sent, waiting, acked, ran>>

\* Fault: task_reject_on_worker_lost is off, the message counts as handled.
LoseAcknowledged(w) ==
    /\ holds[w] # NoEntry
    /\ losses < MaxLosses
    /\ losses' = losses + 1
    /\ acked' = [acked EXCEPT ![holds[w]] = @ + 1]
    /\ Release(w)
    /\ UNCHANGED <<sent, waiting, ran>>

\* A worker process is lost with its message, run or not: the message is put
\* back, so a task that had run will run again.
LoseWorker(w) ==
    /\ holds[w] # NoEntry
    /\ losses < MaxLosses
    /\ losses' = losses + 1
    /\ waiting' = [waiting EXCEPT ![holds[w]] = @ + 1]
    /\ Release(w)
    /\ UNCHANGED <<sent, acked, ran>>

Next ==
    \/ \E e \in Entries : Publish(e)
    \/ \E w \in Workers, e \in Entries : Take(w, e) \/ Discard(w, e)
    \/ \E w \in Workers : Finish(w) \/ Acknowledge(w) \/ LoseWorker(w)

\* Beat ticks; a job ends and is acknowledged; a queue is FIFO, so a message in
\* a consumed queue is taken when workers come free again and again.
Fairness ==
    /\ \A e \in Entries :
         /\ WF_vars(Publish(e))
         /\ SF_vars(\E w \in Workers : Take(w, e) \/ Discard(w, e))
    /\ \A w \in Workers : WF_vars(Finish(w)) /\ WF_vars(Acknowledge(w))

Spec == Init /\ [][Next]_vars /\ Fairness
----------------------------------------------------------------------------
Holding(e) == {w \in Workers : holds[w] = e}

\* No message is lost, doubled or acknowledged unrun: what beat published is in
\* the queue, with a worker, or acknowledged, and an acknowledged message of a
\* registered task stands for an execution that came to an end, whichever workers
\* died at whatever point (task_acks_late, task_reject_on_worker_lost).
NothingLost ==
    /\ TypeOK
    /\ \A e \in Entries :
         /\ sent[e] = waiting[e] + Cardinality(Holding(e)) + acked[e]
         /\ SentName(e) \in Registered => acked[e] <= ran[e]

\* Every published job of a served entry runs to its end, though workers are
\* lost on the way and other entries keep the workers busy.
ServedJobsRun ==
    \A e \in Served : \A n \in 1..MaxTicks : (sent[e] >= n) ~> (ran[e] >= n)

\* docs/runbooks/deploy.md, "Scheduled jobs (beat)": every one of the jobs beat
\* sends is run.
ScheduledJobsRun == \A e \in Entries : <>(ran[e] > 0)
=============================================================================
