------------------------ MODULE ReportSchedulesProofs ------------------------
(***************************************************************************)
(* Proofs about ReportSchedules for any schedules and cadences, any number  *)
(* of overlapping sweeps and of processes that flush the outbox, and any    *)
(* bounds.                                                                  *)
(***************************************************************************)
EXTENDS ReportSchedules, WellFoundedInduction, TLAPS

Statuses == {"none", "failed", "completed"}
Queues == UNION {[S -> Nat] : S \in SUBSET Schedules}
SweepRecord == [step : {"idle", "serving", "put"}, at : Nat, due : Queues,
                object : Objects \cup {NoObject}]

RowsTyped ==
    /\ now \in Nat
    /\ schedule \in [Schedules ->
         [enabled : BOOLEAN, next : Nat \cup {-1}, created : Nat \cup {-1}]]
    /\ job \in [Schedules ->
         [at : Nat \cup {-1}, status : Statuses, object : Objects \cup {NoObject}]]
    /\ DOMAIN batch = Flushers
    /\ sweep \in [Workers -> SweepRecord]

\* A committed job is one of a schedule that exists, at a time that came.
JobsOfSchedules ==
    \A s \in Schedules : job[s] # NoJob => s \in Created /\ job[s].at \in Nat

\* What a sweep under way holds, however stale: schedules that exist, and the key
\* of an object only once that object is in the store.
SweepsSound ==
    \A w \in Workers :
        /\ sweep[w].step # "idle" =>
             DOMAIN sweep[w].due # {} /\ DOMAIN sweep[w].due \subseteq Created
        /\ sweep[w].step = "serving" => sweep[w].object = NoObject
        /\ sweep[w].object # NoObject => sweep[w].object \in stored

\* Nothing is about to be marked sent that was not written.
BatchesWritten == \A f \in Flushers : batch[f] \subseteq written

IInv ==
    /\ RowsTyped /\ JobsOfSchedules /\ SweepsSound /\ BatchesWritten
    /\ ReportWasStored /\ NextFollowsJob /\ MailNotLost

----------------------------------------------------------------------------
\* The next occurrence is a tick of the clock, after the time it is counted from.
LEMMA NextRunIsLater ==
    ASSUME NEW s \in Schedules, NEW t \in Nat
    PROVE  NextRun(s, t) \in Nat /\ NextRun(s, t) > t
<1> DEFINE e == Every[s]
           o == Offset[s]
           q == (t - o) \div e
<1>1. e \in Nat /\ e > 0 /\ o \in Nat /\ o < e
  BY CadenceAssumption
<1>2. q \in Int /\ e * q <= t - o /\ t - o < e * q + e
  <2> HIDE DEF e, o
  <2>1. t - o \in Int
    BY <1>1
  <2> QED
    BY <1>1, <2>1
<1>3. NextRun(s, t) = (q + 1) * e + o
  BY DEF NextRun
<1> HIDE DEF q, e, o
<1>4. (q + 1) * e = e * q + e
  BY <1>1, <1>2
<1>5. e * q \in Int
  BY <1>1, <1>2
<1> DEFINE m == e * q
<1>6. m \in Int /\ m <= t - o /\ t - o < m + e /\ NextRun(s, t) = m + e + o
  BY <1>2, <1>3, <1>4, <1>5
<1> HIDE DEF m
<1> QED
  BY <1>1, <1>6

LEMMA ObjectIsObject ==
    ASSUME NEW s \in Schedules, NEW t \in Nat
    PROVE  Object(s, t) \in Objects /\ Object(s, t) # NoObject
<1>1. t \div Month \in Nat
  BY ObjectAssumption
<1> QED
  BY <1>1, ObjectAssumption DEF Object, Objects

\* The schedule a sweep serves is one of those it scanned.
LEMMA FirstIsDue ==
    ASSUME NEW due \in Queues, DOMAIN due # {}
    PROVE  First(due) \in DOMAIN due /\ First(due) \in Schedules
<1>1. PICK S \in SUBSET Schedules : due \in [S -> Nat]
  BY DEF Queues
<1> DEFINE T == {due[s] : s \in DOMAIN due}
<1>2. T \subseteq Nat /\ T # {}
  BY <1>1
<1>3. PICK n \in T : \A m \in T : ~(<<m, n>> \in OpToRel(<, Nat))
  BY <1>2, NatLessThanWellFounded, WFMin
<1>4. \A m \in T : n <= m
  <2> SUFFICES ASSUME NEW m \in T, m < n PROVE FALSE
    BY <1>2
  <2> QED
    BY <1>2, <1>3 DEF OpToRel
<1>5. PICK s \in DOMAIN due : due[s] = n
  OBVIOUS
<1>6. \A r \in DOMAIN due : due[s] <= due[r]
  BY <1>4, <1>5
<1>7. First(due) \in DOMAIN due
  BY <1>5, <1>6 DEF First
<1> QED
  BY <1>1, <1>7

LEMMA RestIsQueue ==
    ASSUME NEW due \in Queues
    PROVE  Rest(due) \in Queues /\ DOMAIN Rest(due) = DOMAIN due \ {First(due)}
<1>1. PICK S \in SUBSET Schedules : due \in [S -> Nat]
  BY DEF Queues
<1>2. Rest(due) \in [S \ {First(due)} -> Nat]
  BY <1>1 DEF Rest
<1> QED
  BY <1>1, <1>2 DEF Queues, Rest

LEMMA IdleIsTyped ==
    Idle \in SweepRecord
<1>1. [s \in {} |-> 0] \in [{} -> Nat]
  OBVIOUS
<1>2. [s \in {} |-> 0] \in Queues
  BY <1>1 DEF Queues
<1> QED
  BY <1>2 DEF Idle, SweepRecord
----------------------------------------------------------------------------
LEMMA InitInv == Init => IInv
<1> SUFFICES ASSUME Init PROVE IInv
  OBVIOUS
<1>1. RowsTyped
  BY IdleIsTyped DEF Init, RowsTyped, Absent, NoJob, Statuses
<1>2. JobsOfSchedules /\ SweepsSound /\ BatchesWritten
  BY DEF Init, JobsOfSchedules, SweepsSound, BatchesWritten, Idle
<1>3. ReportWasStored /\ NextFollowsJob /\ MailNotLost
  BY MailedAssumption
  DEF Init, ReportWasStored, NextFollowsJob, MailNotLost, Created, Absent, NoJob
<1> QED
  BY <1>1, <1>2, <1>3 DEF IInv

\* While a sweep works, the schedule it serves exists.
LEMMA ServedExists ==
    ASSUME IInv, NEW w \in Workers, sweep[w].step # "idle"
    PROVE  /\ First(sweep[w].due) \in Created /\ First(sweep[w].due) \in Schedules
           /\ sweep[w].due \in Queues /\ sweep[w].at \in Nat
<1>1. sweep[w].due \in Queues /\ sweep[w].at \in Nat
  BY DEF IInv, RowsTyped, SweepRecord
<1>2. DOMAIN sweep[w].due # {} /\ DOMAIN sweep[w].due \subseteq Created
  BY DEF IInv, SweepsSound
<1> QED
  BY <1>1, <1>2, FirstIsDue

\* The rows of a schedule that was served: the job and next_run_at agree.
LEMMA ServedKeepsRows ==
    ASSUME IInv, NEW s \in Created, NEW t \in Nat, NEW status \in {"failed", "completed"},
           NEW object \in Objects \cup {NoObject},
           status = "completed" <=> object # NoObject,
           object # NoObject => object \in stored,
           AddJob(s, t, status, object), Advance(s, t), stored' = stored
    PROVE  /\ schedule' \in [Schedules ->
                [enabled : BOOLEAN, next : Nat \cup {-1}, created : Nat \cup {-1}]]
           /\ job' \in [Schedules ->
                [at : Nat \cup {-1}, status : Statuses, object : Objects \cup {NoObject}]]
           /\ Created' = Created
           /\ JobsOfSchedules' /\ ReportWasStored' /\ NextFollowsJob'
           /\ \A r \in Schedules \ {s} : job'[r] = job[r]
           /\ job'[s] = [at |-> t, status |-> status, object |-> object]
<1>1. s \in Schedules /\ NextRun(s, t) \in Nat
  BY NextRunIsLater DEF Created
<1>2. schedule' \in [Schedules ->
          [enabled : BOOLEAN, next : Nat \cup {-1}, created : Nat \cup {-1}]]
  BY <1>1 DEF IInv, RowsTyped, Advance
<1>3. /\ job' \in [Schedules ->
          [at : Nat \cup {-1}, status : Statuses, object : Objects \cup {NoObject}]]
      /\ \A r \in Schedules \ {s} : job'[r] = job[r]
      /\ job'[s] = [at |-> t, status |-> status, object |-> object]
  BY <1>1 DEF IInv, RowsTyped, AddJob, Statuses
<1>4. /\ \A r \in Schedules : schedule'[r].created = schedule[r].created
      /\ \A r \in Schedules \ {s} : schedule'[r] = schedule[r]
      /\ schedule'[s].next = NextRun(s, t)
  BY <1>1 DEF IInv, RowsTyped, Advance
<1>5. Created' = Created
  BY <1>4 DEF Created
<1>6. JobsOfSchedules'
  BY <1>1, <1>3, <1>5 DEF IInv, JobsOfSchedules
<1>7. ReportWasStored'
  BY <1>1, <1>3 DEF IInv, ReportWasStored
<1>8. NextFollowsJob'
  <2> SUFFICES ASSUME NEW r \in Created
               PROVE  schedule'[r].next =
                 NextRun(r, IF job'[r] = NoJob THEN schedule'[r].created ELSE job'[r].at)
    BY <1>5 DEF NextFollowsJob, NextRun
  <2>1. CASE r = s
    BY <2>1, <1>3, <1>4 DEF NoJob
  <2>2. CASE r # s
    BY <2>2, <1>3, <1>4 DEF IInv, NextFollowsJob, Created
  <2> QED
    BY <2>1, <2>2
<1> QED
  BY <1>2, <1>3, <1>5, <1>6, <1>7, <1>8

\* A sweep that is done with a schedule goes on to the next one, or ends.
LEMMA NextDueKeepsSweeps ==
    ASSUME IInv, NEW w \in Workers, sweep[w].step # "idle", NextDue(w),
           Created' = Created, stored' = stored
    PROVE  /\ sweep' \in [Workers -> SweepRecord]
           /\ SweepsSound'
<1>1. /\ sweep[w].due \in Queues /\ First(sweep[w].due) \in DOMAIN sweep[w].due
      /\ DOMAIN sweep[w].due \subseteq Created
  <2>1. sweep[w].due \in Queues
    BY DEF IInv, RowsTyped, SweepRecord
  <2>2. DOMAIN sweep[w].due # {} /\ DOMAIN sweep[w].due \subseteq Created
    BY DEF IInv, SweepsSound
  <2> QED
    BY <2>1, <2>2, FirstIsDue
<1>2. Rest(sweep[w].due) \in Queues
      /\ DOMAIN Rest(sweep[w].due) = DOMAIN sweep[w].due \ {First(sweep[w].due)}
  BY <1>1, RestIsQueue
<1>3. sweep \in [Workers -> SweepRecord]
  BY DEF IInv, RowsTyped
<1>4. CASE DOMAIN Rest(sweep[w].due) = {}
  <2>1. sweep' = [sweep EXCEPT ![w] = Idle]
    BY <1>3, <1>4 DEF NextDue
  <2>2. SweepsSound'
    BY <2>1, <1>3 DEF IInv, SweepsSound, Idle
  <2> QED
    BY <1>3, <2>1, <2>2, IdleIsTyped
<1>5. CASE DOMAIN Rest(sweep[w].due) # {}
  <2>1. /\ \A v \in Workers \ {w} : sweep'[v] = sweep[v]
        /\ sweep'[w] = [sweep[w] EXCEPT
             !.step = "serving", !.due = Rest(sweep[w].due), !.object = NoObject]
        /\ sweep' = [v \in Workers |-> sweep'[v]]
    BY <1>3, <1>5 DEF NextDue
  <2>2. sweep'[w] = [step |-> "serving", at |-> sweep[w].at,
                     due |-> Rest(sweep[w].due), object |-> NoObject]
    BY <2>1, <1>3 DEF SweepRecord
  <2>3. DOMAIN Rest(sweep[w].due) # {} /\ DOMAIN Rest(sweep[w].due) \subseteq Created
    BY <1>1, <1>2, <1>5
  <2>4. SweepsSound'
    <3> SUFFICES ASSUME NEW v \in Workers
        PROVE  /\ sweep'[v].step # "idle" =>
                    DOMAIN sweep'[v].due # {} /\ DOMAIN sweep'[v].due \subseteq Created
               /\ sweep'[v].step = "serving" => sweep'[v].object = NoObject
               /\ sweep'[v].object # NoObject => sweep'[v].object \in stored
      BY DEF SweepsSound
    <3>1. CASE v = w
      BY <3>1, <2>2, <2>3
    <3>2. CASE v # w
      BY <3>2, <2>1, <1>3 DEF IInv, SweepsSound
    <3> QED
      BY <3>1, <3>2
  <2>5. sweep'[w] \in SweepRecord
    BY <1>2, <1>3, <2>2 DEF SweepRecord
  <2> QED
    BY <1>3, <2>1, <2>4, <2>5
<1> QED
  BY <1>4, <1>5

\* A sweep whose record changes leaves the others as they are.
LEMMA OneSweepChanges ==
    ASSUME IInv, NEW w \in Workers,
           NEW new \in SweepRecord,
           sweep' = [sweep EXCEPT ![w] = new],
           Created \subseteq Created', stored \subseteq stored',
           new.step # "idle" => DOMAIN new.due # {} /\ DOMAIN new.due \subseteq Created',
           new.step = "serving" => new.object = NoObject,
           new.object # NoObject => new.object \in stored'
    PROVE  /\ sweep' \in [Workers -> SweepRecord]
           /\ SweepsSound'
<1>1. sweep \in [Workers -> SweepRecord]
  BY DEF IInv, RowsTyped
<1>2. \A v \in Workers : sweep'[v] = IF v = w THEN new ELSE sweep[v]
  BY <1>1
<1>3. SweepsSound'
  BY <1>2 DEF IInv, SweepsSound
<1> QED
  BY <1>1, <1>3
----------------------------------------------------------------------------
\* The clock and the toggles change no history.
LEMMA ClockKeepsInv == ASSUME IInv, Tick PROVE IInv'
<1>1. RowsTyped'
  BY DEF IInv, Tick, rowVars, mailVars, RowsTyped
<1>2. (JobsOfSchedules /\ SweepsSound /\ BatchesWritten)'
  BY DEF IInv, Tick, rowVars, mailVars, JobsOfSchedules, SweepsSound, BatchesWritten, Created
<1>3. (ReportWasStored /\ NextFollowsJob /\ MailNotLost)'
  BY DEF IInv, Tick, rowVars, mailVars, ReportWasStored, NextFollowsJob, MailNotLost,
         Created, NextRun
<1> QED
  BY <1>1, <1>2, <1>3 DEF IInv

LEMMA ScheduleKeepsInv ==
    ASSUME IInv, NEW s \in Schedules, CreateSchedule(s) \/ ToggleSchedule(s)
    PROVE  IInv'
<1>1. /\ UNCHANGED <<now, job, queued, stored, mailVars, sweep>>
      /\ \A r \in Schedules \ {s} : schedule'[r] = schedule[r]
  BY DEF IInv, RowsTyped, CreateSchedule, ToggleSchedule
<1>2. /\ schedule' \in [Schedules ->
           [enabled : BOOLEAN, next : Nat \cup {-1}, created : Nat \cup {-1}]]
      /\ s \in Created'
      /\ s \in Created => /\ schedule'[s].next = schedule[s].next
                          /\ schedule'[s].created = schedule[s].created
      /\ s \notin Created => schedule'[s].next = NextRun(s, schedule'[s].created)
  <2>1. CASE CreateSchedule(s)
    <3>1. now \in Nat /\ NextRun(s, now) \in Nat
      BY NextRunIsLater DEF IInv, RowsTyped
    <3>2. schedule'[s] = [enabled |-> TRUE, next |-> NextRun(s, now), created |-> now]
      BY <2>1 DEF IInv, RowsTyped, CreateSchedule
    <3>3. now # -1
      BY <3>1
    <3> QED
      BY <2>1, <3>1, <3>2, <3>3 DEF IInv, RowsTyped, CreateSchedule, Created
  <2>2. CASE ToggleSchedule(s)
    <3>1. schedule[s] \in [enabled : BOOLEAN, next : Nat \cup {-1}, created : Nat \cup {-1}]
      BY DEF IInv, RowsTyped
    <3>2. schedule'[s] = [schedule[s] EXCEPT !.enabled = ~@] /\ s \in Created
      BY <2>2 DEF IInv, RowsTyped, ToggleSchedule
    <3> QED
      BY <2>2, <3>1, <3>2 DEF IInv, RowsTyped, ToggleSchedule, Created
  <2> QED
    BY <2>1, <2>2
<1>3. Created' = Created \cup {s}
  BY <1>1, <1>2 DEF Created
<1>4. (RowsTyped /\ JobsOfSchedules /\ SweepsSound /\ BatchesWritten)'
  <2>1. RowsTyped'
    BY <1>1, <1>2 DEF IInv, RowsTyped, mailVars
  <2>2. (JobsOfSchedules /\ SweepsSound)'
    BY <1>1, <1>3 DEF IInv, JobsOfSchedules, SweepsSound
  <2>3. BatchesWritten'
    BY <1>1 DEF IInv, BatchesWritten, mailVars
  <2> QED
    BY <2>1, <2>2, <2>3
<1>5. (ReportWasStored /\ MailNotLost)'
  BY <1>1 DEF IInv, ReportWasStored, MailNotLost, mailVars
<1>6. NextFollowsJob'
  <2> SUFFICES ASSUME NEW r \in Created'
               PROVE  schedule'[r].next =
                 NextRun(r, IF job[r] = NoJob THEN schedule'[r].created ELSE job[r].at)
    BY <1>1 DEF NextFollowsJob, NextRun
  <2>1. CASE r \in Created
    <3>1. schedule'[r].next = schedule[r].next /\ schedule'[r].created = schedule[r].created
      BY <2>1, <1>1, <1>2 DEF Created
    <3> QED
      BY <2>1, <3>1 DEF IInv, NextFollowsJob
  <2>2. CASE r \notin Created
    <3>1. r = s /\ job[s] = NoJob
      BY <2>2, <1>3 DEF IInv, JobsOfSchedules
    <3> QED
      BY <2>2, <3>1, <1>2
  <2> QED
    BY <2>1, <2>2
<1> QED
  BY <1>4, <1>5, <1>6 DEF IInv

\* The steps of a sweep that commit no row: the scan, the put, and the loss.
LEMMA SweepKeepsInv ==
    ASSUME IInv, NEW w \in Workers,
           BeginSweep(w) \/ PutObject(w) \/ StorageFails(w) \/ LoseSweep(w)
    PROVE  IInv'
<1>1. UNCHANGED <<now, rowVars, mailVars>>
  BY DEF BeginSweep, PutObject, StorageFails, LoseSweep
<1>2. stored \subseteq stored'
  BY DEF BeginSweep, PutObject, StorageFails, LoseSweep
<1>3. Created' = Created
  BY <1>1 DEF Created, rowVars
<1>4. sweep' \in [Workers -> SweepRecord] /\ SweepsSound'
  <2>1. CASE BeginSweep(w)
    <3> DEFINE due == [s \in Due |-> schedule[s].next]
               new == [step |-> "serving", at |-> now, object |-> NoObject, due |-> due]
    <3>1. \A s \in Created : schedule[s].next \in Nat
      <4> SUFFICES ASSUME NEW s \in Created PROVE schedule[s].next \in Nat
        OBVIOUS
      <4>1. s \in Schedules /\ schedule[s].created \in Nat
        BY DEF Created, IInv, RowsTyped
      <4>2. job[s] # NoJob => job[s].at \in Nat
        BY <4>1 DEF IInv, JobsOfSchedules
      <4> QED
        BY <4>1, <4>2, NextRunIsLater DEF IInv, NextFollowsJob
    <3>2. Due \subseteq Created /\ Due \subseteq Schedules /\ Due # {}
      BY <2>1 DEF Due, Created, BeginSweep
    <3>3. due \in [Due -> Nat]
      BY <3>1, <3>2
    <3>4. new \in SweepRecord
      BY <3>2, <3>3 DEF SweepRecord, Queues, IInv, RowsTyped
    <3>5. sweep' = [sweep EXCEPT ![w] = new]
      BY <2>1 DEF BeginSweep
    <3>6. DOMAIN new.due # {} /\ DOMAIN new.due \subseteq Created
      BY <3>2
    <3>7. new.object = NoObject
      OBVIOUS
    <3> HIDE DEF new
    <3> QED
      BY <1>2, <1>3, <3>4, <3>5, <3>6, <3>7, OneSweepChanges
  <2>2. CASE PutObject(w)
    <3> DEFINE object == Object(First(sweep[w].due), sweep[w].at)
               new == [sweep[w] EXCEPT !.step = "put", !.object = object]
    <3>1. sweep[w].step = "serving"
      BY <2>2 DEF PutObject
    <3>2. object \in Objects
      BY <3>1, ServedExists, ObjectIsObject
    <3>3. sweep[w] \in SweepRecord
      BY DEF IInv, RowsTyped
    <3>4. sweep' = [sweep EXCEPT ![w] = new] /\ object \in stored'
      <4>1. sweep' = [sweep EXCEPT ![w].step = "put", ![w].object = object]
            /\ object \in stored'
        BY <2>2 DEF PutObject
      <4> HIDE DEF object
      <4> QED
        BY <4>1, <3>3 DEF IInv, RowsTyped
    <3>5. /\ new.step = "put" /\ new.object = object /\ new.due = sweep[w].due
          /\ new \in SweepRecord
      <4> HIDE DEF object
      <4> QED
        BY <3>2, <3>3 DEF SweepRecord
    <3>6. DOMAIN new.due # {} /\ DOMAIN new.due \subseteq Created
      BY <3>1, <3>5 DEF IInv, SweepsSound
    <3> HIDE DEF new
    <3> QED
      BY <1>2, <1>3, <3>4, <3>5, <3>6, OneSweepChanges
  <2>3. CASE StorageFails(w)
    <3> DEFINE new == [sweep[w] EXCEPT !.step = "put"]
    <3>1. sweep[w].step = "serving"
      BY <2>3 DEF StorageFails
    <3>2. sweep[w] \in SweepRecord
      BY DEF IInv, RowsTyped
    <3>3. sweep' = [sweep EXCEPT ![w] = new]
      BY <2>3, <3>2 DEF StorageFails, IInv, RowsTyped
    <3>4. /\ new.step = "put" /\ new.object = NoObject /\ new.due = sweep[w].due
          /\ new \in SweepRecord
      BY <3>1, <3>2 DEF SweepRecord, IInv, SweepsSound
    <3>5. DOMAIN new.due # {} /\ DOMAIN new.due \subseteq Created
      BY <3>1, <3>4 DEF IInv, SweepsSound
    <3> HIDE DEF new
    <3> QED
      BY <1>2, <1>3, <3>3, <3>4, <3>5, OneSweepChanges
  <2>4. CASE LoseSweep(w)
    BY <2>4, <1>2, <1>3, IdleIsTyped, OneSweepChanges DEF LoseSweep, Idle
  <2> QED
    BY <2>1, <2>2, <2>3, <2>4
<1>5. (RowsTyped /\ JobsOfSchedules /\ BatchesWritten)'
  BY <1>1, <1>3, <1>4 DEF IInv, RowsTyped, JobsOfSchedules, BatchesWritten, rowVars, mailVars
<1>6. (ReportWasStored /\ NextFollowsJob /\ MailNotLost)'
  BY <1>1, <1>2, <1>3 DEF IInv, ReportWasStored, NextFollowsJob, MailNotLost, rowVars,
                          mailVars, NextRun
<1> QED
  BY <1>4, <1>5, <1>6 DEF IInv

\* The steps that commit a job: with it go next_run_at and the mail.
LEMMA CommitKeepsInv ==
    ASSUME IInv, NEW w \in Workers, RowsFail(w) \/ CommitReport(w)
    PROVE  IInv'
<1> DEFINE s == First(sweep[w].due)
           t == sweep[w].at
<1>1. /\ sweep[w].step # "idle" /\ NextDue(w)
      /\ UNCHANGED <<now, stored, mailVars>> /\ Advance(s, t)
  BY DEF RowsFail, CommitReport
<1>2. s \in Created /\ s \in Schedules /\ t \in Nat
  BY <1>1, ServedExists
<1>3. PICK status \in {"failed", "completed"}, object \in Objects \cup {NoObject} :
        /\ AddJob(s, t, status, object)
        /\ status = "completed" <=> object # NoObject
        /\ object # NoObject => object \in stored
        /\ queued \subseteq queued'
        /\ status = "completed" /\ s \in Mailed => Mail(s, t) \in queued'
  <2>1. CASE RowsFail(w)
    BY <2>1 DEF RowsFail
  <2>2. CASE CommitReport(w)
    <3> DEFINE status == IF sweep[w].object # NoObject THEN "completed" ELSE "failed"
    <3>1. sweep[w].object \in Objects \cup {NoObject}
      BY DEF IInv, RowsTyped, SweepRecord
    <3>2. AddJob(s, t, status, sweep[w].object)
      BY <2>2 DEF CommitReport
    <3>3. sweep[w].object # NoObject => sweep[w].object \in stored
      BY DEF IInv, SweepsSound
    <3>4. queued \subseteq queued' /\ (s \in Mailed => Mail(s, t) \in queued')
      BY <2>2 DEF CommitReport
    <3>5. status \in {"failed", "completed"}
          /\ (status = "completed" <=> sweep[w].object # NoObject)
      OBVIOUS
    <3> HIDE DEF status, s, t
    <3> QED
      BY <3>1, <3>2, <3>3, <3>4, <3>5
  <2> QED
    BY <2>1, <2>2
<1> HIDE DEF s, t
<1>4. /\ schedule' \in [Schedules ->
           [enabled : BOOLEAN, next : Nat \cup {-1}, created : Nat \cup {-1}]]
      /\ job' \in [Schedules ->
           [at : Nat \cup {-1}, status : Statuses, object : Objects \cup {NoObject}]]
      /\ Created' = Created
      /\ JobsOfSchedules' /\ ReportWasStored' /\ NextFollowsJob'
      /\ \A r \in Schedules \ {s} : job'[r] = job[r]
      /\ job'[s] = [at |-> t, status |-> status, object |-> object]
  BY <1>1, <1>2, <1>3, ServedKeepsRows
<1>5. sweep' \in [Workers -> SweepRecord] /\ SweepsSound'
  BY <1>1, <1>4, NextDueKeepsSweeps
<1>6. RowsTyped' /\ BatchesWritten'
  BY <1>1, <1>4, <1>5 DEF IInv, RowsTyped, BatchesWritten, mailVars
<1>7. MailNotLost'
  <2> SUFFICES ASSUME NEW r \in Mailed, job'[r].status = "completed"
               PROVE  Mail(r, job'[r].at) \in queued' \cup written'
    BY DEF MailNotLost, Mail
  <2>1. CASE r = s
    BY <2>1, <1>3, <1>4
  <2>2. CASE r # s
    BY <2>2, <1>1, <1>3, <1>4, MailedAssumption DEF IInv, MailNotLost, mailVars
  <2> QED
    BY <2>1, <2>2
<1> QED
  BY <1>4, <1>5, <1>6, <1>7 DEF IInv

\* A mail leaves the outbox only after it was written.
LEMMA MailsKeepInv ==
    ASSUME IInv, NEW f \in Flushers, WriteMails(f) \/ CommitMails(f) \/ LoseMails(f)
    PROVE  IInv'
<1>1. UNCHANGED <<now, schedule, job, stored, sweep>>
  BY DEF WriteMails, CommitMails, LoseMails, rowVars
<1>2. /\ DOMAIN batch' = Flushers /\ BatchesWritten'
      /\ queued \cup written \subseteq queued' \cup written'
  <2>1. CASE WriteMails(f)
    BY <2>1 DEF WriteMails, IInv, RowsTyped, BatchesWritten, rowVars
  <2>2. CASE CommitMails(f)
    BY <2>2 DEF CommitMails, IInv, RowsTyped, BatchesWritten
  <2>3. CASE LoseMails(f)
    BY <2>3 DEF LoseMails, IInv, RowsTyped, BatchesWritten, rowVars
  <2> QED
    BY <2>1, <2>2, <2>3
<1>3. (RowsTyped /\ JobsOfSchedules /\ SweepsSound)'
  BY <1>1, <1>2 DEF IInv, RowsTyped, JobsOfSchedules, SweepsSound, Created
<1>4. (ReportWasStored /\ NextFollowsJob /\ MailNotLost)'
  BY <1>1, <1>2 DEF IInv, ReportWasStored, NextFollowsJob, MailNotLost, Created, NextRun, Mail
<1> QED
  BY <1>2, <1>3, <1>4 DEF IInv
----------------------------------------------------------------------------
LEMMA NextKeepsInv == IInv /\ [Next]_vars => IInv'
<1> SUFFICES ASSUME IInv, [Next]_vars PROVE IInv'
  OBVIOUS
<1>1. CASE UNCHANGED vars
  BY <1>1
  DEF vars, rowVars, mailVars, IInv, RowsTyped, JobsOfSchedules, SweepsSound, BatchesWritten,
      ReportWasStored, NextFollowsJob, MailNotLost, Created, NextRun, Mail
<1>2. CASE Tick
  BY <1>2, ClockKeepsInv
<1>3. CASE \E s \in Schedules : CreateSchedule(s) \/ ToggleSchedule(s)
  BY <1>3, ScheduleKeepsInv
<1>4. CASE \E w \in Workers : BeginSweep(w) \/ Serve(w) \/ LoseSweep(w)
  BY <1>4, SweepKeepsInv, CommitKeepsInv DEF Serve
<1>5. CASE \E f \in Flushers : WriteMails(f) \/ CommitMails(f) \/ LoseMails(f)
  BY <1>5, MailsKeepInv
<1> QED
  BY <1>1, <1>2, <1>3, <1>4, <1>5 DEF Next

\* Rows, sweeps under way and mails agree in every reachable state, however many
\* sweeps overlap and wherever one of them is lost.
THEOREM SchedulesSound == Spec => []IInv
<1> QED
  BY InitInv, NextKeepsInv, PTL DEF Spec

\* A completed job names an object that run_due_schedules put in the store, and
\* no other scheduled job is completed.
THEOREM ReportsAreStored == Spec => []ReportWasStored
<1>1. IInv => ReportWasStored
  BY DEF IInv
<1> QED
  BY <1>1, SchedulesSound, PTL

\* next_run_at is the first occurrence after the last committed run, so no
\* overlapping or lost sweep passes over a report.
THEOREM NoReportIsSkipped == Spec => []NextFollowsJob
<1>1. IInv => NextFollowsJob
  BY DEF IInv
<1> QED
  BY <1>1, SchedulesSound, PTL

\* The mail of a completed report is in the outbox until flush_notifications
\* has written it, whoever else flushes at the time.
THEOREM MailsAreKept == Spec => []MailNotLost
<1>1. IInv => MailNotLost
  BY DEF IInv
<1> QED
  BY <1>1, SchedulesSound, PTL
=============================================================================
