------------------------- MODULE ScheduledJobsProofs -------------------------
(***************************************************************************)
(* Proofs about the jobs that beat starts (TaskDispatch), about the passes  *)
(* they run over tracked rows (FinopsPasses), and about the accounts whose  *)
(* sessions the nightly prune closes (AccountAccess): for any number of     *)
(* entries, workers, passes, users and requests, and any bounds.  The three *)
(* specifications share no state.                                          *)
(***************************************************************************)
EXTENDS TaskDispatch, AccountAccess, FinopsPasses, FiniteSetTheorems, TLAPS

----------------------------------------------------------------------------
(* Dispatch.                                                                *)

\* Workers that have run a message of e and not acknowledged it.
Done(e) == {w \in Holding(e) : finished[w]}

\* Only a worker that holds a message has run one.
FinishedHolds == \A w \in Workers : finished[w] => holds[w] # NoEntry

\* Every execution belongs to a message that is acknowledged or about to be, or
\* it was that of a worker that was lost.
RunsCounted ==
    \A e \in Entries :
        /\ SentName(e) \in Registered => acked[e] + Cardinality(Done(e)) <= ran[e]
        /\ ran[e] <= acked[e] + Cardinality(Done(e)) + losses

IInv == NothingLost /\ FinishedHolds /\ RunsCounted

\* One worker more or less among some of them.
LEMMA WorkersCount ==
    ASSUME NEW S \in SUBSET Workers, NEW w
    PROVE  /\ Cardinality(S) \in Nat
           /\ w \notin S => Cardinality(S \cup {w}) = Cardinality(S) + 1
           /\ w \in S => Cardinality(S \ {w}) = Cardinality(S) - 1
<1>1. IsFiniteSet(S)
  BY DispatchAssumption, FS_Subset
<1> QED
  BY <1>1, FS_CardinalityType, FS_AddElement, FS_RemoveElement

\* The messages of e are at most as many as were sent.
LEMMA CountsAreBounded ==
    ASSUME NEW s \in 0..MaxTicks, NEW wait \in Nat, NEW acks \in Nat, NEW runs \in Nat,
           NEW l \in 0..MaxLosses,
           NEW H \in SUBSET Workers, NEW D \in SUBSET H,
           s = wait + Cardinality(H) + acks,
           runs <= acks + Cardinality(D) + l
    PROVE  wait \in 0..MaxTicks /\ acks \in 0..MaxTicks /\ runs \in 0..(MaxTicks + MaxLosses)
<1>1. Cardinality(H) \in Nat /\ Cardinality(D) \in Nat /\ Cardinality(D) <= Cardinality(H)
  <2>1. IsFiniteSet(H)
    BY DispatchAssumption, FS_Subset
  <2> QED
    BY <2>1, FS_Subset, FS_CardinalityType
<1> QED
  BY <1>1, DispatchAssumption

\* What a state that counts every message has to satisfy, the bounds aside.
Counted ==
    /\ sent \in [Entries -> 0..MaxTicks]
    /\ waiting \in [Entries -> Nat]
    /\ acked \in [Entries -> Nat]
    /\ ran \in [Entries -> Nat]
    /\ holds \in [Workers -> Entries \cup {NoEntry}]
    /\ finished \in [Workers -> BOOLEAN]
    /\ losses \in 0..MaxLosses
    /\ \A e \in Entries : sent[e] = waiting[e] + Cardinality(Holding(e)) + acked[e]
    /\ FinishedHolds /\ RunsCounted

LEMMA CountedIsInv == Counted <=> IInv
<1>1. ASSUME IInv PROVE Counted
  BY <1>1, DispatchAssumption DEF IInv, NothingLost, TypeOK, Counted
<1>2. ASSUME Counted PROVE IInv
  <2> USE <1>2 DEF Counted
  <2>1. ASSUME NEW e \in Entries
        PROVE  /\ waiting[e] \in 0..MaxTicks /\ acked[e] \in 0..MaxTicks
               /\ ran[e] \in 0..(MaxTicks + MaxLosses)
               /\ SentName(e) \in Registered => acked[e] <= ran[e]
    <3>1. Holding(e) \in SUBSET Workers /\ Done(e) \in SUBSET Holding(e)
      BY DEF Holding, Done
    <3>2. Cardinality(Done(e)) \in Nat
      BY <3>1, WorkersCount
    <3>3. /\ sent[e] \in 0..MaxTicks /\ waiting[e] \in Nat /\ acked[e] \in Nat
          /\ ran[e] \in Nat /\ losses \in 0..MaxLosses
          /\ ran[e] <= acked[e] + Cardinality(Done(e)) + losses
          /\ sent[e] = waiting[e] + Cardinality(Holding(e)) + acked[e]
      BY DEF RunsCounted
    <3>4. /\ waiting[e] \in 0..MaxTicks /\ acked[e] \in 0..MaxTicks
          /\ ran[e] \in 0..(MaxTicks + MaxLosses)
      BY <3>1, <3>3, CountsAreBounded
    <3>5. SentName(e) \in Registered => acked[e] <= ran[e]
      BY <3>2, <3>3 DEF RunsCounted
    <3> QED
      BY <3>4, <3>5
  <2>2. TypeOK
    BY <2>1 DEF TypeOK
  <2> QED
    BY <2>1, <2>2 DEF IInv, NothingLost
<1> QED
  BY <1>1, <1>2

LEMMA DispatchInit == Init => IInv
<1> SUFFICES ASSUME Init PROVE Counted
  BY CountedIsInv
<1>1. ASSUME NEW e \in Entries PROVE Holding(e) = {} /\ Done(e) = {}
  BY DispatchAssumption DEF Init, Holding, Done
<1>2. Cardinality({}) = 0
  BY FS_EmptySet
<1>3. RunsCounted
  BY <1>1, <1>2, DispatchAssumption DEF Init, RunsCounted
<1> QED
  BY <1>1, <1>2, <1>3, DispatchAssumption DEF Init, Counted, FinishedHolds

\* A message of e that no worker is concerned with moves.
LEMMA QueueKeepsCounts ==
    ASSUME Counted, NEW e \in Entries,
           Publish(e) \/ \E w \in Workers : Discard(w, e)
    PROVE  Counted'
<1>1. UNCHANGED <<ran, holds, finished, losses>>
  BY DEF Publish, Discard
<1>2. \A d \in Entries : Holding(d)' = Holding(d) /\ Done(d)' = Done(d)
  BY <1>1 DEF Holding, Done
<1>3. \A d \in Entries : Cardinality(Holding(d)) \in Nat /\ Cardinality(Done(d)) \in Nat
  BY WorkersCount DEF Holding, Done
<1>4. /\ sent' \in [Entries -> 0..MaxTicks]
      /\ waiting' \in [Entries -> Nat] /\ acked' \in [Entries -> Nat]
      /\ \A d \in Entries : sent'[d] = waiting'[d] + Cardinality(Holding(d)) + acked'[d]
      /\ \A d \in Entries : /\ SentName(d) \in Registered => acked'[d] = acked[d]
                            /\ acked[d] <= acked'[d]
  <2>1. CASE Publish(e)
    BY <2>1, <1>3, DispatchAssumption DEF Publish, Counted
  <2>2. CASE \E w \in Workers : Discard(w, e)
    <3>1. /\ waiting[e] > 0 /\ SentName(e) \notin Registered /\ sent' = sent
          /\ waiting' = [waiting EXCEPT ![e] = @ - 1] /\ acked' = [acked EXCEPT ![e] = @ + 1]
      BY <2>2 DEF Discard, CanTake
    <3>2. /\ sent \in [Entries -> 0..MaxTicks] /\ waiting \in [Entries -> Nat]
          /\ acked \in [Entries -> Nat]
          /\ \A d \in Entries : sent[d] = waiting[d] + Cardinality(Holding(d)) + acked[d]
      BY DEF Counted
    <3>3. waiting' \in [Entries -> Nat] /\ acked' \in [Entries -> Nat]
      BY <3>1, <3>2
    <3>4. ASSUME NEW d \in Entries
          PROVE  /\ sent'[d] = waiting'[d] + Cardinality(Holding(d)) + acked'[d]
                 /\ SentName(d) \in Registered => acked'[d] = acked[d]
                 /\ acked[d] <= acked'[d]
      <4>1. CASE d = e
        <5>1. waiting'[e] = waiting[e] - 1 /\ acked'[e] = acked[e] + 1
          BY <3>1, <3>2
        <5>2. sent[e] = waiting'[e] + Cardinality(Holding(e)) + acked'[e] /\ acked[e] <= acked'[e]
          BY <5>1, <3>2, <1>3
        <5> QED
          BY <4>1, <5>1, <5>2, <3>1
      <4>2. CASE d # e
        BY <4>2, <3>1, <3>2
      <4> QED
        BY <4>1, <4>2
    <3> QED
      BY <3>1, <3>2, <3>3, <3>4
  <2> QED
    BY <2>1, <2>2
<1>5. RunsCounted'
  <2> SUFFICES ASSUME NEW d \in Entries
               PROVE  /\ SentName(d) \in Registered => acked'[d] + Cardinality(Done(d)) <= ran[d]
                      /\ ran[d] <= acked'[d] + Cardinality(Done(d)) + losses
    BY <1>1, <1>2 DEF RunsCounted
  <2>1. /\ SentName(d) \in Registered => acked[d] + Cardinality(Done(d)) <= ran[d]
        /\ ran[d] <= acked[d] + Cardinality(Done(d)) + losses
    BY DEF Counted, RunsCounted
  <2>2. /\ acked[d] \in Nat /\ acked'[d] \in Nat /\ ran[d] \in Nat /\ losses \in Nat
        /\ Cardinality(Done(d)) \in Nat
    BY <1>3, <1>4 DEF Counted
  <2>3. SentName(d) \in Registered => acked'[d] + Cardinality(Done(d)) <= ran[d]
    BY <1>4, <2>1
  <2>4. acked[d] <= acked'[d]
    BY <1>4
  <2>5. ran[d] <= acked'[d] + Cardinality(Done(d)) + losses
    BY <2>1, <2>2, <2>4
  <2> QED
    BY <2>3, <2>5
<1> QED
  BY <1>1, <1>2, <1>4, <1>5 DEF Counted, FinishedHolds

\* Worker w takes, runs, acknowledges or gives back a message of e: what the
\* counts of e become decides, those of the other entries stay.
LEMMA WorkerKeepsCounts ==
    ASSUME Counted, NEW w \in Workers, NEW e \in Entries,
           \/ Take(w, e)
           \/ holds[w] = e /\ (Finish(w) \/ Acknowledge(w) \/ LoseWorker(w))
    PROVE  Counted'
<1>1. /\ sent' = sent /\ holds' \in [Workers -> Entries \cup {NoEntry}]
      /\ finished' \in [Workers -> BOOLEAN] /\ losses' \in 0..MaxLosses /\ losses <= losses'
      /\ waiting' \in [Entries -> Int] /\ acked' \in [Entries -> Nat] /\ ran' \in [Entries -> Nat]
      /\ \A d \in Entries \ {e} : /\ waiting'[d] = waiting[d] /\ acked'[d] = acked[d]
                                  /\ ran'[d] = ran[d]
  <2> USE DispatchAssumption DEF Counted
  <2>1. CASE Take(w, e)
    BY <2>1 DEF Take, CanTake
  <2>2. CASE holds[w] = e /\ Finish(w)
    BY <2>2 DEF Finish
  <2>3. CASE holds[w] = e /\ Acknowledge(w)
    BY <2>3 DEF Acknowledge, Release
  <2>4. CASE holds[w] = e /\ LoseWorker(w)
    BY <2>4 DEF LoseWorker, Release
  <2> QED
    BY <2>1, <2>2, <2>3, <2>4
<1>2. /\ FinishedHolds' /\ NoEntry \notin Entries
      /\ \A v \in Workers \ {w} : holds'[v] = holds[v] /\ finished'[v] = finished[v]
      /\ holds[w] \in {e, NoEntry} /\ holds'[w] \in {e, NoEntry}
  <2> USE DispatchAssumption DEF Counted, FinishedHolds
  <2>1. CASE Take(w, e)
    BY <2>1 DEF Take, CanTake
  <2>2. CASE holds[w] = e /\ Finish(w)
    BY <2>2 DEF Finish
  <2>3. CASE holds[w] = e /\ (Acknowledge(w) \/ LoseWorker(w))
    BY <2>3 DEF Acknowledge, LoseWorker, Release
  <2> QED
    BY <2>1, <2>2, <2>3
<1>3. \A d \in Entries \ {e} : Holding(d)' = Holding(d) /\ Done(d)' = Done(d)
  <2> SUFFICES ASSUME NEW d \in Entries, d # e
               PROVE  Holding(d)' = Holding(d) /\ Done(d)' = Done(d)
    OBVIOUS
  <2>1. ASSUME NEW v \in Workers
        PROVE  /\ holds'[v] = d <=> holds[v] = d
               /\ holds'[v] = d /\ finished'[v] <=> holds[v] = d /\ finished[v]
    <3>1. CASE v = w
      <4>1. holds[w] # d /\ holds'[w] # d
        BY <1>2
      <4>2. holds[v] # d /\ holds'[v] # d
        BY <3>1, <4>1
      <4> QED
        BY <4>2, Zenon
    <3>2. CASE v # w
      <4>1. holds'[v] = holds[v] /\ finished'[v] = finished[v]
        BY <3>2, <1>2
      <4> QED
        BY <4>1, Zenon
    <3> QED
      BY <3>1, <3>2
  <2>2. Holding(d)' = Holding(d)
    BY <2>1 DEF Holding
  <2>3. \A v : v \in Done(d)' <=> v \in Done(d)
    BY <2>1 DEF Holding, Done
  <2>4. Done(d)' = Done(d)
    BY <2>3
  <2> QED
    BY <2>2, <2>4
<1>4. \A d \in Entries : /\ Holding(d) \in SUBSET Workers /\ Done(d) \in SUBSET Workers
                         /\ Cardinality(Holding(d)) \in Nat /\ Cardinality(Done(d)) \in Nat
  BY WorkersCount DEF Holding, Done
<1>5. /\ sent[e] = waiting[e] + Cardinality(Holding(e)) + acked[e]
      /\ SentName(e) \in Registered => acked[e] + Cardinality(Done(e)) <= ran[e]
      /\ ran[e] <= acked[e] + Cardinality(Done(e)) + losses
      /\ sent[e] \in Nat /\ waiting[e] \in Nat /\ acked[e] \in Nat /\ ran[e] \in Nat
      /\ losses \in Nat
  BY DispatchAssumption DEF Counted, RunsCounted
<1>6. /\ waiting'[e] \in Nat
      /\ sent[e] = waiting'[e] + Cardinality(Holding(e)') + acked'[e]
      /\ SentName(e) \in Registered => acked'[e] + Cardinality(Done(e)') <= ran'[e]
      /\ ran'[e] <= acked'[e] + Cardinality(Done(e)') + losses'
  <2>1. CASE Take(w, e)
    <3>1. w \notin Holding(e) /\ Holding(e)' = Holding(e) \cup {w} /\ Done(e)' = Done(e)
      BY <2>1, DispatchAssumption DEF Take, CanTake, Holding, Done, Counted, FinishedHolds
    <3>2. Cardinality(Holding(e)') = Cardinality(Holding(e)) + 1
      BY <3>1, <1>4, WorkersCount
    <3>3. /\ waiting[e] > 0 /\ waiting'[e] = waiting[e] - 1 /\ acked'[e] = acked[e]
          /\ ran'[e] = ran[e] /\ losses' = losses
      BY <2>1 DEF Take, CanTake, Counted
    <3>4. waiting'[e] \in Nat /\ sent[e] = waiting'[e] + Cardinality(Holding(e)') + acked'[e]
      BY <1>4, <1>5, <3>2, <3>3
    <3> QED
      BY <1>5, <3>1, <3>3, <3>4
  <2>2. CASE holds[w] = e /\ Finish(w)
    <3>1. w \notin Done(e) /\ Holding(e)' = Holding(e) /\ Done(e)' = Done(e) \cup {w}
      BY <2>2 DEF Finish, Holding, Done, Counted
    <3>2. Cardinality(Done(e)') = Cardinality(Done(e)) + 1
      BY <3>1, <1>4, WorkersCount
    <3>3. /\ waiting'[e] = waiting[e] /\ acked'[e] = acked[e]
          /\ ran'[e] = ran[e] + 1 /\ losses' = losses
      BY <2>2 DEF Finish, Counted
    <3>4. SentName(e) \in Registered => acked'[e] + Cardinality(Done(e)') <= ran'[e]
      <4>1. ASSUME acked[e] + Cardinality(Done(e)) <= ran[e]
            PROVE  acked'[e] + Cardinality(Done(e)') <= ran'[e]
        BY <4>1, <1>4, <1>5, <3>2, <3>3
      <4> QED
        BY <4>1, <1>5
    <3>5. ran'[e] <= acked'[e] + Cardinality(Done(e)') + losses'
      BY <1>4, <1>5, <3>2, <3>3
    <3> QED
      BY <1>5, <3>1, <3>3, <3>4, <3>5
  <2>3. CASE holds[w] = e /\ Acknowledge(w)
    <3>1. /\ w \in Holding(e) /\ w \in Done(e)
          /\ Holding(e)' = Holding(e) \ {w} /\ Done(e)' = Done(e) \ {w}
      BY <2>3, DispatchAssumption DEF Acknowledge, Release, Holding, Done, Counted
    <3>2. /\ Cardinality(Holding(e)') = Cardinality(Holding(e)) - 1
          /\ Cardinality(Done(e)') = Cardinality(Done(e)) - 1
      BY <3>1, <1>4, WorkersCount
    <3>3. /\ waiting'[e] = waiting[e] /\ acked'[e] = acked[e] + 1
          /\ ran'[e] = ran[e] /\ losses' = losses
      BY <2>3 DEF Acknowledge, Counted
    <3>4. acked'[e] + Cardinality(Done(e)') = acked[e] + Cardinality(Done(e))
          /\ sent[e] = waiting'[e] + Cardinality(Holding(e)') + acked'[e]
      BY <1>4, <1>5, <3>2, <3>3
    <3> QED
      BY <1>5, <3>3, <3>4
  <2>4. CASE holds[w] = e /\ LoseWorker(w)
    <3>1. /\ w \in Holding(e) /\ Holding(e)' = Holding(e) \ {w} /\ Done(e)' = Done(e) \ {w}
      BY <2>4, DispatchAssumption DEF LoseWorker, Release, Holding, Done, Counted
    <3>2. /\ Cardinality(Holding(e)') = Cardinality(Holding(e)) - 1
          /\ Cardinality(Done(e)') \in Nat
          /\ Cardinality(Done(e)) - 1 <= Cardinality(Done(e)')
          /\ Cardinality(Done(e)') <= Cardinality(Done(e))
      <4> DEFINE Bounded == /\ Cardinality(Done(e)') \in Nat
                            /\ Cardinality(Done(e)) - 1 <= Cardinality(Done(e)')
                            /\ Cardinality(Done(e)') <= Cardinality(Done(e))
      <4>1. ASSUME w \in Done(e) PROVE Bounded
        <5>1. Cardinality(Done(e)') = Cardinality(Done(e)) - 1 /\ Cardinality(Done(e)') \in Nat
          BY <4>1, <3>1, <1>4, WorkersCount
        <5> QED
          BY <5>1, <1>4
      <4>2. ASSUME w \notin Done(e) PROVE Bounded
        <5>1. Done(e)' = Done(e)
          BY <4>2, <3>1
        <5> QED
          BY <5>1, <1>4
      <4>3. Cardinality(Holding(e)') = Cardinality(Holding(e)) - 1
        BY <3>1, <1>4, WorkersCount
      <4> QED
        BY <4>1, <4>2, <4>3
    <3>3. /\ waiting'[e] = waiting[e] + 1 /\ acked'[e] = acked[e]
          /\ ran'[e] = ran[e] /\ losses' = losses + 1
      BY <2>4 DEF LoseWorker, Counted
    <3>4. SentName(e) \in Registered => acked'[e] + Cardinality(Done(e)') <= ran'[e]
      <4>1. ASSUME acked[e] + Cardinality(Done(e)) <= ran[e]
            PROVE  acked'[e] + Cardinality(Done(e)') <= ran'[e]
        BY <4>1, <1>4, <1>5, <3>2, <3>3
      <4> QED
        BY <4>1, <1>5
    <3>5. /\ waiting'[e] \in Nat
          /\ sent[e] = waiting'[e] + Cardinality(Holding(e)') + acked'[e]
          /\ ran'[e] <= acked'[e] + Cardinality(Done(e)') + losses'
      BY <1>4, <1>5, <3>2, <3>3
    <3> QED
      BY <3>4, <3>5
  <2> QED
    BY <2>1, <2>2, <2>3, <2>4
<1>7. \A d \in Entries :
        /\ waiting'[d] \in Nat
        /\ sent'[d] = waiting'[d] + Cardinality(Holding(d)') + acked'[d]
  BY <1>1, <1>3, <1>6 DEF Counted
<1>8. RunsCounted'
  <2> SUFFICES ASSUME NEW d \in Entries
               PROVE  /\ SentName(d) \in Registered => acked'[d] + Cardinality(Done(d)') <= ran'[d]
                      /\ ran'[d] <= acked'[d] + Cardinality(Done(d)') + losses'
    BY DEF RunsCounted
  <2>1. CASE d = e
    BY <2>1, <1>6
  <2>2. CASE d # e
    <3>1. /\ SentName(d) \in Registered => acked'[d] + Cardinality(Done(d)') <= ran'[d]
          /\ ran'[d] <= acked'[d] + Cardinality(Done(d)') + losses
      BY <2>2, <1>1, <1>3 DEF Counted, RunsCounted
    <3>2. /\ ran'[d] \in Nat /\ acked'[d] \in Nat /\ Cardinality(Done(d)') \in Nat
          /\ losses \in Nat /\ losses' \in Nat /\ losses <= losses'
      BY <2>2, <1>1, <1>3, <1>4, <1>5, DispatchAssumption
    <3> QED
      BY <3>1, <3>2
  <2> QED
    BY <2>1, <2>2
<1>9. waiting' \in [Entries -> Nat]
  BY <1>1, <1>7
<1> QED
  BY <1>1, <1>2, <1>7, <1>8, <1>9 DEF Counted

LEMMA DispatchNext == Counted /\ [Next]_vars => Counted'
<1> SUFFICES ASSUME Counted, [Next]_vars PROVE Counted'
  OBVIOUS
<1>1. CASE UNCHANGED vars
  BY <1>1 DEF vars, Counted, FinishedHolds, RunsCounted, Holding, Done
<1>2. CASE \E e \in Entries : Publish(e)
  BY <1>2, QueueKeepsCounts
<1>3. CASE \E w \in Workers, e \in Entries : Take(w, e) \/ Discard(w, e)
  BY <1>3, QueueKeepsCounts, WorkerKeepsCounts
<1>4. CASE \E w \in Workers : Finish(w) \/ Acknowledge(w) \/ LoseWorker(w)
  <2>1. PICK w \in Workers : Finish(w) \/ Acknowledge(w) \/ LoseWorker(w)
    BY <1>4
  <2>2. holds[w] \in Entries
    BY <2>1 DEF Counted, FinishedHolds, Finish, Acknowledge, LoseWorker
  <2> QED
    BY <2>1, <2>2, WorkerKeepsCounts
<1> QED
  BY <1>1, <1>2, <1>3, <1>4 DEF Next

\* The messages of beat and the executions they stand for add up in every
\* reachable state, for any number of entries, workers and losses.
THEOREM MessagesAddUp == Spec => []IInv
<1>1. Init => Counted
  BY DispatchInit, CountedIsInv
<1> QED
  BY <1>1, DispatchNext, CountedIsInv, PTL DEF Spec

\* With task_acks_late and task_reject_on_worker_lost no message of beat is lost,
\* doubled or acknowledged unrun, whichever worker dies at whatever point.
THEOREM NoJobIsLost == Spec => []NothingLost
<1>1. IInv => NothingLost
  BY DEF IInv
<1> QED
  BY <1>1, MessagesAddUp, PTL

----------------------------------------------------------------------------
(* Accounts.                                                                *)

UserRow == [status : {"absent", "active", "disabled"}, failed : Nat, locked : Int]

\* A count of failures, also one that a login under way has read, is of failures
\* that were committed, and only the last of Threshold failures locks.
LockInv ==
    /\ user \in UserRow /\ misses \in 0..Threshold
    /\ user.failed <= misses
    /\ user.locked # NoLock => misses = Threshold
    /\ DOMAIN req = Requests
    /\ \A r \in Requests : req[r].step = "login" =>
         req[r].read.failed \in Nat /\ req[r].read.failed <= misses

LEMMA AccountInitInv == AccountInit => LockInv
  BY LimitsAssumption DEF AccountInit, LockInv, UserRow, NoUser, Idle, NoLock

\* A request whose step ends, or that goes on with nothing it read of the account.
LEMMA RequestKeepsLock ==
    ASSUME LockInv, user' = user, misses' = misses, NEW r \in Requests,
           \/ UNCHANGED req
           \/ req' = [req EXCEPT ![r] = Idle]
           \/ \E c : req' = [req EXCEPT ![r] = [Idle EXCEPT !.step = "found", !.cred = c]]
           \/ req' = [req EXCEPT ![r].step = "admitted"]
           \/ req' = [req EXCEPT ![r] = [step |-> "login", read |-> user, cred |-> Anonymous]]
    PROVE  LockInv'
<1> USE DEF LockInv, Idle
<1>1. ASSUME NEW q \in Requests, req'[q].step = "login"
      PROVE  req'[q].read.failed \in Nat /\ req'[q].read.failed <= misses
  <2>1. CASE UNCHANGED req
    BY <1>1, <2>1
  <2>2. CASE req' = [req EXCEPT ![r] = Idle]
    BY <1>1, <2>2
  <2>3. CASE \E c : req' = [req EXCEPT ![r] = [Idle EXCEPT !.step = "found", !.cred = c]]
    BY <1>1, <2>3
  <2>4. CASE req' = [req EXCEPT ![r].step = "admitted"]
    <3>1. q # r
      BY <1>1, <2>4
    <3> QED
      BY <1>1, <2>4, <3>1
  <2>5. CASE req' = [req EXCEPT ![r] = [step |-> "login", read |-> user, cred |-> Anonymous]]
    BY <1>1, <2>5 DEF UserRow
  <2> QED
    BY <2>1, <2>2, <2>3, <2>4, <2>5
<1>2. DOMAIN req' = Requests
  OBVIOUS
<1> QED
  BY <1>1, <1>2

\* A login writes the columns that differ from what it read.
LEMMA WriteEffect ==
    ASSUME user \in UserRow, NEW r, NEW failed \in Nat, NEW locked,
           locked = req[r].read.locked \/ locked \in Int, Write(r, failed, locked)
    PROVE  /\ user' \in UserRow /\ user'.status = user.status
           /\ user'.failed \in {failed, user.failed}
           /\ user'.locked = IF locked = req[r].read.locked THEN user.locked ELSE locked
<1> DEFINE f == IF failed = req[r].read.failed THEN user.failed ELSE failed
           l == IF locked = req[r].read.locked THEN user.locked ELSE locked
<1>1. user' = [user EXCEPT !.failed = f, !.locked = l]
  BY DEF Write
<1>2. f \in Nat /\ f \in {failed, user.failed} /\ l \in Int
  BY DEF UserRow
<1> HIDE DEF f
<1>3. user'.locked = l
  <2> HIDE DEF l
  <2> QED
    BY <1>1 DEF UserRow
<1>4. user' \in UserRow /\ user'.status = user.status /\ user'.failed = f
  <2> HIDE DEF l
  <2> QED
    BY <1>1, <1>2 DEF UserRow
<1> QED
  BY <1>2, <1>3, <1>4

\* The outcome of a login, written over whatever was committed since it read.
LEMMA LoginKeepsLock ==
    ASSUME LockInv, NEW r \in Requests,
           LoginSucceeds(r) \/ LoginFails(r)
    PROVE  LockInv'
<1> USE LimitsAssumption
<1>1. /\ req[r].step = "login" /\ req' = [req EXCEPT ![r] = Idle]
      /\ req[r].read.failed \in Nat /\ req[r].read.failed <= misses
      /\ misses \in 0..Threshold /\ Threshold \in Nat /\ Threshold > 0
      /\ user \in UserRow /\ user.failed <= misses
      /\ user.locked # NoLock => misses = Threshold
  BY DEF LockInv, LoginSucceeds, LoginFails, End
<1>2. \A q \in Requests : req'[q].step = "login" => req'[q] = req[q]
  BY <1>1 DEF LockInv, Idle
<1>3. /\ user' \in UserRow /\ misses' \in 0..Threshold /\ misses <= misses'
      /\ user'.failed <= misses' /\ (user'.locked # NoLock => misses' = Threshold)
  <2>1. CASE LoginSucceeds(r)
    <3>1. misses' = misses /\ Write(r, 0, NoLock)
      BY <2>1 DEF LoginSucceeds
    <3>2. /\ user' \in UserRow
          /\ user'.failed \in {0, user.failed}
          /\ user'.locked \in {NoLock, user.locked}
      <4>1. NoLock \in Int /\ 0 \in Nat
        BY DEF NoLock
      <4> HIDE DEF NoLock
      <4> QED
        BY <1>1, <3>1, <4>1, WriteEffect
    <3> QED
      BY <1>1, <3>1, <3>2 DEF UserRow
  <2>2. CASE LoginFails(r)
    <3> DEFINE failed == req[r].read.failed
    <3>1. misses' = IF misses < Threshold THEN misses + 1 ELSE misses
      BY <2>2 DEF LoginFails
    <3>3. CASE failed + 1 >= Threshold
      <4>1. Write(r, 0, LockTime)
        BY <2>2, <3>3 DEF LoginFails, Locks
      <4>2. user' \in UserRow /\ user'.failed \in {0, user.failed}
        <5>1. LockTime \in Int /\ 0 \in Nat
          BY LimitsAssumption
        <5> QED
          BY <1>1, <4>1, <5>1, WriteEffect
      <4>3. misses' = Threshold
        BY <1>1, <3>1, <3>3
      <4> QED
        BY <1>1, <4>2, <4>3 DEF UserRow
    <3>4. CASE ~(failed + 1 >= Threshold)
      <4>1. Write(r, failed + 1, req[r].read.locked)
        BY <2>2, <3>4 DEF LoginFails, Locks
      <4>2. /\ user' \in UserRow /\ user'.failed \in {failed + 1, user.failed}
            /\ user'.locked = user.locked
        <5>1. failed + 1 \in Nat
          BY <1>1
        <5> QED
          BY <1>1, <4>1, <5>1, WriteEffect
      <4>3. misses <= misses' /\ misses' \in 0..Threshold /\ failed + 1 <= misses'
        BY <1>1, <3>1, <3>4
      <4>4. misses = Threshold => misses' = Threshold
        BY <1>1, <3>1
      <4> QED
        BY <1>1, <4>2, <4>3, <4>4 DEF UserRow
    <3> QED
      BY <3>3, <3>4
  <2> QED
    BY <2>1, <2>2
<1>4. \A q \in Requests : req'[q].step = "login" =>
         req'[q].read.failed \in Nat /\ req'[q].read.failed <= misses'
  BY <1>1, <1>2, <1>3 DEF LockInv
<1>5. DOMAIN req' = Requests
  BY <1>1 DEF LockInv
<1> QED
  BY <1>3, <1>4, <1>5 DEF LockInv

\* Administration and time: no failure is counted and no lock begins.
LEMMA AccountKeepsLock ==
    ASSUME LockInv, CreateUser \/ Disable \/ Prune \/ Tick
    PROVE  LockInv' /\ (user.status = "disabled" => user'.status = "disabled")
<1>1. UNCHANGED <<req, misses>>
  BY DEF CreateUser, Disable, Prune, Tick
<1>2. /\ user' \in UserRow /\ user'.failed = user.failed
      /\ user'.locked # NoLock => user.locked # NoLock
      /\ user.status = "disabled" => user'.status = "disabled"
  <2>1. CASE Tick
    BY <2>1 DEF LockInv, UserRow, Tick, Less, NoLock
  <2>2. CASE CreateUser \/ Disable \/ Prune
    BY <2>2 DEF LockInv, UserRow, CreateUser, Disable, Prune
  <2> QED
    BY <2>1, <2>2
<1> QED
  BY <1>1, <1>2 DEF LockInv

LEMMA AccountNextInv ==
    ASSUME LockInv, [AccountNext]_accountVars
    PROVE  LockInv' /\ (user.status = "disabled" => user'.status = "disabled")
<1>1. CASE UNCHANGED accountVars
  BY <1>1 DEF accountVars, LockInv
<1>2. CASE CreateUser \/ Disable \/ Prune \/ Tick
  BY <1>2, AccountKeepsLock
<1>3. ASSUME NEW r \in Requests, Serve(r)
      PROVE  LockInv' /\ (user.status = "disabled" => user'.status = "disabled")
  <2>1. CASE LoginSucceeds(r) \/ LoginFails(r)
    <3>1. user'.status = user.status
      BY <2>1 DEF LoginSucceeds, LoginFails, Write, LockInv, UserRow
    <3> QED
      BY <2>1, <3>1, LoginKeepsLock
  <2>2. CASE BeginLogin(r) \/ Present(r) \/ Admit(r) \/ Refuse(r)
             \/ FinishRequest(r) \/ Logout(r) \/ CreateToken(r)
             \/ RotateToken(r)
    <3>1. user' = user /\ misses' = misses
      BY <2>2 DEF BeginLogin, Present, Admit, Refuse, FinishRequest,
                  Logout, CreateToken, RotateToken
    <3>2. \/ req' = [req EXCEPT ![r] = Idle]
          \/ \E c : req' = [req EXCEPT ![r] = [Idle EXCEPT !.step = "found", !.cred = c]]
          \/ req' = [req EXCEPT ![r].step = "admitted"]
          \/ req' = [req EXCEPT ![r] = [step |-> "login", read |-> user, cred |-> Anonymous]]
      BY <2>2 DEF BeginLogin, Present, Admit, Refuse, FinishRequest,
                  Logout, CreateToken, RotateToken, End
    <3> QED
      BY <3>1, <3>2, RequestKeepsLock
  <2> QED
    BY <1>3, <2>1, <2>2 DEF Serve
<1> QED
  BY <1>1, <1>2, <1>3 DEF AccountNext

\* What an open login has read of the counter stays below the failures committed,
\* whatever the account has become since.
THEOREM AccountsSound == AccountSpec => []LockInv
<1>1. LockInv /\ [AccountNext]_accountVars => LockInv'
  BY AccountNextInv
<1> QED
  BY <1>1, AccountInitInv, PTL DEF AccountSpec

\* However logins that overlap read stale counts, an account is locked only when
\* LOCKOUT_THRESHOLD failures were committed.
THEOREM LocksAreEarned == AccountSpec => []LockIsEarned
<1>1. LockInv => LockIsEarned
  BY DEF LockInv, LockIsEarned
<1> QED
  BY <1>1, AccountsSound, PTL

\* No write of a login that read the account earlier brings a disabled user back.
THEOREM DisablingIsForGood == AccountSpec => DisabledForGood
<1>1. LockInv /\ [AccountNext]_accountVars =>
        [user.status = "disabled" => user'.status = "disabled"]_accountVars
  BY AccountNextInv
<1> QED
  BY <1>1, AccountsSound, PTL DEF AccountSpec, DisabledForGood

----------------------------------------------------------------------------
(* Passes.                                                                  *)

Statuses == {"absent", "open", "acknowledged", "false_positive", "resolved", "accepted",
             "dismissed", "remediated", "excepted", "deleted"}
Alert == [breached : BOOLEAN, count : Nat]
Row == [status : Statuses, decided : Months \cup {None}, realized : Months \cup {None},
        alert : Alert]
Exc == [expires : Months \cup {None}, revoked : BOOLEAN]

\* A committed row: what it claims has happened.
RowBacked ==
    /\ row.alert.count <= alerts
    /\ row.status = "accepted" => row.decided \in accepted
    /\ row.realized # None => \E m \in accepted : m < row.realized
    /\ row.status = "excepted" => exc.expires # None

\* The columns w of the row and x of its exception that a transaction is going to
\* write, whatever the rows have become since it read them: what was accepted, the expiry
\* of the exception and the alerts sent so far back it.
WriteBacked(op, w, x, acc, expires, n) ==
    /\ "status" \in DOMAIN w =>
         /\ w["status"] \in Statuses
         /\ w["status"] = "accepted" => op = "user" /\ "decided" \in DOMAIN w
         /\ w["status"] = "excepted" => expires # None \/ "expires" \in DOMAIN x
    /\ "decided" \in DOMAIN w =>
         /\ w["decided"] \in Months
         /\ op = "user" \/ ("status" \in DOMAIN w /\ w["status"] # "accepted")
    /\ "realized" \in DOMAIN w =>
         w["realized"] \in Months /\ \E m \in acc : m < w["realized"]
    /\ "alert" \in DOMAIN w =>
         /\ op = "pass" /\ w["alert"] \in Alert
         /\ w["alert"].count <= IF w["alert"].breached THEN n + 1 ELSE n
    /\ "expires" \in DOMAIN x => x["expires"] \in Months
    /\ "revoked" \in DOMAIN x => x["revoked"] \in BOOLEAN

TxBacked ==
    \A t \in Passes \cup Users :
        /\ tx[t].now \in Months /\ tx[t].exc \in Exc
        /\ tx[t].exc.expires # None => exc.expires # None
        /\ WriteBacked(tx[t].op, tx[t].write.row, tx[t].write.exc,
                       accepted, exc.expires, alerts)

RowsTyped ==
    /\ kind \in Kinds /\ row \in Row /\ exc \in Exc /\ enabled \in BOOLEAN
    /\ clock \in Months /\ alerts \in Nat /\ accepted \subseteq Months
    /\ lost \in 0..MaxLostPasses
    /\ DOMAIN tx = Passes \cup Users

PassInv == RowsTyped /\ RowBacked /\ TxBacked

\* The columns of a row that a commit writes are those that changed.
LEMMA RowChanges ==
    ASSUME NEW seen \in Row, NEW new \in Row
    PROVE  LET w == Changes(seen, new) IN
           /\ "status" \in DOMAIN w <=> new.status # seen.status
           /\ "status" \in DOMAIN w => w["status"] = new.status
           /\ "decided" \in DOMAIN w <=> new.decided # seen.decided
           /\ "decided" \in DOMAIN w => w["decided"] = new.decided
           /\ "realized" \in DOMAIN w <=> new.realized # seen.realized
           /\ "realized" \in DOMAIN w => w["realized"] = new.realized
           /\ "alert" \in DOMAIN w <=> new.alert # seen.alert
           /\ "alert" \in DOMAIN w => w["alert"] = new.alert
<1>1. DOMAIN new = {"status", "decided", "realized", "alert"}
  BY DEF Row
<1> QED
  BY <1>1 DEF Changes

LEMMA ExcChanges ==
    ASSUME NEW seen \in Exc, NEW new \in Exc
    PROVE  LET x == Changes(seen, new) IN
           /\ "expires" \in DOMAIN x <=> new.expires # seen.expires
           /\ "expires" \in DOMAIN x => x["expires"] = new.expires
           /\ "revoked" \in DOMAIN x => x["revoked"] = new.revoked
<1>1. DOMAIN new = {"expires", "revoked"}
  BY DEF Exc
<1> QED
  BY <1>1 DEF Changes

LEMMA RowWritten ==
    ASSUME NEW w, NEW now \in Row
    PROVE  Written(w, now) =
             [status   |-> IF "status" \in DOMAIN w THEN w["status"] ELSE now.status,
              decided  |-> IF "decided" \in DOMAIN w THEN w["decided"] ELSE now.decided,
              realized |-> IF "realized" \in DOMAIN w THEN w["realized"] ELSE now.realized,
              alert    |-> IF "alert" \in DOMAIN w THEN w["alert"] ELSE now.alert]
<1>1. DOMAIN now = {"status", "decided", "realized", "alert"}
  BY DEF Row
<1> QED
  BY <1>1 DEF Written

LEMMA ExcWritten ==
    ASSUME NEW x, NEW now \in Exc
    PROVE  Written(x, now) =
             [expires |-> IF "expires" \in DOMAIN x THEN x["expires"] ELSE now.expires,
              revoked |-> IF "revoked" \in DOMAIN x THEN x["revoked"] ELSE now.revoked]
<1>1. DOMAIN now = {"expires", "revoked"}
  BY DEF Exc
<1> QED
  BY <1>1 DEF Written

\* Nothing is written when nothing is noted to be written.
LEMMA NothingWritten ==
    /\ Closed.write.row = <<>> /\ Closed.write.exc = <<>>
    /\ DOMAIN <<>> = {}
<1>1. DOMAIN <<>> = {}
  OBVIOUS
<1> QED
  BY <1>1 DEF Closed, NoWrite

LEMMA PassesInitInv == PassesInit => PassInv
<1> SUFFICES ASSUME PassesInit PROVE PassInv
  OBVIOUS
<1> USE PassAssumption DEF PassesInit, NoRow, NoExc, Months
<1>1. RowsTyped
  BY DEF RowsTyped, Row, Statuses, Alert, Exc
<1>2. RowBacked
  BY DEF RowBacked
<1>3. TxBacked
  <2> SUFFICES ASSUME NEW t \in Passes \cup Users
               PROVE  /\ Closed.now \in Months /\ Closed.exc \in Exc
                      /\ Closed.exc.expires # None => exc.expires # None
                      /\ WriteBacked(Closed.op, Closed.write.row,
                                     Closed.write.exc, accepted, exc.expires, alerts)
    BY DEF TxBacked
  <2>1. /\ Closed.now \in Months /\ Closed.exc \in Exc
        /\ Closed.exc.expires # None => exc.expires # None
    BY DEF Closed, Exc
  <2>2. WriteBacked(Closed.op, Closed.write.row, Closed.write.exc,
                   accepted, exc.expires, alerts)
    BY NothingWritten DEF WriteBacked
  <2> QED
    BY <2>1, <2>2
<1> QED
  BY <1>1, <1>2, <1>3 DEF PassInv

\* What a pass makes of the committed row is backed by what was committed.
LEMMA EvaluationIsBacked ==
    ASSUME PassInv, NEW e \in Exc, NEW now \in Months,
           e.expires # None => exc.expires # None,
           NEW new \in Evaluations(row, e, now)
    PROVE  /\ new \in Row
           /\ new.status # row.status =>
                new.status # "accepted" /\ (new.status = "excepted" => exc.expires # None)
           /\ new.decided # row.decided => new.decided \in Months /\ new.status # row.status
           /\ new.realized # row.realized =>
                new.realized \in Months /\ \E m \in accepted : m < new.realized
           /\ new.alert # row.alert =>
                new.alert.count <= IF new.alert.breached THEN alerts + 1 ELSE alerts
<1>1. row \in Row /\ row.alert \in Alert /\ kind \in Kinds
  BY DEF PassInv, RowsTyped, Row
<1>2. CASE kind = "anomaly"
  <2>1. new = Anomaly(row)
    BY <1>2 DEF Evaluations
  <2> QED
    BY <1>1, <2>1 DEF Anomaly, Row, Statuses
<1>3. CASE kind = "recommendation"
  <2> DEFINE r == Recommended(row, now)
  <2>1. new \in Saved(r, now)
    BY <1>3 DEF Evaluations
  <2>2. /\ r \in Row /\ r.realized = row.realized /\ r.alert = row.alert
        /\ r.status # row.status => r.status # "accepted" /\ r.status # "excepted"
        /\ r.decided # row.decided => r.decided \in Months /\ r.status # row.status
        /\ r.status = "accepted" => r = row
    BY <1>1 DEF Recommended, Row, Statuses
  <2> HIDE DEF r
  <2>3. CASE new = r
    BY <2>2, <2>3
  <2>4. CASE new # r
    <3>1. /\ r.status = "accepted" /\ r.decided < now
          /\ new = [r EXCEPT !.realized = now]
      BY <2>1, <2>4 DEF Saved
    <3>2. r = row /\ r.decided \in accepted
      BY <2>2, <3>1 DEF PassInv, RowBacked
    <3> QED
      BY <2>2, <3>1, <3>2 DEF Row
  <2> QED
    BY <2>3, <2>4
<1>4. CASE kind = "finding"
  <2>1. new = Finding(row, e, now)
    BY <1>4 DEF Evaluations
  <2>2. PICK status : new = [row EXCEPT !.status = status]
    BY <2>1 DEF Finding
  <2>3. /\ status \in Statuses
        /\ status # row.status =>
             status # "accepted" /\ (status = "excepted" => Active(e, now))
    <3>1. status = new.status
      BY <1>1, <2>2 DEF Row
    <3> QED
      BY <1>1, <2>1, <3>1 DEF Finding, Row, Statuses
  <2> QED
    BY <1>1, <2>2, <2>3 DEF Row, Active
<1>5. CASE kind = "budget"
  <2>1. new = Alerted(row)
    BY <1>5 DEF Evaluations
  <2>2. /\ new \in Row /\ new.status = row.status /\ new.decided = row.decided
        /\ new.realized = row.realized
    <3>1. PICK a \in Alert : new = [row EXCEPT !.alert = a]
      <4>1. CASE row.status = "open" /\ fact = "on" /\ ~row.alert.breached
        <5> DEFINE a == [breached |-> TRUE, count |-> row.alert.count + 1]
        <5>1. a \in Alert
          BY <1>1 DEF Alert
        <5>2. new = [row EXCEPT !.alert = a]
          BY <2>1, <4>1 DEF Alerted
        <5> QED
          BY <5>1, <5>2
      <4>2. CASE row.status = "open" /\ fact # "on" /\ row.alert.breached
        <5> DEFINE a == [row.alert EXCEPT !.breached = FALSE]
        <5>1. a \in Alert
          BY <1>1 DEF Alert
        <5>2. new = [row EXCEPT !.alert = a]
          BY <1>1, <2>1, <4>2 DEF Alerted, Row
        <5> QED
          BY <5>1, <5>2
      <4>3. CASE new = row
        BY <1>1, <4>3 DEF Row
      <4> QED
        BY <2>1, <4>1, <4>2, <4>3 DEF Alerted
    <3> QED
      BY <1>1, <3>1 DEF Row
  <2>3. row.alert.count <= alerts /\ row.alert.count \in Nat /\ alerts \in Nat
    BY <1>1 DEF PassInv, RowBacked, RowsTyped, Alert
  <2>4. new.alert # row.alert =>
          new.alert.count <= IF new.alert.breached THEN alerts + 1 ELSE alerts
    <3>1. CASE row.status = "open" /\ fact = "on" /\ ~row.alert.breached
      <4>1. new.alert = [breached |-> TRUE, count |-> row.alert.count + 1]
        BY <1>1, <2>1, <3>1 DEF Alerted, Row
      <4> QED
        BY <4>1, <2>3
    <3>2. CASE row.status = "open" /\ fact # "on" /\ row.alert.breached
      <4>1. new.alert = [row.alert EXCEPT !.breached = FALSE]
        BY <1>1, <2>1, <3>2 DEF Alerted, Row
      <4>2. new.alert.breached = FALSE /\ new.alert.count = row.alert.count
        BY <1>1, <4>1 DEF Alert
      <4> QED
        BY <4>2, <2>3
    <3> QED
      BY <2>1, <3>1, <3>2 DEF Alerted
  <2> QED
    BY <2>2, <2>4
<1> QED
  BY <1>1, <1>2, <1>3, <1>4, <1>5, PassAssumption

\* What backs a write is history: it is not taken back while the transaction waits.
LEMMA WriteStaysBacked ==
    ASSUME NEW op, NEW w, NEW x, NEW acc, NEW acc2, acc \subseteq acc2,
           NEW expires, NEW expires2, expires # None => expires2 # None,
           NEW n \in Nat, NEW n2 \in Nat, n <= n2,
           WriteBacked(op, w, x, acc, expires, n)
    PROVE  WriteBacked(op, w, x, acc2, expires2, n2)
<1>1. ASSUME "alert" \in DOMAIN w
      PROVE  w["alert"].count <= IF w["alert"].breached THEN n2 + 1 ELSE n2
  <2>1. w["alert"].count \in Nat
        /\ w["alert"].count <= IF w["alert"].breached THEN n + 1 ELSE n
    BY <1>1 DEF WriteBacked, Alert
  <2>2. CASE w["alert"].breached
    BY <2>1, <2>2
  <2>3. CASE ~w["alert"].breached
    BY <2>1, <2>3
  <2> QED
    BY <2>2, <2>3
<1> QED
  BY <1>1 DEF WriteBacked

\* One transaction begins, goes on or ends, the others wait.
LEMMA OneTransaction ==
    ASSUME PassInv, NEW t \in Passes \cup Users, NEW change,
           tx' = [tx EXCEPT ![t] = change],
           accepted \subseteq accepted', exc.expires # None => exc'.expires # None,
           alerts' \in Nat, alerts <= alerts',
           change.now \in Months, change.exc \in Exc,
           change.exc.expires # None => exc'.expires # None,
           WriteBacked(change.op, change.write.row, change.write.exc,
                       accepted', exc'.expires, alerts')
    PROVE  DOMAIN tx' = Passes \cup Users /\ TxBacked'
<1>1. DOMAIN tx = Passes \cup Users /\ alerts \in Nat
  BY DEF PassInv, RowsTyped
<1>2. ASSUME NEW s \in Passes \cup Users
      PROVE  /\ tx'[s].now \in Months /\ tx'[s].exc \in Exc
             /\ tx'[s].exc.expires # None => exc'.expires # None
             /\ WriteBacked(tx'[s].op, tx'[s].write.row, tx'[s].write.exc,
                            accepted', exc'.expires, alerts')
  <2>1. CASE s = t
    <3>1. tx'[s] = change
      BY <1>1, <2>1
    <3> QED
      BY <3>1
  <2>2. CASE s # t
    <3>1. tx'[s] = tx[s]
      BY <1>1, <2>2
    <3>2. /\ tx[s].now \in Months /\ tx[s].exc \in Exc
          /\ tx[s].exc.expires # None => exc.expires # None
          /\ WriteBacked(tx[s].op, tx[s].write.row, tx[s].write.exc,
                         accepted, exc.expires, alerts)
      BY DEF PassInv, TxBacked
    <3>3. WriteBacked(tx[s].op, tx[s].write.row, tx[s].write.exc,
                      accepted', exc'.expires, alerts')
      BY <1>1, <3>2, WriteStaysBacked
    <3> QED
      BY <3>1, <3>2, <3>3
  <2> QED
    BY <2>1, <2>2
<1> QED
  BY <1>1, <1>2 DEF TxBacked

\* A pass begins, evaluates, is rolled back or lost; a user's request is noted:
\* nothing is committed.
LEMMA OpenKeepsInv ==
    ASSUME PassInv, NEW t \in Passes \cup Users, NEW change,
           Open(t, change),
           change.now \in Months, change.exc \in Exc,
           change.exc.expires # None => exc.expires # None,
           WriteBacked(change.op, change.write.row, change.write.exc,
                       accepted, exc.expires, alerts)
    PROVE  PassInv'
<1>1. /\ tx' = [tx EXCEPT ![t] = change]
      /\ UNCHANGED <<kind, row, exc, enabled, fact, clock, alerts, accepted, lost>>
  BY DEF Open
<1>2. DOMAIN tx' = Passes \cup Users /\ TxBacked'
  <2>1. alerts' \in Nat /\ alerts <= alerts'
    BY <1>1 DEF PassInv, RowsTyped
  <2> QED
    BY <1>1, <2>1, OneTransaction
<1> QED
  BY <1>1, <1>2 DEF PassInv, RowsTyped, RowBacked

LEMMA ClosedIsBacked ==
    /\ Closed.now \in Months /\ Closed.exc \in Exc
    /\ Closed.exc.expires = None /\ Closed.op = "none"
    /\ \A acc, expires, n : WriteBacked(Closed.op, Closed.write.row,
                                        Closed.write.exc, acc, expires, n)
<1>1. Closed.now \in Months /\ Closed.exc \in Exc
  BY PassAssumption DEF Closed, NoExc, Exc, Months
<1>2. Closed.exc.expires = None /\ Closed.op = "none"
  BY DEF Closed, NoExc
<1>3. \A acc, expires, n : WriteBacked(Closed.op, Closed.write.row,
                                       Closed.write.exc, acc, expires, n)
  BY NothingWritten DEF WriteBacked
<1> QED
  BY <1>1, <1>2, <1>3

LEMMA BeginPassKeepsInv ==
    ASSUME PassInv, NEW p \in Passes, BeginPass(p)
    PROVE  PassInv'
<1> DEFINE e == IF exc.revoked THEN NoExc ELSE exc
           change == [Closed EXCEPT !.op = "begun", !.exc = e, !.now = clock]
<1>1. Open(p, change)
  BY DEF BeginPass
<1>2. e \in Exc /\ (e.expires # None => exc.expires # None) /\ clock \in Months
  BY DEF PassInv, RowsTyped, Exc, NoExc
<1>3. /\ change.op = "begun" /\ change.exc = e /\ change.now = clock
      /\ change.write = Closed.write
  BY DEF Closed
<1>4. WriteBacked(change.op, change.write.row, change.write.exc, accepted, exc.expires, alerts)
  BY <1>3, NothingWritten DEF WriteBacked
<1> HIDE DEF change, e
<1> QED
  BY <1>1, <1>2, <1>3, <1>4, OpenKeepsInv

LEMMA EvaluateKeepsInv ==
    ASSUME PassInv, NEW p \in Passes, Evaluate(p)
    PROVE  PassInv'
<1> DEFINE e == tx[p].exc
           x == Changes(e, Revoked(e, tx[p].now))
<1>1. e \in Exc /\ tx[p].now \in Months /\ (e.expires # None => exc.expires # None)
  BY DEF PassInv, TxBacked
<1>2. PICK new \in Evaluations(row, e, tx[p].now) :
        Open(p, [Closed EXCEPT !.op = "pass",
                 !.insert = row.status = "absent" /\ new.status # "absent",
                 !.write = [row |-> Changes(row, new), exc |-> x]])
  BY DEF Evaluate
<1> DEFINE w == Changes(row, new)
           change == [Closed EXCEPT !.op = "pass",
                 !.insert = row.status = "absent" /\ new.status # "absent",
                 !.write = [row |-> w, exc |-> x]]
<1>3. /\ new \in Row
      /\ new.status # row.status =>
           new.status # "accepted" /\ (new.status = "excepted" => exc.expires # None)
      /\ new.decided # row.decided => new.decided \in Months /\ new.status # row.status
      /\ new.realized # row.realized =>
           new.realized \in Months /\ \E m \in accepted : m < new.realized
      /\ new.alert # row.alert =>
           new.alert.count <= IF new.alert.breached THEN alerts + 1 ELSE alerts
  BY <1>1, EvaluationIsBacked
<1>4. row \in Row
  BY DEF PassInv, RowsTyped
<1>5. /\ "expires" \notin DOMAIN x
      /\ "revoked" \in DOMAIN x => x["revoked"] \in BOOLEAN
  <2>1. Revoked(e, tx[p].now) \in Exc /\ Revoked(e, tx[p].now).expires = e.expires
    BY <1>1 DEF Revoked, Exc
  <2> QED
    BY <1>1, <2>1, ExcChanges DEF Exc
<1>6. WriteBacked("pass", w, x, accepted, exc.expires, alerts)
  <2>1. /\ "status" \in DOMAIN w => w["status"] = new.status /\ new.status # row.status
        /\ "decided" \in DOMAIN w => w["decided"] = new.decided /\ new.decided # row.decided
        /\ "realized" \in DOMAIN w => w["realized"] = new.realized /\ new.realized # row.realized
        /\ "alert" \in DOMAIN w => w["alert"] = new.alert /\ new.alert # row.alert
        /\ new.status # row.status => "status" \in DOMAIN w
    BY <1>3, <1>4, RowChanges
  <2>2. new.status \in Statuses /\ new.alert \in Alert
    BY <1>3 DEF Row
  <2> HIDE DEF w, x
  <2> QED
    BY <1>3, <1>5, <2>1, <2>2 DEF WriteBacked
<1>7. /\ change.op = "pass" /\ change.write.row = w /\ change.write.exc = x
      /\ change.exc = Closed.exc /\ change.now = Closed.now
  <2> HIDE DEF w, x
  <2> QED
    BY DEF Closed
<1>8. Open(p, change)
  BY <1>2
<1> HIDE DEF change, w, x, e
<1> QED
  BY <1>6, <1>7, <1>8, ClosedIsBacked, OpenKeepsInv

LEMMA RequestKeepsInv ==
    ASSUME PassInv, NEW u \in Users, NEW w, NEW x,
           Request(u, [row |-> w, exc |-> x]),
           WriteBacked("user", w, x, accepted, exc.expires, alerts)
    PROVE  PassInv'
<1> DEFINE change == [Closed EXCEPT !.op = "user", !.write = [row |-> w, exc |-> x]]
<1>1. Open(u, change)
  BY DEF Request
<1>2. /\ change.op = "user" /\ change.write.row = w /\ change.write.exc = x
      /\ change.exc = Closed.exc /\ change.now = Closed.now
  BY DEF Closed
<1> HIDE DEF change
<1> QED
  BY <1>1, <1>2, ClosedIsBacked, OpenKeepsInv

LEMMA MarkKeepsInv ==
    ASSUME PassInv, NEW u \in Users,
           NEW status \in Statuses \ {"accepted"}, NEW e \in Exc,
           e = exc \/ e.expires \in Months, status = "excepted" => e.expires # None,
           Mark(u, status, e)
    PROVE  PassInv'
<1> DEFINE new == [row EXCEPT !.status = status]
           w == Changes(row, new)
           x == Changes(exc, e)
<1>1. row \in Row /\ exc \in Exc
  BY DEF PassInv, RowsTyped
<1>2. /\ new \in Row /\ new.status = status /\ new.decided = row.decided
      /\ new.realized = row.realized /\ new.alert = row.alert
  BY <1>1 DEF Row
<1>3. /\ "status" \in DOMAIN w => w["status"] = status
      /\ "decided" \notin DOMAIN w /\ "realized" \notin DOMAIN w /\ "alert" \notin DOMAIN w
  <2> HIDE DEF new
  <2> QED
    BY <1>1, <1>2, RowChanges
<1>4. /\ "expires" \in DOMAIN x <=> e.expires # exc.expires
      /\ "expires" \in DOMAIN x => x["expires"] = e.expires
      /\ "revoked" \in DOMAIN x => x["revoked"] = e.revoked
  BY <1>1, ExcChanges
<1>5. Request(u, [row |-> w, exc |-> x])
  BY DEF Mark
<1> HIDE DEF w, x, new
<1>6. WriteBacked("user", w, x, accepted, exc.expires, alerts)
  BY <1>1, <1>3, <1>4 DEF WriteBacked, Exc
<1> QED
  BY <1>5, <1>6, RequestKeepsInv

LEMMA DecideKeepsInv ==
    ASSUME PassInv, NEW u \in Users,
           NEW status \in {"accepted", "dismissed"}, Decide(u, status)
    PROVE  PassInv'
<1> DEFINE seen == [row EXCEPT !.decided = None]
           new == [row EXCEPT !.status = status, !.decided = clock]
           w == Changes(seen, new)
<1>1. row \in Row /\ clock \in Months /\ clock # None
  BY PassAssumption DEF PassInv, RowsTyped, Months
<1>2. /\ seen \in Row /\ seen.decided = None /\ seen.realized = row.realized
      /\ seen.alert = row.alert
  BY <1>1 DEF Row
<1>3. /\ new \in Row /\ new.status = status /\ new.decided = clock
      /\ new.realized = row.realized /\ new.alert = row.alert
  BY <1>1 DEF Row, Statuses
<1>4. /\ "status" \in DOMAIN w => w["status"] = status
      /\ "decided" \in DOMAIN w /\ w["decided"] = clock
      /\ "realized" \notin DOMAIN w /\ "alert" \notin DOMAIN w
  <2> HIDE DEF new, seen
  <2> QED
    BY <1>1, <1>2, <1>3, RowChanges
<1>5. Request(u, [row |-> w, exc |-> <<>>])
  BY DEF Decide
<1> HIDE DEF w
<1>6. WriteBacked("user", w, <<>>, accepted, exc.expires, alerts)
  BY <1>1, <1>4, NothingWritten DEF WriteBacked, Statuses
<1> QED
  BY <1>5, <1>6, RequestKeepsInv

\* The columns that a transaction noted are written over the row as it is now.
LEMMA CommitKeepsInv ==
    ASSUME PassInv, NEW t \in Passes \cup Users, Commit(t),
           \/ /\ tx[t].op = "pass"
              /\ alerts' = IF Alerts(t) THEN alerts + 1 ELSE alerts
              /\ UNCHANGED accepted
           \/ /\ tx[t].op = "user" /\ UNCHANGED alerts
              /\ accepted' = IF Accepts(t)
                             THEN accepted \cup {tx[t].write.row.decided} ELSE accepted
    PROVE  PassInv'
<1> DEFINE w == tx[t].write.row
           x == tx[t].write.exc
           op == tx[t].op
<1>1. WriteBacked(op, w, x, accepted, exc.expires, alerts)
  BY DEF PassInv, TxBacked
<1>2. row \in Row /\ exc \in Exc /\ RowBacked
  BY DEF PassInv, RowsTyped
<1>3. /\ row' = Written(w, row) /\ exc' = Written(x, exc)
      /\ tx' = [tx EXCEPT ![t] = Closed]
      /\ UNCHANGED <<kind, enabled, fact, clock, lost>>
  BY DEF Commit
<1>4. /\ accepted \subseteq accepted' /\ accepted' \subseteq Months
      /\ alerts' \in Nat /\ alerts <= alerts' /\ alerts \in Nat
  <2>1. Accepts(t) => "decided" \in DOMAIN w /\ tx[t].write.row.decided = w["decided"]
    BY DEF Accepts
  <2>2. "decided" \in DOMAIN w => w["decided"] \in Months
    BY <1>1 DEF WriteBacked
  <2>3. alerts \in Nat /\ accepted \subseteq Months
    BY DEF PassInv, RowsTyped
  <2>4. accepted \subseteq accepted' /\ accepted' \subseteq Months
    <3> HIDE DEF w
    <3> QED
      BY <2>1, <2>2, <2>3
  <2>5. alerts' \in Nat /\ alerts <= alerts'
    BY <2>3
  <2> QED
    BY <2>3, <2>4, <2>5
<1>5. row' = [status   |-> IF "status" \in DOMAIN w THEN w["status"] ELSE row.status,
              decided  |-> IF "decided" \in DOMAIN w THEN w["decided"] ELSE row.decided,
              realized |-> IF "realized" \in DOMAIN w THEN w["realized"] ELSE row.realized,
              alert    |-> IF "alert" \in DOMAIN w THEN w["alert"] ELSE row.alert]
  BY <1>2, <1>3, RowWritten
<1>6. exc' = [expires |-> IF "expires" \in DOMAIN x THEN x["expires"] ELSE exc.expires,
              revoked |-> IF "revoked" \in DOMAIN x THEN x["revoked"] ELSE exc.revoked]
  BY <1>2, <1>3, ExcWritten
<1>7. /\ op = "user" /\ "decided" \in DOMAIN w /\ row'.status = "accepted" =>
           w["decided"] \in accepted'
      /\ op = "pass" /\ "alert" \in DOMAIN w /\ w["alert"].breached => alerts' = alerts + 1
  <2>1. Accepts(t) <=> "decided" \in DOMAIN w /\ row'.status = "accepted"
    BY <1>3 DEF Accepts
  <2>2. Alerts(t) <=> "alert" \in DOMAIN w /\ w["alert"].breached
    BY DEF Alerts
  <2>3. tx[t].write.row.decided = w["decided"]
    OBVIOUS
  <2> HIDE DEF w
  <2>4. ASSUME op = "user", "decided" \in DOMAIN w, row'.status = "accepted"
        PROVE  w["decided"] \in accepted'
    BY <2>1, <2>3, <2>4
  <2>5. ASSUME op = "pass", "alert" \in DOMAIN w, w["alert"].breached
        PROVE  alerts' = alerts + 1
    BY <2>2, <2>5
  <2> QED
    BY <2>4, <2>5
<1> HIDE DEF w, x, op
<1>8. exc' \in Exc /\ (exc.expires # None => exc'.expires # None)
      /\ ("expires" \in DOMAIN x => exc'.expires # None)
  <2>1. "expires" \in DOMAIN x => x["expires"] \in Months
    BY <1>1 DEF WriteBacked
  <2>2. "revoked" \in DOMAIN x => x["revoked"] \in BOOLEAN
    BY <1>1 DEF WriteBacked
  <2>3. None \notin Months
    BY PassAssumption DEF Months
  <2> QED
    BY <1>2, <1>6, <2>1, <2>2, <2>3 DEF Exc
<1>9. row' \in Row
  BY <1>1, <1>2, <1>5 DEF WriteBacked, Row
<1>10. RowBacked'
  <2>1. row'.alert.count <= alerts'
    <3>1. CASE "alert" \in DOMAIN w
      <4>1. row'.alert = w["alert"] /\ w["alert"] \in Alert /\ op = "pass"
            /\ w["alert"].count <= IF w["alert"].breached THEN alerts + 1 ELSE alerts
        BY <1>1, <1>5, <3>1 DEF WriteBacked
      <4>2. CASE w["alert"].breached
        BY <1>7, <3>1, <4>1, <4>2
      <4>3. CASE ~w["alert"].breached
        <5>1. w["alert"].count <= alerts /\ w["alert"].count \in Nat
          BY <4>1, <4>3 DEF Alert
        <5> QED
          BY <1>4, <4>1, <5>1
      <4> QED
        BY <4>2, <4>3
    <3>2. CASE "alert" \notin DOMAIN w
      <4>1. row'.alert = row.alert
        BY <1>5, <3>2
      <4>2. row.alert.count \in Nat /\ row.alert.count <= alerts
        BY <1>2 DEF Row, Alert, RowBacked
      <4> QED
        BY <1>4, <4>1, <4>2
    <3> QED
      BY <3>1, <3>2
  <2>2. row'.status = "accepted" => row'.decided \in accepted'
    <3> SUFFICES ASSUME row'.status = "accepted" PROVE row'.decided \in accepted'
      OBVIOUS
    <3>1. CASE "decided" \in DOMAIN w
      <4>1. op = "user"
        BY <1>1, <1>5, <3>1 DEF WriteBacked
      <4> QED
        BY <1>5, <1>7, <3>1, <4>1
    <3>2. CASE "decided" \notin DOMAIN w
      <4>1. row.status = "accepted" /\ row'.decided = row.decided
        BY <1>1, <1>5, <3>2 DEF WriteBacked
      <4> QED
        BY <1>2, <1>4, <4>1 DEF RowBacked
    <3> QED
      BY <3>1, <3>2
  <2>3. row'.realized # None => \E m \in accepted' : m < row'.realized
    BY <1>1, <1>2, <1>4, <1>5 DEF WriteBacked, RowBacked
  <2>4. row'.status = "excepted" => exc'.expires # None
    BY <1>1, <1>2, <1>5, <1>8 DEF WriteBacked, RowBacked
  <2> QED
    BY <2>1, <2>2, <2>3, <2>4 DEF RowBacked
<1>11. DOMAIN tx' = Passes \cup Users /\ TxBacked'
  BY <1>3, <1>4, <1>8, ClosedIsBacked, OneTransaction
<1> QED
  BY <1>3, <1>4, <1>8, <1>9, <1>10, <1>11 DEF PassInv, RowsTyped

LEMMA UserKeepsInv ==
    ASSUME PassInv, NEW u \in Users, UserStep(u)
    PROVE  PassInv'
<1>1. row \in Row /\ exc \in Exc /\ clock \in Months
  BY DEF PassInv, RowsTyped
<1>2. CASE ReviewAnomaly(u)
  <2>1. PICK s \in {"open", "acknowledged", "false_positive", "resolved"} :
          Mark(u, s, exc)
    BY <1>2 DEF ReviewAnomaly
  <2>2. s \in Statuses \ {"accepted"} /\ s # "excepted"
    BY DEF Statuses
  <2> QED
    BY <1>1, <2>1, <2>2, MarkKeepsInv
<1>3. CASE DecideRecommendation(u)
  BY <1>3, DecideKeepsInv DEF DecideRecommendation
<1>4. CASE AcknowledgeFinding(u)
  <2>1. "acknowledged" \in Statuses \ {"accepted"}
    BY DEF Statuses
  <2> QED
    BY <1>1, <1>4, <2>1, MarkKeepsInv DEF AcknowledgeFinding
<1>5. CASE GrantException(u)
  <2>1. PICK day \in clock + 1 .. MaxMonth :
          Mark(u, "excepted", [expires |-> day, revoked |-> FALSE])
    BY <1>5 DEF GrantException
  <2>2. day \in Months
    BY <1>1, PassAssumption DEF Months
  <2>3. day # None
    BY <2>2, PassAssumption DEF Months
  <2> DEFINE e == [expires |-> day, revoked |-> FALSE]
  <2>4. e \in Exc /\ e.expires \in Months /\ e.expires # None
    BY <2>2, <2>3 DEF Exc
  <2>5. "excepted" \in Statuses \ {"accepted"}
    BY DEF Statuses
  <2> QED
    BY <2>1, <2>4, <2>5, MarkKeepsInv
<1>6. CASE CreateBudget(u) \/ DeleteBudget(u)
  <2>1. {"open", "deleted"} \subseteq Statuses \ {"accepted"}
    BY DEF Statuses
  <2> QED
    BY <1>1, <1>6, <2>1, MarkKeepsInv DEF CreateBudget, DeleteBudget
<1>7. CASE CommitUser(u)
  BY <1>7, CommitKeepsInv DEF CommitUser
<1> QED
  BY <1>2, <1>3, <1>4, <1>5, <1>6, <1>7 DEF UserStep

\* Data, policies and time change under the transactions, and passes are lost.
LEMMA WorldKeepsInv ==
    ASSUME PassInv,
           \/ TogglePolicy \/ Ingested \/ MonthEnds
           \/ \E p \in Passes : LosePass(p)
    PROVE  PassInv'
<1>1. /\ UNCHANGED <<kind, row, exc, alerts, accepted>>
      /\ enabled' \in BOOLEAN /\ clock' \in Months /\ lost' \in 0..MaxLostPasses
  <2>1. enabled \in BOOLEAN /\ clock \in Months /\ lost \in 0..MaxLostPasses
    BY DEF PassInv, RowsTyped
  <2>2. CASE TogglePolicy
    BY <2>1, <2>2 DEF TogglePolicy
  <2>3. CASE Ingested \/ MonthEnds
    BY <2>1, <2>3, PassAssumption DEF Ingested, MonthEnds, Months
  <2>4. CASE \E p \in Passes : LosePass(p)
    BY <2>1, <2>4, PassAssumption DEF LosePass
  <2> QED
    BY <2>2, <2>3, <2>4
<1>2. DOMAIN tx' = Passes \cup Users /\ TxBacked'
  <2>1. CASE UNCHANGED tx
    BY <1>1, <2>1 DEF PassInv, RowsTyped, TxBacked
  <2>2. CASE \E p \in Passes : LosePass(p)
    <3>1. PICK p \in Passes : tx' = [tx EXCEPT ![p] = Closed]
      BY <2>2 DEF LosePass
    <3>2. alerts' \in Nat /\ alerts <= alerts'
      BY <1>1 DEF PassInv, RowsTyped
    <3> QED
      BY <1>1, <3>1, <3>2, ClosedIsBacked, OneTransaction
  <2> QED
    BY <2>1, <2>2 DEF TogglePolicy, Ingested, MonthEnds
<1> QED
  BY <1>1, <1>2 DEF PassInv, RowsTyped, RowBacked

LEMMA PassesNextInv ==
    ASSUME PassInv, [PassesNext]_passesVars
    PROVE  PassInv'
<1>1. CASE UNCHANGED passesVars
  BY <1>1 DEF passesVars, PassInv, RowsTyped, RowBacked, TxBacked
<1>2. ASSUME NEW p \in Passes,
             BeginPass(p) \/ Evaluate(p) \/ CommitPass(p)
      PROVE  PassInv'
  BY <1>2, BeginPassKeepsInv, EvaluateKeepsInv, CommitKeepsInv DEF CommitPass
<1>3. ASSUME NEW t \in Passes \cup Users, RollBack(t) PROVE PassInv'
  BY <1>3, ClosedIsBacked, OpenKeepsInv DEF RollBack
<1> QED
  BY <1>1, <1>2, <1>3, UserKeepsInv, WorldKeepsInv DEF PassesNext

\* Whatever passes and users overlap, and on whatever stale rows they decide, the
\* rows and the open transactions are backed by what was committed.
THEOREM PassesSound == PassesSpec => []PassInv
<1>1. PassInv /\ [PassesNext]_passesVars => PassInv'
  BY PassesNextInv
<1> QED
  BY <1>1, PassesInitInv, PTL DEF PassesSpec

\* Savings are realised only for a recommendation accepted in an earlier month,
\* a finding is excepted only by an exception somebody granted, and an episode
\* counts only alerts that were queued with it.
THEOREM PassesClaimWhatIsBacked == PassesSpec => []ClaimsAreBacked
<1>1. PassInv => ClaimsAreBacked
  <2> SUFFICES ASSUME PassInv PROVE ClaimsAreBacked
    OBVIOUS
  <2>1. row.alert \in [breached : BOOLEAN, count : 0..alerts]
    BY DEF PassInv, RowsTyped, RowBacked, Row, Alert
  <2>2. PassesTypeOK
    BY <2>1 DEF PassInv, RowsTyped, Row, Statuses, Exc, Months, PassesTypeOK, Months
  <2> QED
    BY <2>2 DEF PassInv, RowBacked, ClaimsAreBacked
<1> QED
  BY <1>1, PassesSound, PTL
=============================================================================
