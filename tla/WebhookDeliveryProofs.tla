------------------------ MODULE WebhookDeliveryProofs ------------------------
(***************************************************************************)
(* Proofs about WebhookDelivery for any deliveries, endpoints and answers,  *)
(* any number of overlapping sweeps and any limits.                         *)
(***************************************************************************)
EXTENDS WebhookDelivery, TLAPS

\* What a status says of the POSTs that were made.
StatusTrue(d, status) ==
    /\ status = "sent" => accepted[d]
    /\ status = "failed" => posts[d] >= MaxAttempts \/ barred[d]

\* A row of d, committed or not: every attempt it counts was a POST, or d was
\* refused at some time, and a pending one has a try left.
RowTrue(d, row) ==
    /\ StatusTrue(d, row.status)
    /\ row.attempts <= posts[d] \/ barred[d]
    /\ row.status = "pending" => row.attempts < MaxAttempts

CommittedTrue ==
    \A d \in Deliveries :
        /\ RowTrue(d, delivery[d])
        /\ delivery[d].status = "absent" => delivery[d].attempts = 0

\* What a sweep holds, however stale: each row of its batch is true of the POSTs
\* made so far, and one it has not come to yet is as it was read.
HeldTrue ==
    \A w \in Sweeps :
        /\ todo[w] \subseteq batch[w]
        /\ tried[w] \subseteq batch[w] \ todo[w]
        /\ \A d \in batch[w] : copy[w][d].status # "absent" /\ RowTrue(d, copy[w][d])
        /\ \A d \in todo[w] : copy[w][d].status = "pending"

IInv == TypeOK /\ CommittedTrue /\ HeldTrue

----------------------------------------------------------------------------
\* Before anything is queued the invariant holds.
LEMMA InitInv == Init => IInv
<1> SUFFICES ASSUME Init PROVE IInv
  OBVIOUS
<1>1. TypeOK
  BY DeliveriesAssumption DEF Init, TypeOK, Row, Unread, Absent
<1>2. CommittedTrue /\ HeldTrue
  BY DeliveriesAssumption
  DEF Init, CommittedTrue, HeldTrue, RowTrue, StatusTrue, Unread, Absent
<1> QED
  BY <1>1, <1>2 DEF IInv

\* The rows of a batch are among those a sweep selects from.
LEMMA OldestIsDue ==
    ASSUME NEW due
    PROVE  Oldest(due) \subseteq due
  BY DEF Oldest

\* A row stays true while POSTs are made and refusals happen: the history grows.
LEMMA RowStaysTrue ==
    ASSUME TypeOK, NEW d \in Deliveries, NEW row \in Row, RowTrue(d, row),
           posts'[d] \in 0..MaxAttempts, posts[d] <= posts'[d],
           accepted[d] => accepted'[d], barred[d] => barred'[d]
    PROVE  RowTrue(d, row)'
  BY DeliveriesAssumption DEF TypeOK, Row, RowTrue, StatusTrue

\* Endpoints are created and events queued beside the sweeps.
LEMMA QueueInv ==
    ASSUME IInv, \/ \E e \in Endpoints : CreateEndpoint(e)
                 \/ \E d \in Deliveries : QueueEvent(d)
    PROVE  IInv'
<1>1. ASSUME NEW e \in Endpoints, CreateEndpoint(e) PROVE IInv'
  BY <1>1
  DEF CreateEndpoint, IInv, TypeOK, CommittedTrue, HeldTrue, RowTrue, StatusTrue
<1>2. ASSUME NEW d \in Deliveries, QueueEvent(d) PROVE IInv'
  <2>1. /\ delivery[d].status = "absent" /\ delivery[d].attempts = 0
        /\ delivery' = [delivery EXCEPT ![d].status = "pending"]
        /\ UNCHANGED <<endpoints, batch, todo, copy, tried, posts, accepted, barred, losses>>
    BY <1>2 DEF QueueEvent, Fresh, IInv, CommittedTrue
  <2>2. \A x \in Deliveries :
          /\ delivery'[x] \in Row
          /\ delivery'[x].attempts = delivery[x].attempts
          /\ x # d => delivery'[x] = delivery[x]
          /\ x = d => delivery'[x].status = "pending"
    BY <2>1 DEF IInv, TypeOK, Row
  <2>3. TypeOK'
    BY <2>1, <2>2 DEF IInv, TypeOK
  <2>4. CommittedTrue'
    BY <2>1, <2>2, DeliveriesAssumption
    DEF IInv, TypeOK, Row, CommittedTrue, RowTrue, StatusTrue
  <2>5. HeldTrue'
    BY <2>1 DEF IInv, HeldTrue, RowTrue, StatusTrue
  <2> QED
    BY <2>3, <2>4, <2>5 DEF IInv
<1> QED
  BY <1>1, <1>2

\* A sweep that begins holds rows that are true: pending ones with a try left, and
\* in a test the new one.
LEMMA HoldInv ==
    ASSUME IInv, NEW w \in Sweeps, NEW rows \in SUBSET Deliveries, NEW sending \in SUBSET rows,
           \A d \in rows : delivery[d].status \in {"pending", "absent"},
           Hold(w, rows, sending)
    PROVE  IInv'
<1>1. /\ batch' = [batch EXCEPT ![w] = rows]
      /\ todo' = [todo EXCEPT ![w] = sending]
      /\ copy' = [copy EXCEPT ![w] = [d \in Deliveries |->
                      IF d \in rows THEN [delivery[d] EXCEPT !.status = "pending"]
                      ELSE Absent]]
      /\ batch[w] = {}
      /\ UNCHANGED <<endpoints, delivery, tried, posts, accepted, barred, losses>>
  BY DEF Hold
<1>2. \A d \in Deliveries :
        /\ [delivery[d] EXCEPT !.status = "pending"] \in Row
        /\ [delivery[d] EXCEPT !.status = "pending"].status = "pending"
        /\ [delivery[d] EXCEPT !.status = "pending"].attempts = delivery[d].attempts
  <2> SUFFICES ASSUME NEW d \in Deliveries
               PROVE  /\ [delivery[d] EXCEPT !.status = "pending"] \in Row
                      /\ [delivery[d] EXCEPT !.status = "pending"].status = "pending"
                      /\ [delivery[d] EXCEPT !.status = "pending"].attempts
                           = delivery[d].attempts
    OBVIOUS
  <2>1. delivery[d] \in Row
    BY DEF IInv, TypeOK
  <2> QED
    BY <2>1 DEF Row
<1>3. Absent \in Row
  BY DeliveriesAssumption DEF Absent, Row
<1>4. copy' \in [Sweeps -> [Deliveries -> Row]]
  BY <1>1, <1>2, <1>3 DEF IInv, TypeOK
<1>5. TypeOK'
  BY <1>1, <1>4 DEF IInv, TypeOK
<1>6. CommittedTrue'
  BY <1>1 DEF IInv, CommittedTrue, RowTrue, StatusTrue
<1>7. tried[w] = {}
  BY <1>1 DEF IInv, HeldTrue
<1>8. \A d \in rows : copy'[w][d].status = "pending" /\ RowTrue(d, copy'[w][d])
  <2> SUFFICES ASSUME NEW d \in rows
               PROVE  copy'[w][d].status = "pending" /\ RowTrue(d, copy'[w][d])
    OBVIOUS
  <2>1. copy'[w][d] = [delivery[d] EXCEPT !.status = "pending"]
    BY <1>1 DEF IInv, TypeOK
  <2>2. copy'[w][d].status = "pending" /\ copy'[w][d].attempts = delivery[d].attempts
    BY <1>2, <2>1
  <2>3. delivery[d].attempts < MaxAttempts /\ RowTrue(d, delivery[d])
    BY DeliveriesAssumption DEF IInv, CommittedTrue, RowTrue
  <2> QED
    BY <2>2, <2>3 DEF RowTrue, StatusTrue
<1>9. ASSUME NEW v \in Sweeps, v # w
      PROVE  /\ batch'[v] = batch[v] /\ todo'[v] = todo[v] /\ copy'[v] = copy[v]
             /\ tried'[v] = tried[v]
  BY <1>1, <1>9 DEF IInv, TypeOK
<1>10. batch'[w] = rows /\ todo'[w] = sending /\ tried'[w] = {}
  BY <1>1, <1>7 DEF IInv, TypeOK
<1>11. HeldTrue'
  <2>1. ASSUME NEW v \in Sweeps, v # w
        PROVE  /\ todo'[v] \subseteq batch'[v] /\ tried'[v] \subseteq batch'[v] \ todo'[v]
               /\ \A d \in batch'[v] : copy'[v][d].status # "absent" /\ RowTrue(d, copy[v][d])'
               /\ \A d \in todo'[v] : copy'[v][d].status = "pending"
    BY <1>1, <1>9, <2>1 DEF IInv, HeldTrue, RowTrue, StatusTrue
  <2>2. /\ \A d \in rows : copy'[w][d].status # "absent" /\ RowTrue(d, copy[w][d])'
        /\ \A d \in sending : copy'[w][d].status = "pending"
    BY <1>1, <1>8 DEF RowTrue, StatusTrue
  <2> QED
    BY <1>10, <2>1, <2>2 DEF HeldTrue
<1> QED
  BY <1>5, <1>6, <1>11 DEF IInv

LEMMA BeginInv ==
    ASSUME IInv, NEW w \in Sweeps,
           \/ \E scope \in Scopes : BeginSweep(w, scope)
           \/ \E d \in Deliveries : BeginTest(w, d)
    PROVE  IInv'
<1>1. ASSUME NEW scope \in Scopes, BeginSweep(w, scope) PROVE IInv'
  BY <1>1, OldestIsDue, HoldInv DEF BeginSweep, Due, Pending
<1>2. ASSUME NEW d \in Deliveries, BeginTest(w, d) PROVE IInv'
  <2> DEFINE due == Due({EndpointOf[d]}) \cup {d}
  <2>1. Fresh(d) /\ Hold(w, Oldest(due) \cup {d}, Oldest(due))
    BY <1>2 DEF BeginTest
  <2>2. \A x \in due : x \in Deliveries /\ delivery[x].status \in {"pending", "absent"}
    BY <2>1 DEF Fresh, Due, Pending
  <2>3. Oldest(due) \subseteq due /\ d \in due
    BY OldestIsDue
  <2> HIDE DEF due
  <2>4. /\ Oldest(due) \cup {d} \in SUBSET Deliveries
        /\ Oldest(due) \in SUBSET (Oldest(due) \cup {d})
        /\ \A x \in Oldest(due) \cup {d} : delivery[x].status \in {"pending", "absent"}
    BY <2>2, <2>3
  <2> QED
    BY <2>1, <2>4, HoldInv
<1> QED
  BY <1>1, <1>2

\* A row is taken off the batch with an outcome that is true, while the history of
\* its delivery goes on and that of the others stands still.
LEMMA TakenInv ==
    ASSUME IInv, NEW w \in Sweeps, NEW d \in todo[w], NEW row \in Row, Taken(w, d, row),
           tried' \in {tried, [tried EXCEPT ![w] = @ \cup {d}]},
           posts' \in [Deliveries -> 0..MaxAttempts],
           accepted' \in [Deliveries -> BOOLEAN], barred' \in [Deliveries -> BOOLEAN],
           \A x \in Deliveries : /\ posts[x] <= posts'[x]
                                 /\ accepted[x] => accepted'[x]
                                 /\ barred[x] => barred'[x],
           row.status # "absent", RowTrue(d, row)'
    PROVE  IInv'
<1>1. /\ todo' = [todo EXCEPT ![w] = @ \ {d}]
      /\ copy' = [copy EXCEPT ![w][d] = row]
      /\ UNCHANGED <<endpoints, delivery, batch, losses>>
  BY DEF Taken
<1>2. d \in Deliveries /\ d \in batch[w]
  BY DEF IInv, TypeOK, HeldTrue
<1>3. \A v \in Sweeps : \A x \in Deliveries :
        copy'[v][x] = IF v = w /\ x = d THEN row ELSE copy[v][x]
  BY <1>1, <1>2 DEF IInv, TypeOK
<1>4. TypeOK'
  BY <1>1, <1>2 DEF IInv, TypeOK
<1>5. ASSUME NEW x \in Deliveries, NEW r \in Row, RowTrue(x, r) PROVE RowTrue(x, r)'
  BY <1>5, RowStaysTrue DEF IInv
<1>6. CommittedTrue'
  <2> SUFFICES ASSUME NEW x \in Deliveries
               PROVE  /\ RowTrue(x, delivery[x])'
                      /\ delivery'[x].status = "absent" => delivery'[x].attempts = 0
    BY DEF CommittedTrue
  <2>1. delivery[x] \in Row /\ RowTrue(x, delivery[x])
    BY DEF IInv, TypeOK, CommittedTrue
  <2>2. RowTrue(x, delivery[x])'
    BY <1>1, <1>5, <2>1 DEF RowTrue, StatusTrue
  <2> QED
    BY <1>1, <2>2 DEF IInv, CommittedTrue
<1>7. ASSUME NEW v \in Sweeps
      PROVE  /\ todo'[v] \subseteq batch'[v]
             /\ tried'[v] \subseteq batch'[v] \ todo'[v]
             /\ \A x \in todo'[v] : copy'[v][x].status = "pending"
  BY <1>1, <1>2, <1>3 DEF IInv, TypeOK, HeldTrue
<1>8. ASSUME NEW v \in Sweeps, NEW x \in batch'[v]
      PROVE  copy'[v][x].status # "absent" /\ RowTrue(x, copy[v][x])'
  <2>1. x \in Deliveries /\ x \in batch[v]
    BY <1>1 DEF IInv, TypeOK
  <2>2. CASE v = w /\ x = d
    BY <1>3, <2>1, <2>2 DEF RowTrue, StatusTrue
  <2>3. CASE ~(v = w /\ x = d)
    <3>1. copy'[v][x] = copy[v][x] /\ copy[v][x] \in Row
      BY <1>3, <2>1, <2>3 DEF IInv, TypeOK
    <3>2. copy[v][x].status # "absent" /\ RowTrue(x, copy[v][x])
      BY <2>1 DEF IInv, HeldTrue
    <3> QED
      BY <1>5, <2>1, <3>1, <3>2 DEF RowTrue, StatusTrue
  <2> QED
    BY <2>2, <2>3
<1>9. HeldTrue'
  BY <1>7, <1>8 DEF HeldTrue
<1> QED
  BY <1>4, <1>6, <1>9 DEF IInv

\* The four ways a sweep is done with a row.
LEMMA SendInv ==
    ASSUME IInv, NEW w \in Sweeps, SendNext(w)
    PROVE  IInv'
<1>1. PICK d \in todo[w] :
        Bar(w, d) \/ BarTarget(w, d) \/ PostAccepted(w, d) \/ PostRefused(w, d)
  BY DEF SendNext
<1> DEFINE seen == copy[w][d]
<1>2. /\ d \in Deliveries /\ d \in batch[w]
      /\ seen \in Row /\ seen.status = "pending" /\ RowTrue(d, seen)
      /\ seen.attempts < MaxAttempts
  BY DEF IInv, TypeOK, HeldTrue, RowTrue
<1>3. /\ posts \in [Deliveries -> 0..MaxAttempts]
      /\ accepted \in [Deliveries -> BOOLEAN] /\ barred \in [Deliveries -> BOOLEAN]
  BY DEF IInv, TypeOK
<1>4. CASE Bar(w, d)
  <2>0. /\ [seen EXCEPT !.status = "failed"] \in Row
        /\ [seen EXCEPT !.status = "failed"].status = "failed"
        /\ [seen EXCEPT !.status = "failed"].attempts = seen.attempts
    BY <1>2 DEF Row
  <2>1. PICK row \in Row : /\ row = [seen EXCEPT !.status = "failed"]
                           /\ row.status = "failed" /\ row.attempts = seen.attempts
    BY <2>0
  <2>2. /\ Taken(w, d, row) /\ tried' = tried
        /\ barred' = [barred EXCEPT ![d] = TRUE] /\ UNCHANGED <<posts, accepted>>
    BY <1>4, <2>1 DEF Bar
  <2>3. RowTrue(d, row)'
    BY <1>2, <1>3, <2>1, <2>2 DEF RowTrue, StatusTrue
  <2>4. /\ barred' \in [Deliveries -> BOOLEAN]
        /\ \A x \in Deliveries : (accepted[x] => accepted'[x]) /\ (barred[x] => barred'[x])
    BY <1>3, <2>2
  <2>5. \A x \in Deliveries : posts[x] <= posts'[x]
    BY <1>3, <2>2, DeliveriesAssumption
  <2> QED
    BY <1>3, <2>1, <2>2, <2>3, <2>4, <2>5, TakenInv
<1>5. ASSUME NEW st \in {"pending", "sent", "failed"}, Try(w, d, st),
             Post(d) \/ UNCHANGED posts,
             accepted' \in {accepted, [accepted EXCEPT ![d] = TRUE]},
             barred' \in {barred, [barred EXCEPT ![d] = TRUE]},
             Post(d) \/ barred' = [barred EXCEPT ![d] = TRUE],
             st = "sent" => accepted' = [accepted EXCEPT ![d] = TRUE],
             st = "failed" => \/ barred' = [barred EXCEPT ![d] = TRUE]
                              \/ Post(d) /\ seen.attempts + 1 >= MaxAttempts,
             st = "pending" => seen.attempts + 1 < MaxAttempts
      PROVE  IInv'
  <2>1. PICK row \in Row : /\ row = [status |-> st, attempts |-> seen.attempts + 1]
                           /\ row.status = st /\ row.attempts = seen.attempts + 1
    <3>1. [status |-> st, attempts |-> seen.attempts + 1] \in Row
      BY <1>2, DeliveriesAssumption DEF Row
    <3> QED
      BY <3>1
  <2>2. Taken(w, d, row) /\ tried' = [tried EXCEPT ![w] = @ \cup {d}]
    BY <1>5, <2>1 DEF Try
  <2>3. /\ posts' \in [Deliveries -> 0..MaxAttempts]
        /\ \A x \in Deliveries : posts[x] <= posts'[x]
        /\ Post(d) => posts'[d] = IF posts[d] < MaxAttempts THEN posts[d] + 1 ELSE posts[d]
    BY <1>2, <1>3, <1>5, DeliveriesAssumption DEF Post
  <2>4. /\ accepted' \in [Deliveries -> BOOLEAN] /\ barred' \in [Deliveries -> BOOLEAN]
        /\ \A x \in Deliveries : (accepted[x] => accepted'[x]) /\ (barred[x] => barred'[x])
    BY <1>3, <1>5
  <2>5. /\ barred' = [barred EXCEPT ![d] = TRUE] => barred'[d]
        /\ accepted' = [accepted EXCEPT ![d] = TRUE] => accepted'[d]
    BY <1>2, <1>3
  <2>6. row.attempts <= posts'[d] \/ barred'[d]
    <3>1. seen.attempts <= posts[d] \/ barred[d]
      BY <1>2 DEF RowTrue
    <3>2. seen.attempts \in 0..MaxAttempts /\ posts[d] \in 0..MaxAttempts
      BY <1>2, <1>3 DEF Row
    <3> QED
      BY <1>2, <1>5, <2>1, <2>3, <2>4, <2>5, <3>1, <3>2, DeliveriesAssumption
  <2>7. st = "failed" => posts'[d] >= MaxAttempts \/ barred'[d]
    BY <1>2, <1>5, <2>1, <2>3, <2>5, <2>6, DeliveriesAssumption DEF Row
  <2>8. RowTrue(d, row)'
    BY <1>5, <2>1, <2>5, <2>6, <2>7 DEF RowTrue, StatusTrue
  <2> QED
    BY <1>5, <2>1, <2>2, <2>3, <2>4, <2>8, TakenInv
<1>6. CASE BarTarget(w, d)
  BY <1>5, <1>6 DEF BarTarget
<1>7. CASE PostAccepted(w, d)
  BY <1>5, <1>7 DEF PostAccepted
<1>8. CASE PostRefused(w, d)
  <2> DEFINE st == IF seen.attempts + 1 >= MaxAttempts THEN "failed" ELSE "pending"
  <2>1. /\ st \in {"pending", "sent", "failed"} /\ st # "sent"
        /\ st = "failed" => seen.attempts + 1 >= MaxAttempts
        /\ st = "pending" => seen.attempts + 1 < MaxAttempts
    BY <1>2, DeliveriesAssumption DEF Row
  <2>2. Try(w, d, st) /\ Post(d) /\ UNCHANGED <<accepted, barred>>
    BY <1>8 DEF PostRefused
  <2> HIDE DEF st
  <2> QED
    BY <1>5, <2>1, <2>2
<1> QED
  BY <1>1, <1>4, <1>6, <1>7, <1>8

\* A closed session leaves the others as they were.
LEMMA CloseTyped ==
    ASSUME IInv, NEW w \in Sweeps, CloseSweep(w),
           UNCHANGED <<endpoints, posts, accepted, barred>>,
           delivery' \in [Deliveries -> Row], losses' \in 0..MaxLosses
    PROVE  TypeOK' /\ HeldTrue'
<1>1. /\ batch' = [batch EXCEPT ![w] = {}] /\ todo' = [todo EXCEPT ![w] = {}]
      /\ tried' = [tried EXCEPT ![w] = {}] /\ copy' = [copy EXCEPT ![w] = Unread]
  BY DEF CloseSweep
<1>2. Unread \in [Deliveries -> Row]
  BY DeliveriesAssumption DEF Unread, Absent, Row
<1>3. TypeOK'
  BY <1>1, <1>2 DEF IInv, TypeOK
<1>4. HeldTrue'
  BY <1>1 DEF IInv, TypeOK, HeldTrue, RowTrue, StatusTrue
<1> QED
  BY <1>3, <1>4

\* A row as a commit leaves it, against what another sweep committed before.
LEMMA WrittenTrue ==
    ASSUME IInv, NEW w \in Sweeps, NEW d \in Deliveries
    PROVE  /\ Written(w, d) \in Row
           /\ RowTrue(d, Written(w, d))
           /\ Written(w, d).status = "absent" => Written(w, d).attempts = 0
           /\ delivery[d].status \in {"sent", "failed"}
                => Written(w, d).status \in {"sent", "failed"}
<1>1. /\ delivery[d] \in Row /\ RowTrue(d, delivery[d])
      /\ delivery[d].status = "absent" => delivery[d].attempts = 0
  BY DEF IInv, TypeOK, CommittedTrue
<1>2. copy[w][d] \in Row /\ posts[d] \in 0..MaxAttempts
  BY DEF IInv, TypeOK
<1>3. /\ d \in batch[w] => copy[w][d].status # "absent" /\ RowTrue(d, copy[w][d])
      /\ d \in tried[w] => d \in batch[w]
  BY DEF IInv, HeldTrue
<1>4. /\ Written(w, d).status = IF /\ d \in batch[w]
                                   /\ copy[w][d].status # "pending" \/ delivery[d].status = "absent"
                                THEN copy[w][d].status ELSE delivery[d].status
      /\ Written(w, d).attempts = IF d \in tried[w] THEN copy[w][d].attempts
                                  ELSE delivery[d].attempts
  BY DEF Written
<1>5. Written(w, d) \in Row
  BY <1>1, <1>2 DEF Written, Row
<1>6. StatusTrue(d, Written(w, d).status)
  BY <1>1, <1>3, <1>4 DEF RowTrue
<1>7. Written(w, d).attempts <= posts[d] \/ barred[d]
  BY <1>1, <1>3, <1>4 DEF RowTrue
<1>8. Written(w, d).status = "pending" => Written(w, d).attempts < MaxAttempts
  BY <1>1, <1>2, <1>3, <1>4, DeliveriesAssumption DEF RowTrue, Row
<1>9. Written(w, d).status = "absent" => Written(w, d).attempts = 0
  BY <1>1, <1>3, <1>4
<1>10. delivery[d].status \in {"sent", "failed"} => Written(w, d).status \in {"sent", "failed"}
  BY <1>1, <1>2, <1>3, <1>4 DEF Row
<1> QED
  BY <1>5, <1>6, <1>7, <1>8, <1>9, <1>10 DEF RowTrue

LEMMA CloseInv ==
    ASSUME IInv, NEW w \in Sweeps, CommitSweep(w) \/ LoseSweep(w)
    PROVE  IInv'
<1>1. CASE CommitSweep(w)
  <2>1. /\ CloseSweep(w) /\ delivery' = [d \in Deliveries |-> Written(w, d)]
        /\ UNCHANGED <<endpoints, posts, accepted, barred, losses>>
    BY <1>1 DEF CommitSweep
  <2>2. delivery' \in [Deliveries -> Row] /\ losses' \in 0..MaxLosses
    BY <2>1, WrittenTrue DEF IInv, TypeOK
  <2>3. TypeOK' /\ HeldTrue'
    BY <2>1, <2>2, CloseTyped
  <2>4. CommittedTrue'
    BY <2>1, WrittenTrue DEF CommittedTrue, RowTrue, StatusTrue
  <2> QED
    BY <2>3, <2>4 DEF IInv
<1>2. CASE LoseSweep(w)
  <2>1. /\ CloseSweep(w) /\ losses < MaxLosses /\ losses' = losses + 1
        /\ UNCHANGED <<endpoints, delivery, posts, accepted, barred>>
    BY <1>2 DEF LoseSweep
  <2>2. delivery' \in [Deliveries -> Row] /\ losses' \in 0..MaxLosses
    BY <2>1, DeliveriesAssumption DEF IInv, TypeOK
  <2>3. TypeOK' /\ HeldTrue'
    BY <2>1, <2>2, CloseTyped
  <2>4. CommittedTrue'
    BY <2>1 DEF IInv, CommittedTrue, RowTrue, StatusTrue
  <2> QED
    BY <2>3, <2>4 DEF IInv
<1> QED
  BY <1>1, <1>2

LEMMA NextInv == IInv /\ [Next]_vars => IInv'
<1> SUFFICES ASSUME IInv, [Next]_vars PROVE IInv'
  OBVIOUS
<1>1. CASE Next
  BY <1>1, QueueInv, BeginInv, SendInv, CloseInv DEF Next
<1>2. CASE UNCHANGED vars
  BY <1>2 DEF vars, IInv, TypeOK, CommittedTrue, HeldTrue, RowTrue, StatusTrue
<1> QED
  BY <1>1, <1>2

\* The inductive invariant holds throughout: every row, committed or held by a
\* sweep that has not committed yet, is true of the POSTs that were made.
THEOREM RowsAreTrue == Spec => []IInv
  BY InitInv, NextInv, PTL DEF Spec

----------------------------------------------------------------------------
\* However many sweeps hold the same rows, whichever of them commits last and
\* whatever is lost: "sent" was answered 2xx, "failed" had MAX_ATTEMPTS POSTs or a
\* refused target, and a pending delivery has a try left.
THEOREM OutcomesHold == Spec => []OutcomesAreTrue
<1>1. IInv => OutcomesAreTrue
  BY DEF IInv, CommittedTrue, RowTrue, StatusTrue, OutcomesAreTrue, Pending
<1> QED
  BY <1>1, RowsAreTrue, PTL

\* Only a commit writes a row that was queued, and it writes an outcome or nothing.
LEMMA SettledStep ==
    ASSUME IInv, [Next]_vars, NEW d \in Deliveries, delivery[d].status \in {"sent", "failed"}
    PROVE  delivery'[d].status \in {"sent", "failed"}
<1>1. CASE UNCHANGED delivery
  BY <1>1
<1>2. ASSUME NEW w \in Sweeps, CommitSweep(w) PROVE delivery'[d].status \in {"sent", "failed"}
  BY <1>2, WrittenTrue DEF CommitSweep
<1>3. ASSUME NEW c \in Deliveries, QueueEvent(c)
      PROVE  delivery'[d].status \in {"sent", "failed"}
  <2>1. c # d
    BY <1>3 DEF QueueEvent, Fresh
  <2> QED
    BY <1>3, <2>1 DEF QueueEvent, IInv, TypeOK
<1>4. ASSUME NEW w \in Sweeps, SendNext(w) PROVE UNCHANGED delivery
  BY <1>4 DEF SendNext, Bar, BarTarget, PostAccepted, PostRefused, Try, Taken
<1>5. ASSUME NEW w \in Sweeps,
             \/ \E scope \in Scopes : BeginSweep(w, scope)
             \/ \E c \in Deliveries : BeginTest(w, c)
             \/ LoseSweep(w)
      PROVE  UNCHANGED delivery
  BY <1>5 DEF BeginSweep, BeginTest, Hold, LoseSweep
<1>6. ASSUME NEW e \in Endpoints, CreateEndpoint(e) PROVE UNCHANGED delivery
  BY <1>6 DEF CreateEndpoint
<1> QED
  BY <1>1, <1>2, <1>3, <1>4, <1>5, <1>6 DEF Next, vars

\* The stale "pending" of a slow sweep never reopens a delivery that a faster one
\* settled, so no delivery is POSTed again after its outcome is known to be final.
THEOREM SettledDeliveriesStay == Spec => SettledStaysSettled
<1>1. IInv /\ [Next]_vars =>
        [\A d \in Deliveries :
            delivery[d].status \in {"sent", "failed"}
               => delivery'[d].status \in {"sent", "failed"}]_vars
  BY SettledStep
<1> QED
  BY <1>1, RowsAreTrue, PTL DEF Spec, SettledStaysSettled
=============================================================================
