-------------------------- MODULE WebhookDelivery ---------------------------
(***************************************************************************)
(* The webhook outbox (services/webhooks.py): queue_event leaves pending    *)
(* deliveries, deliver_due sweeps them.  A sweep selects the oldest pending *)
(* rows without locking them, POSTs them one after the other, keeps the     *)
(* outcomes in its ORM session, and commits once at the end of the batch.   *)
(* Sweeps are started by POST /webhooks/deliver, by POST /webhooks/{id}/test *)
(* and would be by a Celery task, so two may hold the same rows.  The       *)
(* ORM writes the columns whose value changed since they were read:         *)
(* `attempts` when a POST was tried, `status` when it is not "pending".     *)
(*                                                                         *)
(* Abstracted: payloads, signatures, response codes.  The receiver, the     *)
(* secret store and, among its possible answers, the name service answer    *)
(* nondeterministically, and an endpoint may be withdrawn outside the API;  *)
(* the two limits of the code (20, and 10 for a test) are one BatchSize.    *)
(***************************************************************************)
EXTENDS Integers, FiniteSets

CONSTANTS
    Deliveries,     \* delivery ids; natural numbers, in created_at order
    Endpoints,
    EndpointOf,     \* the endpoint a delivery goes to
    Answers,        \* Answers[e]: what the host of e may resolve to, sets of addresses
    AllowPrivate,   \* a local or test deployment
    Sweeps,         \* sweep processes
    BatchSize,      \* limit of the SELECT
    MaxAttempts,    \* MAX_ATTEMPTS
    MaxLosses       \* bound: how often a sweep may be lost before its commit

ASSUME DeliveriesAssumption ==
    /\ Deliveries \subseteq Nat
    /\ EndpointOf \in [Deliveries -> Endpoints]
    /\ Answers \in [Endpoints -> SUBSET SUBSET {"public", "private", "blocked"}]
    /\ AllowPrivate \in BOOLEAN
    /\ BatchSize \in Nat \ {0}
    /\ MaxAttempts \in Nat \ {0}
    /\ MaxLosses \in Nat

VARIABLES
    endpoints,  \* the endpoints created so far
    delivery,   \* delivery[d]: the committed row, status and attempts
    batch,      \* batch[w]: rows sweep w holds, {} between sweeps
    todo,       \* todo[w]: the rows of its batch it has not come to yet
    copy,       \* copy[w]: the rows as session w sees them
    tried,      \* tried[w]: rows of its batch whose attempts sweep w raised
    posts,      \* posts[d]: POSTs made for d, counted up to MaxAttempts
    accepted,   \* accepted[d]: the receiver answered 2xx at least once
    barred,     \* barred[d]: a sweep refused to send d at all
    losses      \* sweeps lost so far

vars == <<endpoints, delivery, batch, todo, copy, tried, posts, accepted, barred, losses>>

Row == [status : {"absent", "pending", "sent", "failed"}, attempts : 0..MaxAttempts]

TypeOK ==
    /\ endpoints \subseteq Endpoints
    /\ delivery \in [Deliveries -> Row]
    /\ batch \in [Sweeps -> SUBSET Deliveries]
    /\ todo \in [Sweeps -> SUBSET Deliveries]
    /\ copy \in [Sweeps -> [Deliveries -> Row]]
    /\ tried \in [Sweeps -> SUBSET Deliveries]
    /\ posts \in [Deliveries -> 0..MaxAttempts]
    /\ accepted \in [Deliveries -> BOOLEAN]
    /\ barred \in [Deliveries -> BOOLEAN]
    /\ losses \in 0..MaxLosses

Absent == [status |-> "absent", attempts |-> 0]
Unread == [d \in Deliveries |-> Absent]

Init ==
    /\ endpoints = {}
    /\ delivery = Unread
    /\ batch = [w \in Sweeps |-> {}]
    /\ todo = [w \in Sweeps |-> {}]
    /\ copy = [w \in Sweeps |-> Unread]
    /\ tried = [w \in Sweeps |-> {}]
    /\ posts = [d \in Deliveries |-> 0]
    /\ accepted = [d \in Deliveries |-> FALSE]
    /\ barred = [d \in Deliveries |-> FALSE]
    /\ losses = 0

Pending == {d \in Deliveries : delivery[d].status = "pending"}
----------------------------------------------------------------------------
\* An address is of one of three kinds: public, private (loopback too), blocked
\* (metadata, link-local, multicast).
Rejected(address) == address = "blocked" \/ (address = "private" /\ ~AllowPrivate)

\* A literal answers for itself; of a name every answer counts, and one that does
\* not resolve is refused.
Refused(answer) == answer = {} \/ \E address \in answer : Rejected(address)

\* The lookup is made anew each time, with the answer of the moment.
MayPass(e) == \E answer \in Answers[e] : ~Refused(answer)
MayBeRefused(e) == \E answer \in Answers[e] : Refused(answer)

\* POST /integrations/webhooks; no route disables or deletes an endpoint.
CreateEndpoint(e) ==
    /\ e \notin endpoints
    /\ MayPass(e)
    /\ endpoints' = endpoints \cup {e}
    /\ UNCHANGED <<delivery, batch, todo, copy, tried, posts, accepted, barred, losses>>

\* A delivery id nobody used before (a fresh uuid), to an endpoint that exists.
Fresh(d) ==
    /\ EndpointOf[d] \in endpoints
    /\ delivery[d].status = "absent"
    /\ posts[d] = 0 /\ ~barred[d]
    /\ \A w \in Sweeps : d \notin batch[w]

\* queue_event, committed with the transaction that raised the event.
QueueEvent(d) ==
    /\ Fresh(d)
    /\ delivery' = [delivery EXCEPT ![d].status = "pending"]
    /\ UNCHANGED <<endpoints, batch, todo, copy, tried, posts, accepted, barred, losses>>

Due(scope) == {d \in Pending : EndpointOf[d] \in scope}

\* ORDER BY created_at LIMIT n.
Oldest(due) == {d \in due : Cardinality({c \in due : c < d}) < BatchSize}

\* Session w holds `rows` and will send those of `sending`.
Hold(w, rows, sending) ==
    /\ batch[w] = {}
    /\ batch' = [batch EXCEPT ![w] = rows]
    /\ todo' = [todo EXCEPT ![w] = sending]
    /\ copy' = [copy EXCEPT ![w] = [d \in Deliveries |->
                    IF d \in rows THEN [delivery[d] EXCEPT !.status = "pending"]
                    ELSE Absent]]
    /\ UNCHANGED <<endpoints, delivery, tried, posts, accepted, barred, losses>>

\* SELECT ... WHERE status = 'pending' of the endpoints in scope: no row lock.
BeginSweep(w, scope) ==
    /\ Due(scope) # {}
    /\ Hold(w, Oldest(Due(scope)), Oldest(Due(scope)))

\* test_webhook: the event is queued and the endpoint swept in one transaction,
\* so the new row is invisible to other sweeps and lost when this one is.
BeginTest(w, d) ==
    /\ Fresh(d)
    /\ LET due == Due({EndpointOf[d]}) \cup {d}
       IN Hold(w, Oldest(due) \cup {d}, Oldest(due))

\* The rows of a batch are taken in created_at order.
IsNext(w, d) == d \in todo[w] /\ \A c \in todo[w] : d <= c

Taken(w, d, row) ==
    /\ todo' = [todo EXCEPT ![w] = @ \ {d}]
    /\ copy' = [copy EXCEPT ![w][d] = row]
    /\ UNCHANGED <<endpoints, delivery, batch, losses>>

\* Fault: a delivery to a disabled endpoint is skipped and stays pending.
SkipBarred(w, d) ==
    /\ IsNext(w, d)
    /\ Taken(w, d, copy[w][d])
    /\ barred' = [barred EXCEPT ![d] = TRUE]
    /\ UNCHANGED <<tried, posts, accepted>>

\* Endpoint gone or disabled, or its signing secret unusable: failed, unsent,
\* the attempt not counted.
Bar(w, d) ==
    /\ IsNext(w, d)
    /\ Taken(w, d, [copy[w][d] EXCEPT !.status = "failed"])
    /\ barred' = [barred EXCEPT ![d] = TRUE]
    /\ UNCHANGED <<tried, posts, accepted>>

\* The attempt is counted; the row is taken with status st.
Try(w, d, st) ==
    /\ IsNext(w, d)
    /\ Taken(w, d, [status |-> st, attempts |-> copy[w][d].attempts + 1])
    /\ tried' = [tried EXCEPT ![w] = @ \cup {d}]

\* The target URL is refused at send time: failed and unsent.
BarTarget(w, d) ==
    /\ MayBeRefused(EndpointOf[d])
    /\ Try(w, d, "failed")
    /\ barred' = [barred EXCEPT ![d] = TRUE]
    /\ UNCHANGED <<posts, accepted>>

\* A POST leaves for the receiver.
Post(d) == posts' = [posts EXCEPT ![d] = IF @ < MaxAttempts THEN @ + 1 ELSE @]

\* The POST is answered 2xx.
PostAccepted(w, d) ==
    /\ MayPass(EndpointOf[d])
    /\ Try(w, d, "sent")
    /\ Post(d)
    /\ accepted' = [accepted EXCEPT ![d] = TRUE]
    /\ UNCHANGED barred

\* Fault: any answer counts as sent.
PostAnswered(w, d) ==
    /\ MayPass(EndpointOf[d])
    /\ Try(w, d, "sent")
    /\ Post(d)
    /\ UNCHANGED <<accepted, barred>>

\* The POST is answered otherwise, times out or cannot be made; the receiver
\* may have acted on it all the same. Pending again until the last attempt.
PostRefused(w, d) ==
    /\ MayPass(EndpointOf[d])
    /\ Try(w, d, IF copy[w][d].attempts + 1 >= MaxAttempts THEN "failed" ELSE "pending")
    /\ Post(d)
    /\ UNCHANGED <<accepted, barred>>

SendNext(w) ==
    \E d \in todo[w] :
        Bar(w, d) \/ BarTarget(w, d) \/ PostAccepted(w, d) \/ PostRefused(w, d)

\* Fault: the commit writes whole rows, changed or not.
WrittenWhole(w, d) == IF d \in batch[w] THEN copy[w][d] ELSE delivery[d]

\* What the commit makes of row d: a new row is inserted, of the others only the
\* columns session w changed are written.
Written(w, d) ==
    [status |-> IF /\ d \in batch[w]
                   /\ copy[w][d].status # "pending" \/ delivery[d].status = "absent"
                THEN copy[w][d].status ELSE delivery[d].status,
     attempts |-> IF d \in tried[w] THEN copy[w][d].attempts ELSE delivery[d].attempts]

\* The session of sweep w is closed.
CloseSweep(w) ==
    /\ batch' = [batch EXCEPT ![w] = {}]
    /\ todo' = [todo EXCEPT ![w] = {}]
    /\ tried' = [tried EXCEPT ![w] = {}]
    /\ copy' = [copy EXCEPT ![w] = Unread]

\* One commit for the whole batch.
CommitSweep(w) ==
    /\ batch[w] # {}
    /\ todo[w] = {}
    /\ delivery' = [d \in Deliveries |-> Written(w, d)]
    /\ CloseSweep(w)
    /\ UNCHANGED <<endpoints, posts, accepted, barred, losses>>

\* The process dies or the database refuses the commit: the POSTs were made,
\* nothing of the batch is recorded.
LoseSweep(w) ==
    /\ batch[w] # {}
    /\ losses < MaxLosses
    /\ losses' = losses + 1
    /\ CloseSweep(w)
    /\ UNCHANGED <<endpoints, delivery, posts, accepted, barred>>

Scopes == {Endpoints} \cup {{e} : e \in Endpoints}

Next ==
    \/ \E e \in Endpoints : CreateEndpoint(e)
    \/ \E d \in Deliveries : QueueEvent(d)
    \/ \E w \in Sweeps :
        \/ \E scope \in Scopes : BeginSweep(w, scope)
        \/ \E d \in Deliveries : BeginTest(w, d)
        \/ SendNext(w)
        \/ CommitSweep(w)
        \/ LoseSweep(w)

\* A sweep under way goes on (httpx has a timeout of 8 s) and commits.  Nothing
\* obliges anybody to start one.
Fairness == \A w \in Sweeps : WF_vars(SendNext(w)) /\ WF_vars(CommitSweep(w))

Spec == Init /\ [][Next]_vars
FairSpec == Spec /\ Fairness
----------------------------------------------------------------------------
\* An outcome is never a guess, whichever of two overlapping sweeps wrote last and
\* whatever was lost before a commit: a delivery marked sent was answered 2xx, one
\* marked failed had MAX_ATTEMPTS POSTs or a refused target (lost updates of
\* `attempts` cost it no try), and one that is pending has a try left.
OutcomesAreTrue ==
    /\ TypeOK
    /\ \A d \in Deliveries :
         /\ delivery[d].status = "sent" => accepted[d]
         /\ delivery[d].status = "failed" => posts[d] >= MaxAttempts \/ barred[d]
         /\ d \in Pending => delivery[d].attempts < MaxAttempts

\* A settled delivery is never pending again: the stale "pending" of a slower
\* sweep does not undo the outcome a faster one committed.
SettledStaysSettled ==
    [][\A d \in Deliveries :
         delivery[d].status \in {"sent", "failed"}
            => delivery'[d].status \in {"sent", "failed"}]_vars

\* As long as something is pending, unscoped sweeps are started again and again:
\* by POST /webhooks/deliver, since the entry beat sends reaches no worker.
SweepsGoOn ==
    []<>(Pending = {}) \/ []<><<\E w \in Sweeps : BeginSweep(w, Endpoints)>>_vars

\* If somebody keeps sweeping, every queued delivery is eventually sent or given
\* up, also behind older rows of a dead endpoint that fill the batch.
EveryDeliverySettles ==
    SweepsGoOn =>
        \A d \in Deliveries :
            (delivery[d].status = "pending") ~> (delivery[d].status \in {"sent", "failed"})
=============================================================================
