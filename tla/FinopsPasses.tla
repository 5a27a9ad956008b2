---------------------------- MODULE FinopsPasses ----------------------------
(***************************************************************************)
(* The life of one tracked row: a cost anomaly, a recommendation, a         *)
(* governance finding with its exception, or a budget with its alert        *)
(* episode.  The nightly pass and the passes users start evaluate the facts *)
(* that ingestion changes and users decide on the rows, each in one         *)
(* transaction: it reads with plain SELECTs and its commit writes the       *)
(* columns whose value changed.  Rows of a pass share its transaction only, *)
(* so a pass over many rows is this pass over each, lost or kept together.  *)
(***************************************************************************)
EXTENDS Naturals

CONSTANTS
    Kinds,         \* the kinds of row to follow
    Passes,        \* transactions of a nightly or manual pass
    Users,         \* transactions of a user's request
    MaxMonth,      \* the last month of the clock
    MaxAlerts,     \* alerts after which spend no longer rises over a budget
    MaxLostPasses, \* passes lost before their commit
    None

ASSUME PassAssumption ==
    /\ Kinds \subseteq {"anomaly", "recommendation", "finding", "budget"}
    /\ MaxMonth \in Nat /\ MaxLostPasses \in Nat /\ None \notin 0..MaxMonth

VARIABLES
    kind,     \* what the row is; never changes
    row,      \* the committed row
    exc,      \* the committed policy_exceptions row of a finding
    enabled,  \* the policy of a finding is enabled
    fact,     \* what the billing data shows: "on", "quiet" (below the signal) or "off"
    clock,    \* the current month
    tx,       \* open transactions
    alerts,     \* budget alerts queued
    accepted, \* the months in which the recommendation was accepted
    lost

passesVars == <<kind, row, exc, enabled, fact, clock, tx, alerts, accepted, lost>>

NoRow == [status |-> "absent", decided |-> None, realized |-> None,
          alert |-> [breached |-> FALSE, count |-> 0]]
NoExc == [expires |-> None, revoked |-> FALSE]
NoWrite == [row |-> <<>>, exc |-> <<>>]
Closed == [op |-> "none", exc |-> NoExc, now |-> 0, insert |-> FALSE, write |-> NoWrite]

Expired(e, now) == e.expires # None /\ e.expires <= now
Active(e, now) == e.expires # None /\ ~e.revoked /\ e.expires > now

\* A commit writes the columns whose value the transaction changed.
Changes(seen, new) == [c \in {d \in DOMAIN new : new[d] # seen[d]} |-> new[c]]
Written(write, now) == [c \in DOMAIN now |-> IF c \in DOMAIN write THEN write[c] ELSE now[c]]

-----------------------------------------------------------------------------
(* What a pass makes of the row it read.                                    *)

\* Fault: an open anomaly that no longer fires is left open.
AnomalyLeftOpen(r) ==
    CASE r.status = "absent" /\ fact = "on" -> [r EXCEPT !.status = "open"]
      [] OTHER                              -> r

\* A new signal is recorded, an open one that no longer fires is resolved,
\* and reviewed ones are left alone.
Anomaly(r) ==
    CASE r.status = "absent" /\ fact = "on" -> [r EXCEPT !.status = "open"]
      [] r.status = "open" /\ fact # "on"   -> [r EXCEPT !.status = "resolved"]
      [] OTHER                              -> r

\* An open recommendation is dismissed when its resource stops billing.
Recommended(r, now) ==
    CASE r.status = "absent" /\ fact = "on" -> [r EXCEPT !.status = "open"]
      [] r.status = "open" /\ fact = "off"  -> [r EXCEPT !.status = "dismissed", !.decided = now]
      [] OTHER                              -> r

\* Fault: savings are realised for open recommendations too.
SavedUndecided(r, now) ==
    IF r.status # "absent" /\ r.realized = None THEN {r, [r EXCEPT !.realized = now]} ELSE {r}

\* Savings need a month of spend after the month of the decision, and lower.
Saved(r, now) ==
    IF r.status = "accepted" /\ r.decided # None /\ r.decided < now /\ r.realized = None
    THEN {r, [r EXCEPT !.realized = now]}
    ELSE {r}

\* A violation is open unless it was acknowledged or an exception is active;
\* one that vanished is remediated; an expired exception reopens the finding.
Finding(r, e, now) ==
    LET found == CASE r.status = "absent"             -> IF fact = "on" THEN "open" ELSE "absent"
                   [] r.status # "absent" /\ fact = "on" ->
                        IF Active(e, now) THEN "excepted"
                        ELSE IF r.status = "acknowledged" THEN r.status ELSE "open"
                   [] r.status \in {"open", "excepted"} /\ fact # "on" -> "remediated"
                   [] OTHER                           -> r.status
        evaluated == IF enabled THEN found ELSE r.status
    IN  [r EXCEPT !.status =
            IF Expired(e, now) /\ ~e.revoked /\ evaluated = "excepted" THEN "open" ELSE evaluated]

Revoked(e, now) == [e EXCEPT !.revoked = @ \/ Expired(e, now)]

\* An episode opens when the budget is breached and closes when it recovers.
Alerted(r) ==
    CASE r.status = "open" /\ fact = "on" /\ ~r.alert.breached ->
            [r EXCEPT !.alert = [breached |-> TRUE, count |-> @.count + 1]]
      [] r.status = "open" /\ fact # "on" /\ r.alert.breached ->
            [r EXCEPT !.alert.breached = FALSE]
      [] OTHER -> r

Evaluations(r, e, now) ==
    CASE kind = "anomaly"        -> {Anomaly(r)}
      [] kind = "recommendation" -> Saved(Recommended(r, now), now)
      [] kind = "finding"        -> {Finding(r, e, now)}
      [] kind = "budget"         -> {Alerted(r)}

-----------------------------------------------------------------------------
(* Passes.                                                                  *)

Open(t, change) ==
    /\ tx' = [tx EXCEPT ![t] = change]
    /\ UNCHANGED <<kind, row, exc, enabled, fact, clock, alerts, accepted, lost>>

\* evaluate_policies lists the exceptions before it reads the findings.
BeginPass(p) ==
    /\ tx[p].op = "none"
    /\ Open(p, [Closed EXCEPT !.op = "begun", !.exc = IF exc.revoked THEN NoExc ELSE exc,
                              !.now = clock])

Evaluate(p) ==
    /\ tx[p].op = "begun"
    /\ \E new \in Evaluations(row, tx[p].exc, tx[p].now) :
        Open(p, [Closed EXCEPT !.op = "pass",
                 !.insert = row.status = "absent" /\ new.status # "absent",
                 !.write = [row |-> Changes(row, new),
                            exc |-> Changes(tx[p].exc, Revoked(tx[p].exc, tx[p].now))]])

\* The unique dedupe_key refuses the second insert.
Conflict(t) == tx[t].insert /\ row.status # "absent"

Alerts(t) == "alert" \in DOMAIN tx[t].write.row /\ tx[t].write.row.alert.breached

Commit(t) ==
    /\ ~Conflict(t)
    /\ row' = Written(tx[t].write.row, row)
    /\ exc' = Written(tx[t].write.exc, exc)
    /\ tx' = [tx EXCEPT ![t] = Closed]
    /\ UNCHANGED <<kind, enabled, fact, clock, lost>>

CommitPass(p) ==
    /\ tx[p].op = "pass" /\ Commit(p)
    /\ alerts' = IF Alerts(p) THEN alerts + 1 ELSE alerts
    /\ UNCHANGED accepted

\* The nightly run rolls the organisation back and goes on with the next one.
RollBack(t) ==
    /\ tx[t].op \in {"pass", "user"} /\ Conflict(t)
    /\ Open(t, Closed)

LosePass(p) ==
    /\ tx[p].op # "none"
    /\ lost < MaxLostPasses
    /\ lost' = lost + 1
    /\ tx' = [tx EXCEPT ![p] = Closed]
    /\ UNCHANGED <<kind, row, exc, enabled, fact, clock, alerts, accepted>>

-----------------------------------------------------------------------------
(* Users.                                                                   *)

Request(u, write) ==
    /\ tx[u].op = "none"
    /\ Open(u, [Closed EXCEPT !.op = "user", !.write = write])

\* A decision's timestamp is always a new value, so its column is written.
Decide(u, status) ==
    Request(u, [row |-> Changes([row EXCEPT !.decided = None],
                                [row EXCEPT !.status = status, !.decided = clock]), exc |-> <<>>])

Mark(u, status, newExc) ==
    Request(u, [row |-> Changes(row, [row EXCEPT !.status = status]), exc |-> Changes(exc, newExc)])

ReviewAnomaly(u) ==
    /\ kind = "anomaly" /\ row.status # "absent"
    /\ \E s \in {"open", "acknowledged", "false_positive", "resolved"} :
        Mark(u, s, exc)

DecideRecommendation(u) ==
    /\ kind = "recommendation" /\ row.status # "absent"
    /\ \E s \in {"accepted", "dismissed"} : Decide(u, s)

AcknowledgeFinding(u) ==
    /\ kind = "finding" /\ row.status \in {"open", "acknowledged"}
    /\ Mark(u, "acknowledged", exc)

GrantException(u) ==
    /\ kind = "finding" /\ row.status # "absent"
    /\ \E day \in clock + 1 .. MaxMonth :
        Mark(u, "excepted", [expires |-> day, revoked |-> FALSE])

CreateBudget(u) ==
    /\ kind = "budget" /\ row.status = "absent"
    /\ Mark(u, "open", exc)

DeleteBudget(u) ==
    /\ kind = "budget" /\ row.status = "open"
    /\ Mark(u, "deleted", exc)

Accepts(u) == "decided" \in DOMAIN tx[u].write.row
              /\ Written(tx[u].write.row, row).status = "accepted"

CommitUser(u) ==
    /\ tx[u].op = "user" /\ Commit(u)
    /\ accepted' = IF Accepts(u) THEN accepted \cup {tx[u].write.row.decided} ELSE accepted
    /\ UNCHANGED alerts

TogglePolicy ==
    /\ kind = "finding"
    /\ enabled' = ~enabled
    /\ UNCHANGED <<kind, row, exc, fact, clock, tx, alerts, accepted, lost>>

-----------------------------------------------------------------------------
(* Ingestion and time.                                                      *)

Facts == IF kind = "recommendation" THEN {"on", "quiet", "off"} ELSE {"on", "off"}

Ingested ==
    /\ fact' \in Facts \ {fact}
    /\ fact' = "on" => alerts < MaxAlerts
    /\ UNCHANGED <<kind, row, exc, enabled, clock, tx, alerts, accepted, lost>>

MonthEnds ==
    /\ kind \in {"recommendation", "finding"}
    /\ clock < MaxMonth
    /\ clock' = clock + 1
    /\ UNCHANGED <<kind, row, exc, enabled, fact, tx, alerts, accepted, lost>>

PassesInit ==
    /\ kind \in Kinds
    /\ row = NoRow /\ exc = NoExc
    /\ enabled = TRUE
    /\ fact = "off"
    /\ clock = 0
    /\ tx = [t \in Passes \cup Users |-> Closed]
    /\ alerts = 0 /\ accepted = {} /\ lost = 0

UserStep(u) ==
    \/ ReviewAnomaly(u) \/ DecideRecommendation(u) \/ AcknowledgeFinding(u)
    \/ GrantException(u) \/ CreateBudget(u) \/ DeleteBudget(u) \/ CommitUser(u)

PassesNext ==
    \/ \E p \in Passes : BeginPass(p) \/ Evaluate(p) \/ CommitPass(p) \/ LosePass(p)
    \/ \E u \in Users : UserStep(u)
    \/ \E t \in Passes \cup Users : RollBack(t)
    \/ TogglePolicy \/ Ingested \/ MonthEnds

\* A pass that is not lost comes to its end.  Nothing obliges anybody to start one.
PassesFairness ==
    \A p \in Passes : WF_passesVars(Evaluate(p)) /\ WF_passesVars(CommitPass(p) \/ RollBack(p))

PassesSpec == PassesInit /\ [][PassesNext]_passesVars /\ PassesFairness

-----------------------------------------------------------------------------
(* Properties.                                                              *)

Months == 0..MaxMonth

\* Types; an episode counts no alert that was not queued with it, whichever
\* passes overlap (alerts.py commits the episode with its webhook).
PassesTypeOK ==
    /\ kind \in Kinds
    /\ row \in [status : {"absent", "open", "acknowledged", "false_positive", "resolved", "accepted",
                          "dismissed", "remediated", "excepted", "deleted"},
                decided : Months \cup {None}, realized : Months \cup {None},
                alert : [breached : BOOLEAN, count : 0..alerts]]
    /\ exc \in [expires : Months \cup {None}, revoked : BOOLEAN]
    /\ enabled \in BOOLEAN
    /\ clock \in Months
    /\ accepted \subseteq Months
    /\ lost \in 0..MaxLostPasses

\* However passes and users overlap: savings are claimed only when somebody
\* accepted the recommendation in an earlier month (realize_savings), and a
\* finding is excepted only if an exception was granted (grant_exception).
ClaimsAreBacked ==
    /\ PassesTypeOK
    /\ row.realized # None => \E m \in accepted : m < row.realized
    /\ row.status = "excepted" => exc.expires # None

\* The row agrees with what the data shows: a signal is recorded, a signal that is
\* gone is closed, an alert episode follows the spend.
Shown ==
    CASE kind = "budget" -> row.status = "open" => row.alert.breached = (fact = "on")
      [] kind = "finding" -> enabled =>
            IF fact = "on" THEN row.status \notin {"absent", "remediated"}
                           ELSE row.status \notin {"open", "excepted"}
      [] kind = "anomaly" -> IF fact = "on" THEN row.status # "absent" ELSE row.status # "open"
      [] OTHER -> CASE fact = "on"  -> row.status # "absent"
                    [] fact = "off" -> row.status # "open"
                    [] OTHER        -> TRUE

\* Passes are started again and again: by users' requests, since the nightly
\* entry beat sends reaches no worker.
PassesGoOn == []<><<\E p \in Passes : BeginPass(p)>>_passesVars

\* If somebody keeps starting passes, what the data shows for good reaches the
\* row, lost passes, conflicting inserts and stale writes included.
FactsAreShown ==
    PassesGoOn => \A f \in {"on", "quiet", "off"} : (fact = f) ~> (Shown \/ fact # f)
=============================================================================
