---------------------------- MODULE ContractRules ----------------------------
(***************************************************************************)
(* Contract versions, the rule versions they pin, and the runs that price    *)
(* a month with them.  A request reads what it needs with plain SELECTs and  *)
(* commits later; other requests commit in between.  Run numbers, stale runs *)
(* and crashes of a run are PricingRuns'; here a run is what it computes.    *)
(*                                                                         *)
(* Version numbers come from MAX + 1 under a unique constraint: of two equal *)
(* ones a request fails and changes nothing, so ids stand for versions here. *)
(***************************************************************************)
EXTENDS RuleEngine

CONSTANTS
    Versions,     \* versions of one contract
    RuleVersions,
    Approvals,    \* approval requests
    Requests,     \* transactions of users' requests
    Terms,        \* Terms[v]: what add_rule_version stores; high (high_impact), impact
    Threshold,    \* approval_threshold_default
    Bindings,     \* lists of ids a request may pin; None: one that names no version
    Spans,        \* effective dates: records of from and to (NoEnd: open-ended)
    NoEnd,
    Bills,        \* lists of cost records a month may consist of
    Policy,       \* Policy[c]: the version's grouping, pricing basis and rounding mode
    None

ASSUME RulesAssumption ==
    /\ Bindings \subseteq Seq(RuleVersions \cup {None})
    /\ IsFiniteSet(RuleVersions)

\* Amounts, percentages and quantities are Decimals, whole numbers of engine units.
ASSUME TermsAssumption ==
    \A v \in RuleVersions :
        /\ {Terms[v].prio, Terms[v].order, Terms[v].rule, Terms[v].p, Terms[v].x} \subseteq Int
        /\ Terms[v].tiers \in Seq([upTo : Int, rate : Int])

Amounts == {"billed", "qty", "list", "ondemand", "net", "credit", "support", "tax"}

ASSUME BillsAssumption ==
    \A bill \in Bills :
        /\ Len(bill) \in Nat /\ DOMAIN bill = 1..Len(bill)
        /\ \A n \in DOMAIN bill : \A field \in Amounts : bill[n][field] \in Int

VARIABLES
    cv,         \* contract_versions
    rv,         \* status of the billing_rule_versions
    approval,   \* approvals of kind rule_publish
    granted,    \* rule versions whose approval was granted at some time
    tx,         \* open requests
    run         \* what the last step computed, if it was a pricing run

vars == <<cv, rv, approval, granted, tx, run>>

NoVersion == [status |-> "absent", span |-> None, overlapOk |-> FALSE, pins |-> <<>>]
NoRequest == [op |-> "none", of |-> None, to |-> None, pins |-> <<>>, over |-> {}]
NoRun == [rules |-> <<>>]

Open(q, request) ==
    /\ tx[q] = NoRequest
    /\ tx' = [tx EXCEPT ![q] = request]
    /\ run' = NoRun
    /\ UNCHANGED <<cv, rv, approval, granted>>

Close(q) == tx' = [tx EXCEPT ![q] = NoRequest] /\ run' = NoRun

\* A request that fails or is cut off before its commit changes nothing.
RollBack(q) ==
    /\ tx[q] # NoRequest
    /\ Close(q)
    /\ UNCHANGED <<cv, rv, approval, granted>>

-----------------------------------------------------------------------------
(* Contract versions.                                                       *)

\* "changes" sets any column of the version unchecked: any text as its status
\* ("other": neither draft nor active), its overlap approval, and as its bindings
\* drafts, retired versions and ids of no version at all.
AddVersion(c, span, status, overlapOk, pins) ==
    /\ cv[c].status = "absent"
    /\ cv' = [cv EXCEPT ![c] = [status |-> status, span |-> span, overlapOk |-> overlapOk,
                                pins |-> pins]]
    /\ run' = NoRun
    /\ UNCHANGED <<rv, approval, granted, tx>>

\* set_rule_bindings looks every version up, and takes drafts as well.
SetBindings(q, c, pins) ==
    /\ cv[c].status = "draft"
    /\ \A i \in DOMAIN pins : pins[i] \in RuleVersions /\ rv[pins[i]] \in {"published", "draft"}
    /\ Open(q, [NoRequest EXCEPT !.op = "bind", !.of = c, !.pins = pins])

CommitBindings(q) ==
    /\ tx[q].op = "bind"
    /\ cv' = [cv EXCEPT ![tx[q].of].pins = tx[q].pins]
    /\ Close(q)
    /\ UNCHANGED <<rv, approval, granted>>

Reaches(to, from) == to = NoEnd \/ to > from

Overlapping(c) ==
    {d \in Versions \ {c} : /\ cv[d].status = "active"
                            /\ Reaches(cv[c].span.to, cv[d].span.from)
                            /\ Reaches(cv[d].span.to, cv[c].span.from)}

Activate(q, c) ==
    /\ cv[c].status # "absent"
    /\ Overlapping(c) # {} => cv[c].overlapOk
    /\ Open(q, [NoRequest EXCEPT !.op = "activate", !.of = c, !.to = cv[c].status,
                                !.over = Overlapping(c)])

\* The status column of a version read as active is not written again.
CommitActivate(q) ==
    LET Status(d) == CASE d \in tx[q].over -> "superseded"
                       [] d = tx[q].of /\ tx[q].to # "active" -> "active"
                       [] OTHER -> cv[d].status
    IN  /\ tx[q].op = "activate"
        /\ cv' = [d \in Versions |-> [cv[d] EXCEPT !.status = Status(d)]]
        /\ Close(q)
        /\ UNCHANGED <<rv, approval, granted>>

-----------------------------------------------------------------------------
(* Rule versions and their approvals.                                       *)

AddRuleVersion(v) ==
    /\ rv[v] = "absent"
    /\ rv' = [rv EXCEPT ![v] = "draft"]
    /\ run' = NoRun
    /\ UNCHANGED <<cv, approval, granted, tx>>

\* Fault: approval may be requested for any version.
RequestAny(a, v) ==
    /\ approval[a].status = "absent"
    /\ rv[v] # "absent"
    /\ approval' = [approval EXCEPT ![a] = [status |-> "pending", of |-> v]]
    /\ run' = NoRun
    /\ UNCHANGED <<cv, rv, granted, tx>>

Approvable(v) == Terms[v].high \/ Terms[v].impact >= Threshold

RequestApproval(a, v) ==
    /\ approval[a].status = "absent"
    /\ rv[v] # "absent" /\ Approvable(v)
    /\ approval' = [approval EXCEPT ![a] = [status |-> "pending", of |-> v]]
    /\ run' = NoRun
    /\ UNCHANGED <<cv, rv, granted, tx>>

\* A checker who is not the maker decides; the maker may cancel.
Decide(q, a, decision) ==
    /\ approval[a].status = "pending"
    /\ Open(q, [NoRequest EXCEPT !.op = "decide", !.of = a, !.to = decision])

CommitDecide(q) ==
    LET a == tx[q].of IN
    /\ tx[q].op = "decide"
    /\ approval' = [approval EXCEPT ![a].status = tx[q].to]
    /\ granted' = IF tx[q].to = "approved" THEN granted \cup {approval[a].of} ELSE granted
    /\ Close(q)
    /\ UNCHANGED <<cv, rv>>

SameRule(v) == {w \in RuleVersions : Terms[w].rule = Terms[v].rule}
IsApproved(v) == \E a \in Approvals : approval[a] = [status |-> "approved", of |-> v]

\* Fault: any request for approval lets the version pass.
PublishRequested(q, v) ==
    /\ rv[v] \notin {"absent", "published"}
    /\ Terms[v].high => \E a \in Approvals : approval[a].of = v
    /\ Open(q, [NoRequest EXCEPT !.op = "publish", !.of = v,
                                !.over = {w \in SameRule(v) : rv[w] = "published"}])

Publish(q, v) ==
    /\ rv[v] \notin {"absent", "published"}
    /\ Terms[v].high => IsApproved(v)
    /\ Open(q, [NoRequest EXCEPT !.op = "publish", !.of = v,
                                !.over = {w \in SameRule(v) : rv[w] = "published"}])

\* Fault: the other versions of the rule are retired as they are at the commit,
\* the version itself among them when another request has just published it.
CommitPublishLate(q) ==
    /\ tx[q].op = "publish"
    /\ rv' = [w \in RuleVersions |->
                IF w \in SameRule(tx[q].of) /\ rv[w] = "published" THEN "retired"
                ELSE IF w = tx[q].of THEN "published" ELSE rv[w]]
    /\ Close(q)
    /\ UNCHANGED <<cv, approval, granted>>

CommitPublish(q) ==
    /\ tx[q].op = "publish"
    /\ rv' = [w \in RuleVersions |-> IF w = tx[q].of THEN "published"
                                     ELSE IF w \in tx[q].over THEN "retired" ELSE rv[w]]
    /\ Close(q)
    /\ UNCHANGED <<cv, approval, granted>>

-----------------------------------------------------------------------------
(* Pricing the month from 1 to 2.                                           *)

Covers(c) == cv[c].span.from <= 2 /\ Reaches(cv[c].span.to, 1)

Published == {v \in RuleVersions : rv[v] = "published"}

\* All orders of the elements of a set.
Orders(S) == {f \in [1..Cardinality(S) -> S] : \A i, j \in DOMAIN f : f[i] = f[j] => i = j}

\* The pinned ids that name a version, in the order of the bindings.
Pinned(c) ==
    LET pins == cv[c].pins
        places == Ascending({i \in DOMAIN pins :
                                pins[i] \in RuleVersions /\ rv[pins[i]] # "absent"})
    IN  [n \in DOMAIN places |-> pins[places[n]]]

\* The pinned versions, whatever their status; without any, every published rule
\* of the organisation, as the database lists them.
Collected(c) == IF Pinned(c) # <<>> THEN {Pinned(c)} ELSE Orders(Published)

RulesOf(list) == [i \in DOMAIN list |-> Terms[list[i]]]

\* run_pricing does not ask for an active version.  A run whose rules raise is
\* recorded as failed and has no items.  It sees committed rows only, and an
\* open request may be rolled back, so runs between requests are all there is to see.
Price(c) ==
    /\ run = NoRun /\ \A q \in Requests : tx[q] = NoRequest
    /\ cv[c].status # "absent" /\ Covers(c)
    /\ \E bill \in Bills, list \in Collected(c) :
         LET slices == Aggregated(bill, Policy[c].grouping)
         IN  /\ ~Raises(slices, RulesOf(list))
             /\ run' = [rules |-> list, bill |-> slices, of |-> c, records |-> bill,
                        out |-> Priced(slices, RulesOf(list), Policy[c])]
    /\ UNCHANGED <<cv, rv, approval, granted, tx>>

-----------------------------------------------------------------------------
Init ==
    /\ cv = [c \in Versions |-> NoVersion]
    /\ rv = [v \in RuleVersions |-> "absent"]
    /\ approval = [a \in Approvals |-> [status |-> "absent", of |-> None]]
    /\ granted = {}
    /\ tx = [q \in Requests |-> NoRequest]
    /\ run = NoRun

RequestStep(q) ==
    \/ \E c \in Versions : Activate(q, c) \/ \E pins \in Bindings : SetBindings(q, c, pins)
    \/ \E v \in RuleVersions : Publish(q, v)
    \/ \E a \in Approvals, d \in {"approved", "denied", "cancelled"} : Decide(q, a, d)
    \/ CommitBindings(q) \/ CommitActivate(q) \/ CommitDecide(q) \/ CommitPublish(q)
    \/ RollBack(q)

Next ==
    \/ \E q \in Requests : RequestStep(q)
    \/ \E c \in Versions, span \in Spans, status \in {"draft", "active", "other"},
          ok \in BOOLEAN, pins \in Bindings \cup {<<>>} : AddVersion(c, span, status, ok, pins)
    \/ \E v \in RuleVersions : AddRuleVersion(v) \/ \E a \in Approvals : RequestApproval(a, v)
    \/ \E c \in Versions : Price(c)

Spec == Init /\ [][Next]_vars

-----------------------------------------------------------------------------
(* Properties.                                                              *)

\* The catalogue: a contract version that exists has its span, an approval is of
\* an existing version that admits one (contracts.py, request_high_impact_approval).
\* Nothing makes sure that what a version pins exists.
TypeOK ==
    /\ \A c \in Versions :
         /\ cv[c].status \in {"absent", "draft", "active", "superseded", "other"}
         /\ cv[c].overlapOk \in BOOLEAN
         /\ cv[c].status # "absent" => cv[c].span \in Spans
    /\ rv \in [RuleVersions -> {"absent", "draft", "published", "retired"}]
    /\ \A a \in Approvals :
         /\ approval[a].status \in {"absent", "pending", "approved", "denied", "cancelled"}
         /\ approval[a].status # "absent" =>
              rv[approval[a].of] # "absent" /\ Approvable(approval[a].of)
    /\ \A q \in Requests : tx[q] = NoRequest \/ tx[q].op \in {"bind", "activate", "decide", "publish"}

\* Publishing retires the version in force and puts another in its place: in
\* whatever order concurrent publishes commit, a rule that was in force is never
\* left without a version in force (contracts.py, publish_rule_version).
RuleStaysPublished ==
    \A v \in RuleVersions : rv[v] = "retired" => \E w \in SameRule(v) : rv[w] = "published"

\* The publish gate: whatever decisions race with the publish, a high-impact
\* version is published, and applied by a run that takes the published rules, only
\* after a maker-checker approval of this very version was granted (contracts.py,
\* publish_rule_version: "high-impact additionally requires an approved
\* maker-checker Approval referencing this version").  Pinned versions pass by
\* the gate: Pinned takes drafts.
HighImpactWasApproved ==
    /\ \A v \in RuleVersions : rv[v] \in {"published", "retired"} /\ Terms[v].high => v \in granted
    /\ run # NoRun /\ Pinned(run.of) = <<>> =>
         \A i \in DOMAIN run.rules : Terms[run.rules[i]].high => run.rules[i] \in granted

Ranked(list) ==
    \A i, j \in DOMAIN list : list[i] # list[j] =>
        LET a == Terms[list[i]]  b == Terms[list[j]] IN
        <<a.prio, a.order, a.rule>> # <<b.prio, b.order, b.rule>>

\* When no two versions of one rule tie, what a run computes does not depend on
\* the order in which the database or the bindings list the rules, so a run can
\* be replayed (rules.py, sort_rules: "deterministic").
RunsReplay ==
    run # NoRun /\ Ranked(run.rules) =>
        \A p \in Orders(DOMAIN run.rules) :
            LET listed == [i \in DOMAIN run.rules |-> run.rules[p[i]]]
            IN  Priced(run.bill, RulesOf(listed), Policy[run.of]) = run.out

\* Rules on the original input compose: without replacements, a slice comes to
\* its basis and the sum of what each matching rule makes of that basis, whatever
\* the priorities (rules.py, _apply_one: "composes instead of clobbering").
OriginalInputComposes ==
    LET rules == RulesOf(run.rules) IN
    (run # NoRun /\ \A i \in DOMAIN rules : rules[i].basis = "original_input"
                                            /\ ~Replaces(rules[i])) =>
        \A n \in DOMAIN run.bill :
            LET s == run.bill[n]
                basis == ContractBasis(s, Policy[run.of].basis)
                part(r) == IF Matches(r, s) THEN Additive(r, s, basis) ELSE 0
            IN  run.out.lines[n].amount = basis + SumOf([i \in DOMAIN rules |-> part(rules[i])])

\* Every record is in one slice, counted once, whatever the grouping (_aggregate).
EveryRecordCounts ==
    \A field \in {"list", "ondemand", "net", "credit", "support", "tax"} :
        SumOf([i \in DOMAIN run.bill |-> run.bill[i][field]])
        = SumOf([n \in DOMAIN run.records |-> run.records[n][field]])

\* The items of a run add up to its subtotal but for the rounding of each item,
\* top-ups and reductions by a cap with their signs.
ItemsAddUp ==
    LET n == Len(run.out.items)
        error == Magnitude(SumOf(run.out.items) - run.out.total)
    IN  IF Policy[run.of].mode \in {"half_up", "half_down"} THEN 2 * error <= Cent * n
        ELSE error <= (Cent - 1) * n

\* The last minimum or cap in the order of the rules has the last word.
LastLimitHolds ==
    LET rules == RulesOf(run.rules)
        limits == {i \in DOMAIN rules : rules[i].type \in {"minimum_monthly", "maximum_cap"}}
    IN  \A i \in limits : (\A j \in limits : ~Before(rules, i, j)) =>
          LET limit == Quantized(rules[i].p, Policy[run.of].mode)
          IN  IF rules[i].type = "maximum_cap" THEN run.out.total <= limit
              ELSE run.out.total <= 0 \/ run.out.total >= limit

\* What a run bills is what the records, the rules and the limits come to
\* (pricing_service.py, _aggregate and _price; rules.py, invoice_level_adjustments).
RunsAddUp == run # NoRun => EveryRecordCounts /\ ItemsAddUp /\ LastLimitHolds
=============================================================================
