----------------------------- MODULE RuleEngine -----------------------------
(***************************************************************************)
(* The billing rule engine: what a list of rule versions makes of the       *)
(* slices of a customer's month.  Amounts are integers in the engine's       *)
(* smallest unit; an invoice line is a multiple of Cent.                     *)
(*                                                                         *)
(* A rule version is a record: rule (its rule's id, an integer), type, prio, *)
(* order (calc_order), basis, filter, p (percent, rate or amount), x (flat  *)
(* part of a fee, or 1 for "replaces") and tiers.  A filter maps some of its *)
(* dimensions to sets of values, the dimension "tag" to one set per tag key. *)
(* A cost record and a slice have the amounts the types use; targets are the *)
(* values a filter may name, and tags maps tag keys to values.  A record has *)
(* its dims besides (the values it may be grouped by; an account nobody     *)
(* mapped is "unmapped"), usage (a usage line, not a credit or a tax) and    *)
(* late (an adjustment of an earlier month).                                *)
(***************************************************************************)
EXTENDS Integers, Sequences, FiniteSets

CONSTANTS Cent      \* engine units in the invoice's smallest unit

ASSUME EngineAssumption == Cent \in Nat \ {0}

Lower(a, b) == IF a <= b THEN a ELSE b
Sign(n) == IF n < 0 THEN -1 ELSE 1
Magnitude(n) == n * Sign(n)

\* pct_of: half a unit is rounded away from zero.
Pct(n, percent) ==
    LET m == n * percent IN Sign(m) * ((2 * Magnitude(m) + 100) \div 200)

\* q: to whole cents; 'truncate' cuts towards zero.
Quantized(n, mode) ==
    LET a == Magnitude(n)
        down == a \div Cent
        left == a % Cent
        up == CASE mode = "half_down" -> 2 * left > Cent
                [] mode = "up_abs"    -> left > 0
                [] mode = "truncate"  -> FALSE
                [] mode = "floor"     -> left > 0 /\ n < 0
                [] mode = "ceil"      -> left > 0 /\ n > 0
                [] OTHER              -> 2 * left >= Cent     \* half_up
    IN  Sign(n) * Cent * (IF up THEN down + 1 ELSE down)

\* rule_matches: every dimension of the filter must match.  The five dimensions
\* share one set of targets; no slice knows its account, so a filter on accounts
\* matches nothing.
Named(values, s) == values = {} \/ values \cap s.targets # {}

Matches(r, s) ==
    /\ "account" \notin DOMAIN r.filter
    /\ \A dim \in DOMAIN r.filter \cap {"service", "sku", "cost_category", "usage_type", "region"} :
         Named(r.filter[dim], s)
    /\ "tag" \in DOMAIN r.filter =>
         \A key \in DOMAIN r.filter.tag :
            key \in DOMAIN s.tags /\ s.tags[key] \in r.filter.tag[key]

ContractBasis(s, basis) ==
    CASE basis = "list"                -> s.list
      [] basis = "ondemand_equivalent" -> s.ondemand
      [] basis = "net_after_credits"   -> s.net
      [] OTHER                         -> s.billed

\* The loops over lists below are recursive functions of how many members they
\* have taken.
SumOf(amounts) ==
    LET sum[n \in 0..Len(amounts)] == IF n = 0 THEN 0 ELSE sum[n - 1] + amounts[n]
    IN  sum[Len(amounts)]

\* The members of a finite set in a strict order: the n-th has n - 1 before it.
InOrder(S, before) ==
    [n \in 1..Cardinality(S) |->
        CHOOSE x \in S : Cardinality({y \in S : <<y, x>> \in before}) = n - 1]

Ascending(S) == InOrder(S, {p \in S \X S : p[1] < p[2]})

-----------------------------------------------------------------------------
(* From the records of a month to slices, in the order they first appear.    *)

Key(r, grouping) == <<r.late, [n \in DOMAIN grouping |-> r.dims[grouping[n]]]>>

\* What the records at the given places add up to.
SumAt(records, places, field) ==
    SumOf([n \in DOMAIN records |-> IF n \in places THEN records[n][field] ELSE 0])

\* Of two records with the same tag key the later one names the value.
TagsOf(records, places) ==
    [key \in UNION {DOMAIN records[n].tags : n \in places} |->
        LET tagged == {n \in places : key \in DOMAIN records[n].tags}
        IN  records[CHOOSE n \in tagged : \A m \in tagged : m <= n].tags[key]]

\* Billed amounts and quantities are those of the usage lines, the other amounts
\* those of every line.
SliceOf(records, places) ==
    LET usage == {n \in places : records[n].usage}
    IN  [billed |-> SumAt(records, usage, "billed"), qty |-> SumAt(records, usage, "qty"),
         list |-> SumAt(records, places, "list"), ondemand |-> SumAt(records, places, "ondemand"),
         net |-> SumAt(records, places, "net"), credit |-> SumAt(records, places, "credit"),
         support |-> SumAt(records, places, "support"), tax |-> SumAt(records, places, "tax"),
         targets |-> UNION {records[n].targets : n \in places}, tags |-> TagsOf(records, places)]

SameKey(records, grouping, n) ==
    {m \in DOMAIN records : Key(records[m], grouping) = Key(records[n], grouping)}

\* The places where a key appears first.
Firsts(records, grouping) ==
    Ascending({n \in DOMAIN records : \A m \in SameKey(records, grouping, n) : n <= m})

Aggregated(records, grouping) ==
    LET firsts == Firsts(records, grouping)
    IN  [i \in DOMAIN firsts |-> SliceOf(records, SameKey(records, grouping, firsts[i]))]

-----------------------------------------------------------------------------
(* Order.                                                                   *)

\* priority, calc_order, rule id; the sort is stable.
Before(rules, i, j) ==
    LET a == rules[i]  b == rules[j] IN
    \/ a.prio < b.prio
    \/ a.prio = b.prio /\ a.order < b.order
    \/ a.prio = b.prio /\ a.order = b.order /\ a.rule < b.rule
    \/ a.prio = b.prio /\ a.order = b.order /\ a.rule = b.rule /\ i < j

\* Fault: the rules are applied in the order of the bindings.
BoundOrder(rules) == rules

Places(rules) ==
    InOrder(DOMAIN rules, {p \in (DOMAIN rules) \X (DOMAIN rules) : Before(rules, p[1], p[2])})

Sorted(rules) == [n \in DOMAIN rules |-> rules[Places(rules)[n]]]

-----------------------------------------------------------------------------
(* One rule on one slice: the amount it leads to.                           *)

Band(acc, t) ==
    LET n == IF t.upTo = 0 THEN acc.left ELSE Lower(acc.left, t.upTo)
    IN  [left |-> acc.left - n, total |-> acc.total + n * t.rate]

Tiered(tiers, qty) ==
    LET after[n \in 0..Len(tiers)] ==
            IF n = 0 THEN [left |-> qty, total |-> 0] ELSE Band(after[n - 1], tiers[n])
        end == after[Len(tiers)]
    IN  IF tiers = <<>> THEN 0 ELSE end.total + end.left * tiers[Len(tiers)].rate

Additive(r, s, input) ==
    CASE r.type \in {"percentage_markup", "tax_adjustment"} -> Pct(input, r.p)
      [] r.type = "percentage_discount"  -> -Pct(input, r.p)
      [] r.type = "managed_service_fee"  -> Pct(input, r.p) + r.x
      [] r.type = "credit_retention"     -> IF s.credit < 0 THEN s.credit - Pct(s.credit, r.p) ELSE 0
      [] r.type = "credit_pass_through"  -> IF s.credit < 0 THEN Pct(s.credit, r.p) ELSE 0
      [] r.type = "support_remove"       -> -s.support
      [] r.type = "support_replace"      -> r.p - s.support
      [] r.type = "promotional_credit"   -> -Magnitude(r.p)
      [] r.type \in {"minimum_monthly", "maximum_cap", "support_pass_through"} -> 0
      [] OTHER                           -> r.p     \* recurring, one-time, override, manual

Replaces(r) == \/ r.type \in {"fixed_unit_rate", "tiered", "data_exclusion"}
               \/ (r.type = "fixed_recurring" /\ r.x = 1)

Replacement(r, s) ==
    CASE r.type = "fixed_unit_rate" -> r.p * s.qty
      [] r.type = "tiered"          -> Tiered(r.tiers, s.qty)
      [] r.type = "data_exclusion"  -> 0
      [] OTHER                      -> r.p

\* currency_conversion is a rule type the engine raises on.
Supported(r) == r.type # "currency_conversion"

\* Fault: a rule on the original input forgets what the rules before it added.
StepClobbers(r, s, acc, basis) ==
    LET input == IF r.basis = "original_input" THEN ContractBasis(s, basis) ELSE acc.amount
        amount == IF Replaces(r) THEN Replacement(r, s) ELSE input + Additive(r, s, input)
    IN  [amount |-> amount,
         trace  |-> Append(acc.trace, [rule |-> r.rule, in |-> input, out |-> amount,
                                       delta |-> amount - acc.amount])]

\* The next step of a slice's calculation: the new amount and its trace step.
Step(r, s, acc, basis) ==
    LET input == IF r.basis = "original_input" THEN ContractBasis(s, basis) ELSE acc.amount
        amount == IF Replaces(r) THEN Replacement(r, s) ELSE acc.amount + Additive(r, s, input)
    IN  [amount |-> amount,
         trace  |-> Append(acc.trace, [rule |-> r.rule, in |-> input, out |-> amount,
                                       delta |-> amount - acc.amount])]

PricedSlice(s, ordered, basis) ==
    LET after[n \in 0..Len(ordered)] ==
            IF n = 0 THEN [amount |-> ContractBasis(s, basis), trace |-> <<>>]
            ELSE IF Matches(ordered[n], s) THEN Step(ordered[n], s, after[n - 1], basis)
            ELSE after[n - 1]
    IN  after[Len(ordered)]

Raises(slices, rules) ==
    \E i \in DOMAIN slices, j \in DOMAIN rules :
        Matches(rules[j], slices[i]) /\ ~Supported(rules[j])

-----------------------------------------------------------------------------
(* The month: slices, floor and cap, and the items of the run.              *)

\* Fault: the item of a cap has the sign of a top-up.
LimitUnsigned(acc, r, mode) ==
    LET limit == Quantized(r.p, mode) IN
    IF \/ r.type = "minimum_monthly" /\ acc.total > 0 /\ acc.total < limit
       \/ r.type = "maximum_cap" /\ acc.total > limit
    THEN [total |-> limit, deltas |-> Append(acc.deltas, Magnitude(limit - acc.total))]
    ELSE acc

\* minimum_monthly and maximum_cap, in rule order, whatever their filters.  A
\* minimum never turns a month that is not positive into a bill.
Limit(acc, r, mode) ==
    LET limit == Quantized(r.p, mode) IN
    IF \/ r.type = "minimum_monthly" /\ acc.total > 0 /\ acc.total < limit
       \/ r.type = "maximum_cap" /\ acc.total > limit
    THEN [total |-> limit, deltas |-> Append(acc.deltas, limit - acc.total)]
    ELSE acc

Limited(subtotal, ordered, mode) ==
    LET after[n \in 0..Len(ordered)] ==
            IF n = 0 THEN [total |-> subtotal, deltas |-> <<>>]
            ELSE Limit(after[n - 1], ordered[n], mode)
    IN  after[Len(ordered)]

\* The provider's support fee and tax become items at cost, beside the subtotal.
AtCost(slices, mode) ==
    LET cost == [kind \in {"support", "tax"} |->
                    SumOf([i \in DOMAIN slices |-> slices[i][kind]])]
    IN  [kind \in {k \in {"support", "tax"} : cost[k] # 0} |-> Quantized(cost[kind], mode)]

\* policy is the contract version's: its grouping, pricing basis and rounding mode.
Priced(slices, rules, policy) ==
    LET ordered == Sorted(rules)
        lines == [i \in DOMAIN slices |-> PricedSlice(slices[i], ordered, policy.basis)]
        subtotal == SumOf([i \in DOMAIN slices |-> lines[i].amount])
        limited == Limited(subtotal, ordered, policy.mode)
    IN  [lines |-> lines,
         items |-> [i \in DOMAIN slices |-> Quantized(lines[i].amount, policy.mode)]
                   \o [i \in DOMAIN limited.deltas |-> Quantized(limited.deltas[i], policy.mode)],
         extras |-> AtCost(slices, policy.mode),
         total |-> limited.total]
=============================================================================
