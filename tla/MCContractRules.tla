--------------------------- MODULE MCContractRules ---------------------------
(* Two versions of a contract, two of a fee and one each of a discount, a cap, a *)
(* minimum and a tiered price; ten engine units to the cent.                   *)
EXTENDS ContractRules, TLC

CONSTANTS q1, q2, a1, v1, v2, fee1, fee2, cut, cap, least, tiers1

Everything == <<>>   \* a filter with no dimension

Rule(rule, type, prio, basis, filter, p, x, tiers, high) ==
    [rule |-> rule, type |-> type, prio |-> prio, order |-> 100, basis |-> basis,
     filter |-> filter, p |-> p, x |-> x, tiers |-> tiers, high |-> high, impact |-> 0]

\* The discount is for one service in one region, on lines of one owner.
MCTerms ==
    (fee1 :> Rule(2, "managed_service_fee", 100, "original_input", Everything, 15, 3, <<>>, FALSE))
 @@ (fee2 :> Rule(2, "managed_service_fee", 50, "running_total",
                  [service |-> {"ec2"}, region |-> {}], 10, 0, <<>>, TRUE))
 @@ (cut  :> Rule(5, "percentage_discount", 120, "original_input",
                  [service |-> {"ec2", "rds"}, region |-> {"eu"}, tag |-> [owner |-> {"web"}]],
                  20, 0, <<>>, FALSE))
 @@ (cap  :> Rule(4, "maximum_cap", 100, "original_input", Everything, 120, 0, <<>>, FALSE))
 @@ (least :> Rule(1, "minimum_monthly", 100, "running_total", Everything, 150, 0, <<>>, FALSE))
 @@ (tiers1 :> Rule(3, "tiered", 90, "running_total", [service |-> {"s3"}], 0, 0,
                    <<[upTo |-> 2, rate |-> 13], [upTo |-> 0, rate |-> 4]>>, FALSE))

MCBindings == {<<cap, least, fee1>>, <<cut, None, fee1>>, <<fee2, tiers1, fee2>>}

MCPolicy == (v1 :> [grouping |-> <<"service">>, basis |-> "provider_billed", mode |-> "half_up"])
         @@ (v2 :> [grouping |-> <<"account", "service">>, basis |-> "list", mode |-> "floor"])

MCSpans == {[from |-> 1, to |-> 0]}

\* Usage of two services, one line of it in an account nobody mapped, and a credit;
\* the owner of the first service changes within the month.
Usage(billed, qty, support, service, account, tags) ==
    [usage |-> TRUE, late |-> FALSE, billed |-> billed, net |-> billed, list |-> billed + 9,
     ondemand |-> billed + 4, credit |-> 0, tax |-> 2, qty |-> qty, support |-> support,
     targets |-> {service, "eu"}, tags |-> tags,
     dims |-> [service |-> service, account |-> account]]

Granted(credit, service, account) ==
    [Usage(0, 0, 0, service, account, [owner |-> "web"])
        EXCEPT !.usage = FALSE, !.net = credit, !.credit = credit, !.list = 0]

MCBills == {<<Usage(57, 1, 8, "ec2", "prod", [owner |-> "batch"]),
              Usage(37, 2, 0, "s3", "unmapped", <<>>),
              Granted(-14, "ec2", "prod"), Usage(31, 3, 0, "s3", "prod", [owner |-> "web"])>>}

\* Bound: one version of the contract with two or three of rules, or two versions of
\* the contract without any; what overlap and foreign statuses do to an activation
\* is seen in the second case, what bindings do to a run in the first.
FewVersions ==
    LET there == {c \in Versions : cv[c].status # "absent"}
        rules == Cardinality({v \in RuleVersions : rv[v] # "absent"})
    IN  \/ Cardinality(there) <= 1 /\ rules <= (IF v2 \in there THEN 2 ELSE 3)
           /\ \A c \in there : ~cv[c].overlapOk /\ cv[c].status # "other"
        \/ rules = 0 /\ \A c \in there : cv[c].pins = <<>>

RequestSymmetry == Permutations({q1, q2})
=============================================================================
