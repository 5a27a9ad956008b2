--------------------------- MODULE MCCostIngestion ---------------------------
(***************************************************************************)
(* Two overlapping exports of one month (jun, junFix), an upload the first  *)
(* release cannot parse (odd) and one without a billing period (junk).      *)
(***************************************************************************)
EXTENDS CostIngestion

Line(k, a, x, kind) == [key |-> k, acct |-> a, amount |-> x, kind |-> kind]

MCFiles == {"jun", "junFix", "junk"}
MCKeys == {"k1", "k2", "k3"}

MCLines ==
    [jun    |-> <<Line("k1", "A", 1, "charge"), Line("k1", "A", 1, "charge"),
                  Line("k2", "B", 2, "charge")>>,
     junFix |-> <<Line("k3", "B", 2, "charge"), Line("k1", "A", 1, "charge"), Line("k0", None, 0, "issue"),
                  Line("k0", None, 9, "summary"), Line("k0", None, 7, "summary")>>,
     junk   |-> <<>>]

MCPayer == [f \in MCFiles |-> "P"]
MCUnreadable == {"junk"}
MCUnparsed == {"junFix"}
MCMonths == {1, 2}
MCFixture == [c1 |-> <<"jun", "junFix">>, c2 |-> <<None, None>>]
MCConnectors == DOMAIN MCFixture
MCLoads == {<<"jun", "junFix">>}
=============================================================================
