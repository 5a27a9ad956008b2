------------------------- MODULE ContractRulesProofs -------------------------
(***************************************************************************)
(* Proofs about RuleEngine, for any lists of records and of rules, and about *)
(* ContractRules, for any contract versions, rule versions, approvals and    *)
(* bills, and any number of requests open at the same time.                  *)
(*                                                                         *)
(* The engine's loops are recursive functions of the number of members they   *)
(* have taken; what a loop computes is proved by induction over that number   *)
(* (Prefixes: a set with 0 and with the successor of each of its members).   *)
(***************************************************************************)
EXTENDS ContractRules, TLAPS, FiniteSetTheorems, SequenceTheorems

-----------------------------------------------------------------------------
(* Sums over lists.                                                        *)

\* A set of naturals that is not empty has a least member.
LEMMA LeastOf ==
    ASSUME NEW S \in SUBSET Nat, S # {}
    PROVE  \E n \in S : \A m \in S : n <= m
<1>1. PICK n \in S : \A m \in S : ~(<<m, n>> \in OpToRel(<, Nat))
  BY NatLessThanWellFounded, WFMin
<1>2. \A m \in S : n <= m
  <2> SUFFICES ASSUME NEW m \in S, m < n PROVE FALSE
    OBVIOUS
  <2> QED
    BY <1>1 DEF OpToRel
<1> QED
  BY <1>2

\* Induction over the prefixes of a list.
LEMMA Prefixes ==
    ASSUME NEW N \in Nat, NEW S, 0 \in S, \A n \in 0..(N - 1) : n \in S => n + 1 \in S
    PROVE  0..N \subseteq S
<1> DEFINE Bad == {n \in 0..N : n \notin S}
<1> SUFFICES ASSUME Bad # {} PROVE FALSE
  OBVIOUS
<1>0. Bad \in SUBSET Nat
  OBVIOUS
<1>1. PICK n \in Bad : \A m \in Bad : n <= m
  <2> HIDE DEF Bad
  <2> QED
    BY <1>0, LeastOf
<1>2. n \in 1..N /\ n - 1 \in 0..(N - 1)
  OBVIOUS
<1>3. n - 1 \in S
  BY <1>1, <1>2
<1> QED
  BY <1>2, <1>3

SumTo(a, g, m) == g = [n \in 0..m |-> IF n = 0 THEN 0 ELSE g[n - 1] + a[n]]

Running(a) == CHOOSE g : SumTo(a, g, Len(a))

\* A sum is the last of the running totals.
LEMMA SumIsRunning == ASSUME NEW a PROVE SumOf(a) = Running(a)[Len(a)]
  BY DEF SumOf, Running, SumTo

\* The recursive definition of the running totals defines them.
LEMMA RunningExists ==
    ASSUME NEW a, Len(a) \in Nat
    PROVE  SumTo(a, Running(a), Len(a))
<1> DEFINE S == {m \in 0..Len(a) : \E g : SumTo(a, g, m)}
<1>1. 0 \in S
  <2>1. SumTo(a, [n \in 0..0 |-> 0], 0)
    BY DEF SumTo
  <2> QED
    BY <2>1
<1>2. ASSUME NEW m \in 0..(Len(a) - 1), m \in S PROVE m + 1 \in S
  <2>1. PICK g : SumTo(a, g, m)
    BY <1>2
  <2> DEFINE h == [n \in 0..(m + 1) |-> IF n = m + 1 THEN g[m] + a[n] ELSE g[n]]
  <2>2. SumTo(a, h, m + 1)
    BY <2>1 DEF SumTo
  <2> QED
    BY <2>2
<1>3. 0..Len(a) \subseteq S
  <2> HIDE DEF S
  <2> QED
    BY <1>1, <1>2, Prefixes
<1> QED
  BY <1>3 DEF Running

Numbers(a) == Len(a) \in Nat /\ \A n \in 1..Len(a) : a[n] \in Int

\* The running totals start at 0 and take in one member at a time.
LEMMA RunningSteps ==
    ASSUME NEW a, Numbers(a)
    PROVE  /\ Running(a)[0] = 0
           /\ \A n \in 1..Len(a) : Running(a)[n] = Running(a)[n - 1] + a[n]
           /\ \A n \in 0..Len(a) : Running(a)[n] \in Int
<1> DEFINE g == Running(a)
           S == {n \in 0..Len(a) : g[n] \in Int}
<1>1. g = [n \in 0..Len(a) |-> IF n = 0 THEN 0 ELSE g[n - 1] + a[n]]
  BY RunningExists DEF SumTo, Numbers
<1> HIDE DEF g
<1>2. g[0] = 0 /\ \A n \in 1..Len(a) : g[n] = g[n - 1] + a[n]
  BY <1>1 DEF Numbers
<1>3. 0 \in S /\ \A n \in 0..(Len(a) - 1) : n \in S => n + 1 \in S
  BY <1>2 DEF Numbers
<1>4. 0..Len(a) \subseteq S
  <2> HIDE DEF S
  <2> QED
    BY <1>3, Prefixes DEF Numbers
<1> QED
  BY <1>2, <1>4 DEF g

\* A sum is what any function that adds up the members comes to.
LEMMA SumIs ==
    ASSUME NEW a, Numbers(a), NEW g, g[0] = 0,
           \A n \in 1..Len(a) : g[n] = g[n - 1] + a[n]
    PROVE  SumOf(a) = g[Len(a)] /\ SumOf(a) \in Int
<1> DEFINE S == {n \in 0..Len(a) : g[n] = Running(a)[n]}
<1>1. 0 \in S /\ \A n \in 0..(Len(a) - 1) : n \in S => n + 1 \in S
  BY RunningSteps DEF Numbers
<1>2. Len(a) \in 0..Len(a)
  BY DEF Numbers
<1>3. Len(a) \in S
  <2> HIDE DEF S
  <2>1. 0..Len(a) \subseteq S
    BY <1>1, Prefixes DEF Numbers
  <2> QED
    BY <1>2, <2>1
<1>4. Running(a)[Len(a)] \in Int
  BY <1>2, RunningSteps
<1> QED
  BY <1>3, <1>4, SumIsRunning

\* A sum of whole numbers is one.
LEMMA SumTyped ==
    ASSUME NEW a, Numbers(a)
    PROVE  SumOf(a) \in Int
  BY SumIsRunning, RunningSteps DEF Numbers

\* Sums of lists of one length add up member by member.
LEMMA SumsAdd ==
    ASSUME NEW a, Numbers(a), NEW b, Numbers(b), NEW c,
           Len(a) = Len(c), Len(b) = Len(c), \A n \in 1..Len(c) : c[n] = a[n] + b[n]
    PROVE  SumOf(c) = SumOf(a) + SumOf(b)
<1> DEFINE g == [n \in 0..Len(c) |-> Running(a)[n] + Running(b)[n]]
<1>1. Numbers(c)
  BY DEF Numbers
<1>2. g[0] = 0
  BY RunningSteps DEF Numbers
<1>3. ASSUME NEW n \in 1..Len(c) PROVE g[n] = g[n - 1] + c[n]
  <2>1. n \in 0..Len(c) /\ n - 1 \in 0..Len(c)
    BY DEF Numbers
  <2>2. g[n] = Running(a)[n] + Running(b)[n] /\ g[n - 1] = Running(a)[n - 1] + Running(b)[n - 1]
    BY <2>1
  <2>3. Running(a)[n] = Running(a)[n - 1] + a[n] /\ Running(b)[n] = Running(b)[n - 1] + b[n]
    BY RunningSteps
  <2>4. /\ Running(a)[n - 1] \in Int /\ Running(b)[n - 1] \in Int
        /\ a[n] \in Int /\ b[n] \in Int
    BY <2>1, RunningSteps DEF Numbers
  <2> HIDE DEF g
  <2> QED
    BY <2>2, <2>3, <2>4
<1>4. g[Len(c)] = SumOf(a) + SumOf(b)
  BY SumIsRunning DEF Numbers
<1> HIDE DEF g
<1> QED
  BY <1>1, <1>2, <1>3, <1>4, SumIs

-----------------------------------------------------------------------------
(* The order of the rules.                                                 *)

StrictOrder(R, S) ==
    /\ \A x \in S : <<x, x>> \notin R
    /\ \A x, y, z \in S : <<x, y>> \in R /\ <<y, z>> \in R => <<x, z>> \in R
    /\ \A x, y \in S : x # y => <<x, y>> \in R \/ <<y, x>> \in R

Below(S, R, x) == {y \in S : <<y, x>> \in R}
Rank(S, R, x) == Cardinality(Below(S, R, x))

\* What comes before another member has fewer members before it.
LEMMA RanksDiffer ==
    ASSUME NEW S, IsFiniteSet(S), NEW R, StrictOrder(R, S),
           NEW x \in S, NEW y \in S, <<x, y>> \in R
    PROVE  Rank(S, R, x) < Rank(S, R, y)
<1>1. /\ IsFiniteSet(Below(S, R, y)) /\ IsFiniteSet(Below(S, R, x))
      /\ Cardinality(Below(S, R, y)) \in Nat /\ Cardinality(Below(S, R, x)) \in Nat
  BY FS_Subset, FS_CardinalityType DEF Below
<1>2. x \notin Below(S, R, x) /\ Below(S, R, x) \cup {x} \in SUBSET Below(S, R, y)
  BY DEF Below, StrictOrder
<1>3. Cardinality(Below(S, R, x) \cup {x}) = Cardinality(Below(S, R, x)) + 1
  BY <1>1, <1>2, FS_AddElement
<1>4. Cardinality(Below(S, R, x) \cup {x}) <= Cardinality(Below(S, R, y))
  BY <1>1, <1>2, FS_Subset
<1> QED
  BY <1>1, <1>3, <1>4 DEF Rank

\* A member has fewer members before it than there are.
LEMMA RankTyped ==
    ASSUME NEW S, IsFiniteSet(S), NEW R, StrictOrder(R, S), NEW x \in S
    PROVE  Cardinality(S) \in Nat /\ Rank(S, R, x) \in 0..(Cardinality(S) - 1)
<1>1. Below(S, R, x) \cup {x} \in SUBSET S /\ x \notin Below(S, R, x)
  BY DEF Below, StrictOrder
<1>2. IsFiniteSet(Below(S, R, x)) /\ Cardinality(Below(S, R, x)) \in Nat /\ Cardinality(S) \in Nat
  BY <1>1, FS_Subset, FS_CardinalityType
<1>3. Cardinality(Below(S, R, x) \cup {x}) = Cardinality(Below(S, R, x)) + 1
  BY <1>1, <1>2, FS_AddElement
<1>4. Cardinality(Below(S, R, x) \cup {x}) <= Cardinality(S)
  BY <1>1, FS_Subset
<1> QED
  BY <1>2, <1>3, <1>4 DEF Rank

\* Every place of the order is taken, by one member.
LEMMA RanksCount ==
    ASSUME NEW S, IsFiniteSet(S), NEW R, StrictOrder(R, S), NEW n \in 1..Cardinality(S)
    PROVE  \E x \in S : Rank(S, R, x) = n - 1
<1> DEFINE N == Cardinality(S)
           T == 0..(N - 1)
           f == [x \in S |-> Rank(S, R, x)]
<1>1. N \in Nat
  BY FS_CardinalityType
<1>2. f \in [S -> T]
  BY RankTyped
<1>3. \A x, y \in S : f[x] = f[y] => x = y
  <2> SUFFICES ASSUME NEW x \in S, NEW y \in S, x # y PROVE f[x] # f[y]
    OBVIOUS
  <2>1. <<x, y>> \in R \/ <<y, x>> \in R
    BY DEF StrictOrder
  <2>2. Rank(S, R, x) < Rank(S, R, y) \/ Rank(S, R, y) < Rank(S, R, x)
    BY <2>1, RanksDiffer
  <2>3. Rank(S, R, x) \in Int /\ Rank(S, R, y) \in Int
    BY RankTyped
  <2> QED
    BY <2>2, <2>3
<1>4. f \in Injection(S, T)
  BY <1>2, <1>3 DEF Injection, IsInjective
<1>5. IsFiniteSet(T) /\ Cardinality(T) = N
  <2>1. 0 \in Int /\ N - 1 \in Int
    BY <1>1
  <2>2. IsFiniteSet(T) /\ Cardinality(T) = IF 0 > N - 1 THEN 0 ELSE (N - 1) - 0 + 1
    BY <2>1, FS_Interval
  <2> QED
    BY <1>1, <2>2
<1>6. f \in Surjection(S, T)
  BY <1>4, <1>5, FS_Injection
<1>7. \E x \in S : f[x] = n - 1
  <2>1. n - 1 \in T
    BY <1>1
  <2> HIDE DEF f, T
  <2> QED
    BY <1>6, <2>1 DEF Surjection
<1> QED
  BY <1>7

\* InOrder finds a member for each place.
LEMMA InOrderIs ==
    ASSUME NEW S, IsFiniteSet(S), NEW R, StrictOrder(R, S)
    PROVE  /\ DOMAIN InOrder(S, R) = 1..Cardinality(S)
           /\ \A n \in 1..Cardinality(S) : /\ InOrder(S, R)[n] \in S
                                           /\ Rank(S, R, InOrder(S, R)[n]) = n - 1
<1> DEFINE o == InOrder(S, R)
<1>1. o = [n \in 1..Cardinality(S) |-> CHOOSE x \in S : Rank(S, R, x) = n - 1]
  BY DEF InOrder, Rank, Below
<1> HIDE DEF o
<1>2. \A n \in 1..Cardinality(S) : o[n] \in S /\ Rank(S, R, o[n]) = n - 1
  BY <1>1, RanksCount
<1> QED
  BY <1>1, <1>2 DEF o

\* The members in order: each once, and those before it at smaller places.
LEMMA InOrderPlaces ==
    ASSUME NEW S, IsFiniteSet(S), NEW R, StrictOrder(R, S)
    PROVE  LET o == InOrder(S, R) IN
           /\ o \in [1..Cardinality(S) -> S]
           /\ \A x \in S : \E n \in 1..Cardinality(S) : o[n] = x
           /\ \A m, n \in 1..Cardinality(S) : m < n => <<o[m], o[n]>> \in R
<1> DEFINE o == InOrder(S, R)
<1>1. Cardinality(S) \in Nat
  BY FS_CardinalityType
<1>2. o \in [1..Cardinality(S) -> S] /\ \A n \in 1..Cardinality(S) : Rank(S, R, o[n]) = n - 1
  <2>1. \A n \in 1..Cardinality(S) : o[n] \in S
    BY InOrderIs
  <2>2. o = [n \in 1..Cardinality(S) |-> o[n]]
    <3> DEFINE e(n) == CHOOSE x \in S : Cardinality({y \in S : <<y, x>> \in R}) = n - 1
    <3>1. o = [n \in 1..Cardinality(S) |-> e(n)]
      BY DEF InOrder
    <3> HIDE DEF o, e
    <3> QED
      BY <3>1
  <2> HIDE DEF o
  <2>3. \A n \in 1..Cardinality(S) : Rank(S, R, o[n]) = n - 1
    BY InOrderIs DEF o
  <2> QED
    BY <2>1, <2>2, <2>3
<1>3. ASSUME NEW x \in S PROVE \E n \in 1..Cardinality(S) : o[n] = x
  <2> DEFINE n == Rank(S, R, x) + 1
  <2>1. n \in 1..Cardinality(S) /\ o[n] \in S /\ Rank(S, R, o[n]) = Rank(S, R, x)
    BY <1>1, <1>2, RankTyped
  <2>2. o[n] = x
    <3> SUFFICES ASSUME o[n] # x PROVE FALSE
      OBVIOUS
    <3>1. <<o[n], x>> \in R \/ <<x, o[n]>> \in R
      BY <2>1 DEF StrictOrder
    <3>2. Rank(S, R, o[n]) < Rank(S, R, x) \/ Rank(S, R, x) < Rank(S, R, o[n])
      BY <2>1, <3>1, RanksDiffer
    <3> QED
      BY <2>1, <3>2, RankTyped
  <2> QED
    BY <2>1, <2>2
<1>4. ASSUME NEW m \in 1..Cardinality(S), NEW n \in 1..Cardinality(S), m < n
      PROVE  <<o[m], o[n]>> \in R
  <2>1. o[m] \in S /\ o[n] \in S /\ Rank(S, R, o[m]) = m - 1 /\ Rank(S, R, o[n]) = n - 1
    BY <1>2
  <2>2. <<o[n], o[m]>> \notin R
    BY <2>1, <1>4, RanksDiffer
  <2>3. o[m] # o[n]
    BY <2>1, <1>4
  <2> QED
    BY <2>1, <2>2, <2>3 DEF StrictOrder
<1> HIDE DEF o
<1>5. /\ o \in [1..Cardinality(S) -> S]
      /\ \A x \in S : \E n \in 1..Cardinality(S) : o[n] = x
      /\ \A m, n \in 1..Cardinality(S) : m < n => <<o[m], o[n]>> \in R
  BY <1>2, <1>3, <1>4
<1> QED
  BY <1>5 DEF o

Keyed(r) == {r.prio, r.order, r.rule} \subseteq Int

\* A list of rules the engine can order.
Rules(rules) ==
    /\ Len(rules) \in Nat /\ DOMAIN rules = 1..Len(rules)
    /\ \A i \in DOMAIN rules : Keyed(rules[i])

Precedes(a, b) ==
    \/ a.prio < b.prio
    \/ a.prio = b.prio /\ a.order < b.order
    \/ a.prio = b.prio /\ a.order = b.order /\ a.rule < b.rule

Ties(a, b) == a.prio = b.prio /\ a.order = b.order /\ a.rule = b.rule

Earlier(rules) == {p \in (DOMAIN rules) \X (DOMAIN rules) : Before(rules, p[1], p[2])}

\* The sort key compares priority, calc_order and rule in this order.
LEMMA KeysOrder ==
    /\ \A a : Keyed(a) => ~Precedes(a, a) /\ Ties(a, a)
    /\ \A a, b : Keyed(a) /\ Keyed(b) =>
         /\ Precedes(a, b) \/ Precedes(b, a) \/ Ties(a, b)
         /\ ~(Precedes(a, b) /\ Precedes(b, a))
         /\ Ties(a, b) => ~Precedes(a, b) /\ ~Precedes(b, a) /\ Ties(b, a)
    /\ \A a, b, c : Keyed(a) /\ Keyed(b) /\ Keyed(c) =>
         /\ Precedes(a, b) /\ Precedes(b, c) => Precedes(a, c)
         /\ Precedes(a, b) /\ Ties(b, c) => Precedes(a, c)
         /\ Ties(a, b) /\ Precedes(b, c) => Precedes(a, c)
         /\ Ties(a, b) /\ Ties(b, c) => Ties(a, c)
  BY DEF Keyed, Precedes, Ties

\* One rule is before another by its key, or by its place when they tie.
LEMMA BeforeIs ==
    ASSUME NEW rules, NEW i \in DOMAIN rules, NEW j \in DOMAIN rules
    PROVE  /\ Before(rules, i, j) <=> \/ Precedes(rules[i], rules[j])
                                      \/ Ties(rules[i], rules[j]) /\ i < j
           /\ <<i, j>> \in Earlier(rules) <=> Before(rules, i, j)
  BY DEF Before, Precedes, Ties, Earlier

\* The order of the engine (sort_rules) is a strict order of the places.
LEMMA RulesOrder ==
    ASSUME NEW rules, Rules(rules)
    PROVE  StrictOrder(Earlier(rules), DOMAIN rules)
<1> DEFINE D == DOMAIN rules
           E(i, j) == Precedes(rules[i], rules[j]) \/ (Ties(rules[i], rules[j]) /\ i < j)
<1>1. \A i, j \in D : <<i, j>> \in Earlier(rules) <=> E(i, j)
  BY BeforeIs
<1>2. \A i \in D : i \in Int /\ Keyed(rules[i])
  BY DEF Rules
<1>3. \A i \in D : ~E(i, i)
  BY <1>2, KeysOrder
<1>4. \A i, j, k \in D : E(i, j) /\ E(j, k) => E(i, k)
  <2> SUFFICES ASSUME NEW i \in D, NEW j \in D, NEW k \in D, E(i, j), E(j, k) PROVE E(i, k)
    OBVIOUS
  <2>1. i < j /\ j < k => i < k
    BY <1>2
  <2> QED
    BY <1>2, <2>1, KeysOrder
<1>5. \A i, j \in D : i # j => E(i, j) \/ E(j, i)
  <2> SUFFICES ASSUME NEW i \in D, NEW j \in D, i # j PROVE E(i, j) \/ E(j, i)
    OBVIOUS
  <2>1. i < j \/ j < i
    BY <1>2
  <2> QED
    BY <1>2, <2>1, KeysOrder
<1> QED
  BY <1>1, <1>3, <1>4, <1>5 DEF StrictOrder

\* A list has as many places as its length says.
LEMMA DomainCounts ==
    ASSUME NEW rules, Rules(rules)
    PROVE  IsFiniteSet(DOMAIN rules) /\ Cardinality(DOMAIN rules) = Len(rules)
<1>1. 1 \in Int /\ Len(rules) \in Int
  BY DEF Rules
<1>2. IsFiniteSet(1..Len(rules))
      /\ Cardinality(1..Len(rules)) = IF 1 > Len(rules) THEN 0 ELSE Len(rules) - 1 + 1
  BY <1>1, FS_Interval
<1> QED
  BY <1>2 DEF Rules

\* The order the engine applies a list of rules in: each rule of the list once.
LEMMA PlacesAre ==
    ASSUME NEW rules, Rules(rules)
    PROVE  /\ Places(rules) \in [DOMAIN rules -> DOMAIN rules]
           /\ \A i \in DOMAIN rules : \E n \in DOMAIN rules : Places(rules)[n] = i
           /\ \A m, n \in DOMAIN rules : m < n => Before(rules, Places(rules)[m], Places(rules)[n])
           /\ \A n \in DOMAIN rules :
                Rank(DOMAIN rules, Earlier(rules), Places(rules)[n]) = n - 1
<1> DEFINE D == DOMAIN rules
           o == Places(rules)
<1>1. StrictOrder(Earlier(rules), D) /\ IsFiniteSet(D) /\ Cardinality(D) = Len(rules)
  BY RulesOrder, DomainCounts
<1>2. o = InOrder(D, Earlier(rules)) /\ D = 1..Cardinality(D)
  BY <1>1 DEF Places, Earlier, Rules
<1> HIDE DEF o, D
<1>3. /\ o \in [D -> D]
      /\ \A x \in D : \E n \in D : o[n] = x
      /\ \A m, n \in D : m < n => <<o[m], o[n]>> \in Earlier(rules)
      /\ \A n \in D : Rank(D, Earlier(rules), o[n]) = n - 1
  <2> DEFINE R == Earlier(rules)
  <2> HIDE DEF R
  <2>1. StrictOrder(R, D) /\ o = InOrder(D, R)
    BY <1>1, <1>2 DEF R
  <2>2. /\ o \in [1..Cardinality(D) -> D]
        /\ \A x \in D : \E n \in 1..Cardinality(D) : o[n] = x
        /\ \A m, n \in 1..Cardinality(D) : m < n => <<o[m], o[n]>> \in R
    BY <1>1, <2>1, InOrderPlaces
  <2>3. \A n \in 1..Cardinality(D) : Rank(D, R, o[n]) = n - 1
    BY <1>1, <2>1, InOrderIs
  <2> QED
    BY <1>2, <2>2, <2>3 DEF R
<1>4. \A m, n \in D : m < n => Before(rules, o[m], o[n])
  BY <1>3, BeforeIs DEF D
<1> QED
  BY <1>3, <1>4 DEF o, D

Permutes(p, S) == /\ p \in [S -> S] /\ \A i, j \in S : p[i] = p[j] => i = j
                  /\ \A i \in S : \E j \in S : p[j] = i

Taken(p, S, L) == {j \in S : p[j] \in L}

\* A set and the places a permutation takes to it have the same size.
LEMMA PermutedSize ==
    ASSUME NEW S, IsFiniteSet(S), NEW p, Permutes(p, S), NEW L \in SUBSET S
    PROVE  /\ IsFiniteSet(L) /\ IsFiniteSet(Taken(p, S, L))
           /\ Cardinality(Taken(p, S, L)) = Cardinality(L) /\ Cardinality(L) \in Nat
<1> DEFINE M == Taken(p, S, L)
           f == [j \in M |-> p[j]]
<1>1. IsFiniteSet(L) /\ IsFiniteSet(M) /\ Cardinality(L) \in Nat
  BY FS_Subset, FS_CardinalityType DEF Taken
<1>2. f \in [M -> L] /\ (\A i, j \in M : f[i] = f[j] => i = j) /\ \A i \in L : \E j \in M : f[j] = i
  BY DEF Permutes, Taken
<1> HIDE DEF f, M
<1>3. f \in Bijection(M, L)
  BY <1>2 DEF Bijection, Injection, IsInjective, Surjection
<1>4. Cardinality(L) = Cardinality(M)
  BY <1>1, <1>3, FS_Bijection DEF ExistsBijection
<1> QED
  BY <1>1, <1>4 DEF M

\* When rules that tie are the same, the order does not depend on how they are listed.
THEOREM SortedOnce ==
    ASSUME NEW rules, Rules(rules), NEW p, Permutes(p, DOMAIN rules),
           \A i, j \in DOMAIN rules : Ties(rules[i], rules[j]) => rules[i] = rules[j],
           NEW listed, listed = [i \in DOMAIN rules |-> rules[p[i]]],
           Len(listed) = Len(rules)
    PROVE  Sorted(listed) = Sorted(rules)
<1> DEFINE D == DOMAIN rules
<1>0. /\ DOMAIN listed = D /\ Rules(listed) /\ p \in [D -> D]
      /\ \A i \in D : listed[i] = rules[p[i]] /\ Keyed(rules[i]) /\ i \in Int
      /\ IsFiniteSet(D)
  <2>1. p \in [D -> D] /\ IsFiniteSet(D)
    BY DomainCounts DEF Permutes
  <2>2. DOMAIN listed = D /\ \A i \in D : listed[i] = rules[p[i]]
    OBVIOUS
  <2>3. D = 1..Len(rules) /\ Len(rules) \in Nat /\ \A i \in D : Keyed(rules[i])
    BY DEF Rules
  <2> HIDE DEF D
  <2>4. \A i \in D : Keyed(listed[i])
    BY <2>1, <2>2, <2>3
  <2>5. \A i \in D : i \in Int
    BY <2>3
  <2>6. Rules(listed)
    BY <2>2, <2>3, <2>4 DEF Rules
  <2> QED
    BY <2>1, <2>2, <2>3, <2>5, <2>6
<1>1. ASSUME NEW n \in D PROVE listed[Places(listed)[n]] = rules[Places(rules)[n]]
  <2> DEFINE i == Places(rules)[n]
             k == Places(listed)[n]
             B == Below(D, Earlier(rules), i)
             C == Below(D, Earlier(listed), k)
  <2>1. /\ i \in D /\ k \in D /\ p[k] \in D /\ n \in Int
        /\ Cardinality(B) = n - 1 /\ Cardinality(C) = n - 1
    <3>1. i \in D /\ Rank(D, Earlier(rules), i) = n - 1
      <4>1. /\ Places(rules) \in [D -> D]
            /\ \A m \in D : Rank(D, Earlier(rules), Places(rules)[m]) = m - 1
        BY PlacesAre
      <4> QED
        BY <4>1
    <3>2. k \in D /\ Rank(D, Earlier(listed), k) = n - 1
      <4>1. /\ Places(listed) \in [D -> D]
            /\ \A m \in D : Rank(D, Earlier(listed), Places(listed)[m]) = m - 1
        BY <1>0, PlacesAre
      <4> QED
        BY <4>1
    <3>3. n \in Int /\ p[k] \in D
      BY <1>0, <3>2
    <3> QED
      BY <3>1, <3>2, <3>3 DEF Rank
  <2>2. IsFiniteSet(B) /\ IsFiniteSet(C)
    BY <1>0, FS_Subset DEF Below
  <2>3. /\ \A j \in D : j \in B <=> Before(rules, j, i)
        /\ \A j \in D : j \in C <=> Before(listed, j, k)
        /\ B \subseteq D /\ C \subseteq D
    BY <1>0, <2>1, BeforeIs DEF Below
  <2> HIDE DEF B, C, i, k
  <2>4. /\ \A j \in D : j \in B <=> \/ Precedes(rules[j], rules[i])
                                    \/ Ties(rules[j], rules[i]) /\ j < i
        /\ \A j \in D : j \in C <=> \/ Precedes(rules[p[j]], rules[p[k]])
                                    \/ Ties(rules[p[j]], rules[p[k]]) /\ j < k
    BY <1>0, <2>1, <2>3, BeforeIs
  <2>5. i \notin B /\ k \notin C
    BY <1>0, <2>1, <2>4, KeysOrder
  <2>6. Cardinality(B \cup {i}) = n /\ Cardinality(C \cup {k}) = n
    <3>1. Cardinality(B \cup {i}) = n - 1 + 1
      BY <2>1, <2>2, <2>5, FS_AddElement
    <3>2. Cardinality(C \cup {k}) = n - 1 + 1
      BY <2>1, <2>2, <2>5, FS_AddElement
    <3> QED
      BY <2>1, <3>1, <3>2
  <2> DEFINE UpTo(x) == {j \in D : ~Precedes(rules[x], rules[j])}
             From(x) == Taken(p, D, UpTo(x))
  <2>7. \A x \in D : /\ IsFiniteSet(UpTo(x)) /\ IsFiniteSet(From(x))
                     /\ Cardinality(From(x)) = Cardinality(UpTo(x))
                     /\ Cardinality(UpTo(x)) \in Nat
    <3> SUFFICES ASSUME NEW x \in D
                 PROVE  /\ IsFiniteSet(UpTo(x)) /\ IsFiniteSet(From(x))
                        /\ Cardinality(From(x)) = Cardinality(UpTo(x))
                        /\ Cardinality(UpTo(x)) \in Nat
      OBVIOUS
    <3>1. UpTo(x) \in SUBSET D /\ Permutes(p, D)
      OBVIOUS
    <3> HIDE DEF UpTo, D
    <3> QED
      BY <1>0, <3>1, PermutedSize
  <2>8. ~Precedes(rules[i], rules[p[k]])
    <3> SUFFICES ASSUME Precedes(rules[i], rules[p[k]]) PROVE FALSE
      OBVIOUS
    <3>1. B \cup {i} \in SUBSET UpTo(i)
      BY <1>0, <2>1, <2>3, <2>4, KeysOrder
    <3>2. From(i) \in SUBSET C
      <4> SUFFICES ASSUME NEW j \in D, ~Precedes(rules[i], rules[p[j]]) PROVE j \in C
        BY DEF Taken
      <4>1. Precedes(rules[p[j]], rules[p[k]])
        BY <1>0, <2>1, KeysOrder
      <4> QED
        BY <2>4, <4>1
    <3> HIDE DEF UpTo, From
    <3>3. n <= Cardinality(UpTo(i)) /\ Cardinality(From(i)) <= n - 1
      BY <2>1, <2>2, <2>6, <2>7, <3>1, <3>2, FS_Subset
    <3> QED
      BY <2>1, <2>7, <3>3
  <2>9. ~Precedes(rules[p[k]], rules[i])
    <3> SUFFICES ASSUME Precedes(rules[p[k]], rules[i]) PROVE FALSE
      OBVIOUS
    <3>1. C \cup {k} \in SUBSET From(p[k])
      BY <1>0, <2>1, <2>3, <2>4, KeysOrder DEF Taken
    <3>2. UpTo(p[k]) \in SUBSET B
      <4> SUFFICES ASSUME NEW j \in D, ~Precedes(rules[p[k]], rules[j]) PROVE j \in B
        OBVIOUS
      <4>1. Precedes(rules[j], rules[i])
        BY <1>0, <2>1, KeysOrder
      <4> QED
        BY <2>4, <4>1
    <3> HIDE DEF UpTo, From
    <3>3. n <= Cardinality(From(p[k])) /\ Cardinality(UpTo(p[k])) <= n - 1
      BY <2>1, <2>2, <2>6, <2>7, <3>1, <3>2, FS_Subset
    <3> QED
      BY <2>1, <2>7, <3>3
  <2>10. Ties(rules[p[k]], rules[i])
    BY <1>0, <2>1, <2>8, <2>9, KeysOrder
  <2> QED
    BY <1>0, <2>1, <2>10 DEF i, k
<1> QED
  BY <1>0, <1>1 DEF Sorted

-----------------------------------------------------------------------------
(* Parts of a sum.                                                         *)

\* A function over 1..k has length k.
LEMMA LenIs ==
    ASSUME NEW k \in Nat, NEW f, f = [n \in 1..k |-> f[n]]
    PROVE  Len(f) = k /\ DOMAIN f = 1..k
<1>1. f \in Seq({f[n] : n \in 1..k})
  BY IsASeq
<1>2. Len(f) \in Nat /\ DOMAIN f = 1..Len(f)
  BY <1>1, LenProperties
<1>3. 1..k = 1..Len(f)
  BY <1>2
<1> QED
  BY <1>2, <1>3

Only(a, T) == [n \in 1..Len(a) |-> IF n \in T THEN a[n] ELSE 0]

\* The members at some places, and 0 elsewhere, can be summed.
LEMMA OnlyNumbers ==
    ASSUME NEW a, Numbers(a), NEW T
    PROVE  Numbers(Only(a, T)) /\ Len(Only(a, T)) = Len(a)
<1> DEFINE f == Only(a, T)
<1>1. f = [n \in 1..Len(a) |-> f[n]]
  BY DEF Only
<1>2. Len(f) = Len(a)
  <2> HIDE DEF f
  <2> QED
    BY <1>1, LenIs DEF Numbers
<1> QED
  BY <1>2 DEF Numbers, Only

\* The sums over disjoint sets of places add up.
LEMMA SumOfTwoParts ==
    ASSUME NEW a, Numbers(a), NEW T, NEW U, T \cap U = {}
    PROVE  SumOf(Only(a, T \cup U)) = SumOf(Only(a, T)) + SumOf(Only(a, U))
<1>1. \A n \in 1..Len(a) : Only(a, T \cup U)[n] = Only(a, T)[n] + Only(a, U)[n]
  BY DEF Numbers, Only
<1> DEFINE t == Only(a, T)  u == Only(a, U)  c == Only(a, T \cup U)
<1>2. /\ Numbers(t) /\ Numbers(u) /\ Len(t) = Len(c) /\ Len(u) = Len(c)
      /\ \A n \in 1..Len(c) : c[n] = t[n] + u[n]
  BY <1>1, OnlyNumbers
<1> HIDE DEF t, u, c
<1>3. SumOf(c) = SumOf(t) + SumOf(u)
  BY <1>2, SumsAdd
<1> QED
  BY <1>3 DEF t, u, c

\* The sum over no places is 0.
LEMMA SumOfNone ==
    ASSUME NEW a, Numbers(a)
    PROVE  SumOf(Only(a, {})) = 0
<1> DEFINE g == [n \in 0..Len(a) |-> 0]
<1>1. g[0] = 0 /\ \A n \in 1..Len(a) : g[n] = g[n - 1] + Only(a, {})[n]
  BY DEF Numbers, Only
<1>2. g[Len(a)] = 0
  BY DEF Numbers
<1> HIDE DEF g
<1> QED
  BY <1>1, <1>2, OnlyNumbers, SumIs

\* The sum over all places is the list's.
LEMMA SumOfAll ==
    ASSUME NEW a, Numbers(a), NEW T, 1..Len(a) \subseteq T
    PROVE  SumOf(Only(a, T)) = SumOf(a)
<1>1. \A n \in 1..Len(a) : Only(a, T)[n] = a[n]
  BY DEF Only
<1>2. Numbers(Only(a, T)) /\ Len(Only(a, T)) = Len(a)
  BY OnlyNumbers
<1>3. /\ Running(a)[0] = 0
      /\ \A n \in 1..Len(a) : Running(a)[n] = Running(a)[n - 1] + a[n]
  BY RunningSteps
<1>4. SumOf(Only(a, T)) = Running(a)[Len(a)]
  BY <1>1, <1>2, <1>3, SumIs
<1> QED
  BY <1>4, SumIsRunning

\* The sum over one place is the member there.
LEMMA SumOfOne ==
    ASSUME NEW a, Numbers(a), NEW k \in 1..Len(a)
    PROVE  SumOf(Only(a, {k})) = a[k]
<1> DEFINE g == [n \in 0..Len(a) |-> IF n < k THEN 0 ELSE a[k]]
<1>1. g[0] = 0 /\ \A n \in 1..Len(a) : g[n] = g[n - 1] + Only(a, {k})[n]
  BY DEF Numbers, Only
<1>2. g[Len(a)] = a[k]
  BY DEF Numbers
<1>3. Numbers(Only(a, {k})) /\ Len(Only(a, {k})) = Len(a)
  BY OnlyNumbers
<1> HIDE DEF g
<1> QED
  BY <1>1, <1>2, <1>3, SumIs

\* The first n of some sets.
Upto(P, n) == UNION {P[j] : j \in 1..n}

\* A list adds up to the sum of the sums of its parts.
LEMMA SumByParts ==
    ASSUME NEW a, Numbers(a), NEW c, Len(c) \in Nat, NEW P,
           \A i, j \in 1..Len(c) : i # j => P[i] \cap P[j] = {},
           1..Len(a) \subseteq Upto(P, Len(c)),
           \A i \in 1..Len(c) : c[i] = SumOf(Only(a, P[i]))
    PROVE  SumOf(c) = SumOf(a)
<1> DEFINE g == [n \in 0..Len(c) |-> SumOf(Only(a, Upto(P, n)))]
<1>1. g[0] = 0
  <2>1. Upto(P, 0) = {}
    BY DEF Upto
  <2> QED
    BY <2>1, SumOfNone
<1>2. ASSUME NEW n \in 1..Len(c) PROVE g[n] = g[n - 1] + c[n]
  <2>1. n \in 0..Len(c) /\ n - 1 \in 0..Len(c) /\ n \in Int
    OBVIOUS
  <2>2. Upto(P, n) = Upto(P, n - 1) \cup P[n]
    <3>1. \A j : j \in 1..n <=> j \in 1..(n - 1) \/ j = n
      BY <2>1
    <3> QED
      BY <3>1 DEF Upto
  <2>3. Upto(P, n - 1) \cap P[n] = {}
    BY <2>1 DEF Upto
  <2>4. SumOf(Only(a, Upto(P, n))) = SumOf(Only(a, Upto(P, n - 1))) + SumOf(Only(a, P[n]))
    BY <2>2, <2>3, SumOfTwoParts
  <2> QED
    BY <2>1, <2>4
<1>3. Numbers(c)
  <2>1. \A i \in 1..Len(c) : SumOf(Only(a, P[i])) \in Int
    BY OnlyNumbers, SumTyped
  <2> QED
    BY <2>1 DEF Numbers
<1>4. g[Len(c)] = SumOf(a)
  BY SumOfAll
<1> HIDE DEF g
<1> QED
  BY <1>1, <1>2, <1>3, <1>4, SumIs

\* A sum does not depend on the order of its members.
LEMMA SumPermuted ==
    ASSUME NEW a, Numbers(a), NEW o, Permutes(o, 1..Len(a)),
           NEW c, Len(c) = Len(a), \A n \in 1..Len(a) : c[n] = a[o[n]]
    PROVE  SumOf(c) = SumOf(a)
<1> DEFINE P == [n \in 1..Len(a) |-> {o[n]}]
<1>1. \A i, j \in 1..Len(c) : i # j => P[i] \cap P[j] = {}
  BY DEF Permutes
<1>2. 1..Len(a) \subseteq Upto(P, Len(c))
  <2> SUFFICES ASSUME NEW i \in 1..Len(a) PROVE i \in Upto(P, Len(c))
    OBVIOUS
  <2>1. PICK j \in 1..Len(c) : o[j] = i
    BY DEF Permutes
  <2>2. i \in P[j]
    BY <2>1
  <2> HIDE DEF P
  <2> QED
    BY <2>2 DEF Upto
<1>3. \A i \in 1..Len(c) : c[i] = SumOf(Only(a, P[i]))
  <2> SUFFICES ASSUME NEW i \in 1..Len(c) PROVE c[i] = SumOf(Only(a, {o[i]}))
    OBVIOUS
  <2>1. o[i] \in 1..Len(a)
    BY DEF Permutes
  <2> QED
    BY <2>1, SumOfOne
<1>4. Len(c) \in Nat
  BY DEF Numbers
<1> HIDE DEF P
<1> QED
  BY <1>1, <1>2, <1>3, <1>4, SumByParts

-----------------------------------------------------------------------------
(* The loops over rules and tiers, one step at a time.                      *)

PricedTo(s, ordered, basis, g, m) ==
    g = [n \in 0..m |->
            IF n = 0 THEN [amount |-> ContractBasis(s, basis), trace |-> <<>>]
            ELSE IF Matches(ordered[n], s) THEN Step(ordered[n], s, g[n - 1], basis)
            ELSE g[n - 1]]

\* g[n] is a slice after n of the rules.
PricesStep(s, ordered, basis, g) ==
    /\ g[0] = [amount |-> ContractBasis(s, basis), trace |-> <<>>]
    /\ \A n \in 1..Len(ordered) :
         g[n] = IF Matches(ordered[n], s) THEN Step(ordered[n], s, g[n - 1], basis) ELSE g[n - 1]

Pricing(s, ordered, basis) == CHOOSE g : PricedTo(s, ordered, basis, g, Len(ordered))

\* The loop of _apply_one over the rules is defined and takes one rule at a time.
LEMMA PricingSteps ==
    ASSUME NEW s, NEW ordered, Len(ordered) \in Nat, NEW basis
    PROVE  /\ PricesStep(s, ordered, basis, Pricing(s, ordered, basis))
           /\ PricedSlice(s, ordered, basis) = Pricing(s, ordered, basis)[Len(ordered)]
<1> DEFINE S == {m \in 0..Len(ordered) : \E g : PricedTo(s, ordered, basis, g, m)}
           g0 == [amount |-> ContractBasis(s, basis), trace |-> <<>>]
<1>1. 0 \in S
  <2>1. PricedTo(s, ordered, basis, [n \in 0..0 |-> g0], 0)
    BY DEF PricedTo
  <2> QED
    BY <2>1
<1>2. ASSUME NEW m \in 0..(Len(ordered) - 1), m \in S PROVE m + 1 \in S
  <2>1. PICK g : PricedTo(s, ordered, basis, g, m)
    BY <1>2
  <2> DEFINE next == IF Matches(ordered[m + 1], s) THEN Step(ordered[m + 1], s, g[m], basis)
                     ELSE g[m]
             h == [n \in 0..(m + 1) |-> IF n = m + 1 THEN next ELSE g[n]]
  <2>2. PricedTo(s, ordered, basis, h, m + 1)
    BY <2>1 DEF PricedTo
  <2> QED
    BY <2>2
<1>3. 0..Len(ordered) \subseteq S
  <2> HIDE DEF S
  <2> QED
    BY <1>1, <1>2, Prefixes
<1> DEFINE g == Pricing(s, ordered, basis)
<1>4. PricedTo(s, ordered, basis, g, Len(ordered))
  BY <1>3 DEF Pricing
<1>5. PricedSlice(s, ordered, basis) = g[Len(ordered)]
  BY DEF PricedSlice, Pricing, PricedTo
<1> HIDE DEF g
<1>6. PricesStep(s, ordered, basis, g)
  BY <1>4 DEF PricedTo, PricesStep
<1> QED
  BY <1>5, <1>6 DEF g

LimitedTo(subtotal, ordered, mode, g, m) ==
    g = [n \in 0..m |-> IF n = 0 THEN [total |-> subtotal, deltas |-> <<>>]
                        ELSE Limit(g[n - 1], ordered[n], mode)]

\* g[n] is the subtotal after n of the rules.
LimitsStep(subtotal, ordered, mode, g) ==
    /\ g[0] = [total |-> subtotal, deltas |-> <<>>]
    /\ \A n \in 1..Len(ordered) : g[n] = Limit(g[n - 1], ordered[n], mode)

Limiting(subtotal, ordered, mode) ==
    CHOOSE g : LimitedTo(subtotal, ordered, mode, g, Len(ordered))

\* So is the loop of invoice_level_adjustments.
LEMMA LimitingSteps ==
    ASSUME NEW subtotal, NEW ordered, Len(ordered) \in Nat, NEW mode
    PROVE  /\ LimitsStep(subtotal, ordered, mode, Limiting(subtotal, ordered, mode))
           /\ Limited(subtotal, ordered, mode) = Limiting(subtotal, ordered, mode)[Len(ordered)]
<1> DEFINE S == {m \in 0..Len(ordered) : \E g : LimitedTo(subtotal, ordered, mode, g, m)}
           g0 == [total |-> subtotal, deltas |-> <<>>]
<1>1. 0 \in S
  <2>1. LimitedTo(subtotal, ordered, mode, [n \in 0..0 |-> g0], 0)
    BY DEF LimitedTo
  <2> QED
    BY <2>1
<1>2. ASSUME NEW m \in 0..(Len(ordered) - 1), m \in S PROVE m + 1 \in S
  <2>1. PICK g : LimitedTo(subtotal, ordered, mode, g, m)
    BY <1>2
  <2> DEFINE h == [n \in 0..(m + 1) |-> IF n = m + 1 THEN Limit(g[m], ordered[m + 1], mode)
                                        ELSE g[n]]
  <2>2. LimitedTo(subtotal, ordered, mode, h, m + 1)
    BY <2>1 DEF LimitedTo
  <2> QED
    BY <2>2
<1>3. 0..Len(ordered) \subseteq S
  <2> HIDE DEF S
  <2> QED
    BY <1>1, <1>2, Prefixes
<1> DEFINE g == Limiting(subtotal, ordered, mode)
<1>4. LimitedTo(subtotal, ordered, mode, g, Len(ordered))
  BY <1>3 DEF Limiting
<1>5. Limited(subtotal, ordered, mode) = g[Len(ordered)]
  BY DEF Limited, Limiting, LimitedTo
<1> HIDE DEF g
<1>6. LimitsStep(subtotal, ordered, mode, g)
  BY <1>4 DEF LimitedTo, LimitsStep
<1> QED
  BY <1>5, <1>6 DEF g

TieredTo(tiers, qty, g, m) ==
    g = [n \in 0..m |-> IF n = 0 THEN [left |-> qty, total |-> 0] ELSE Band(g[n - 1], tiers[n])]

Tiering(tiers, qty) == CHOOSE g : TieredTo(tiers, qty, g, Len(tiers))

\* A product of whole numbers is one.
LEMMA TimesTyped == \A a, b \in Int : a * b \in Int
  OBVIOUS

\* One tier leaves whole quantities and amounts.
LEMMA BandTyped ==
    ASSUME NEW acc \in [left : Int, total : Int], NEW t \in [upTo : Int, rate : Int]
    PROVE  Band(acc, t) \in [left : Int, total : Int]
<1> DEFINE n == IF t.upTo = 0 THEN acc.left ELSE Lower(acc.left, t.upTo)
<1>1. n \in Int
  BY DEF Lower
<1>2. Band(acc, t) = [left |-> acc.left - n, total |-> acc.total + n * t.rate]
  BY DEF Band
<1> HIDE DEF n
<1>3. n * t.rate \in Int
  BY <1>1, TimesTyped
<1> QED
  BY <1>1, <1>2, <1>3

\* And so is the loop over the tiers.
LEMMA TieringSteps ==
    ASSUME NEW tiers, Len(tiers) \in Nat, NEW qty
    PROVE  LET g == Tiering(tiers, qty) IN
           /\ g[0] = [left |-> qty, total |-> 0]
           /\ \A n \in 1..Len(tiers) : g[n] = Band(g[n - 1], tiers[n])
           /\ Tiered(tiers, qty) = IF tiers = <<>> THEN 0
                                   ELSE g[Len(tiers)].total
                                        + g[Len(tiers)].left * tiers[Len(tiers)].rate
<1> DEFINE S == {m \in 0..Len(tiers) : \E g : TieredTo(tiers, qty, g, m)}
           g0 == [left |-> qty, total |-> 0]
<1>1. 0 \in S
  <2>1. TieredTo(tiers, qty, [n \in 0..0 |-> g0], 0)
    BY DEF TieredTo
  <2> QED
    BY <2>1
<1>2. ASSUME NEW m \in 0..(Len(tiers) - 1), m \in S PROVE m + 1 \in S
  <2>1. PICK g : TieredTo(tiers, qty, g, m)
    BY <1>2
  <2> DEFINE h == [n \in 0..(m + 1) |-> IF n = m + 1 THEN Band(g[m], tiers[m + 1]) ELSE g[n]]
  <2>2. TieredTo(tiers, qty, h, m + 1)
    BY <2>1 DEF TieredTo
  <2> QED
    BY <2>2
<1>3. 0..Len(tiers) \subseteq S
  <2> HIDE DEF S
  <2> QED
    BY <1>1, <1>2, Prefixes
<1> DEFINE g == Tiering(tiers, qty)
<1>4. TieredTo(tiers, qty, g, Len(tiers))
  BY <1>3 DEF Tiering
<1>5. Tiered(tiers, qty) = IF tiers = <<>> THEN 0
                           ELSE g[Len(tiers)].total + g[Len(tiers)].left * tiers[Len(tiers)].rate
  BY DEF Tiered, Tiering, TieredTo
<1> HIDE DEF g
<1>6. /\ g[0] = [left |-> qty, total |-> 0]
      /\ \A n \in 1..Len(tiers) : g[n] = Band(g[n - 1], tiers[n])
  BY <1>4 DEF TieredTo
<1> QED
  BY <1>5, <1>6 DEF g

\* A tiered price is a whole number of units.
LEMMA TieredTyped ==
    ASSUME NEW tiers \in Seq([upTo : Int, rate : Int]), NEW qty \in Int
    PROVE  Tiered(tiers, qty) \in Int
<1> DEFINE N == Len(tiers)
           g == Tiering(tiers, qty)
           Acc == [left : Int, total : Int]
           T == {n \in 0..N : g[n] \in Acc}
<1>0. N \in Nat /\ \A n \in 1..N : tiers[n] \in [upTo : Int, rate : Int]
  BY LenProperties
<1>1. /\ g[0] = [left |-> qty, total |-> 0] /\ \A n \in 1..N : g[n] = Band(g[n - 1], tiers[n])
      /\ Tiered(tiers, qty) = IF tiers = <<>> THEN 0 ELSE g[N].total + g[N].left * tiers[N].rate
  BY <1>0, TieringSteps
<1> HIDE DEF g, N
<1>2. ASSUME NEW n \in 0..(N - 1), n \in T PROVE n + 1 \in T
  <2>1. /\ g[n] \in Acc /\ g[n + 1] = Band(g[n], tiers[n + 1])
        /\ tiers[n + 1] \in [upTo : Int, rate : Int]
    BY <1>0, <1>1, <1>2
  <2>2. Band(g[n], tiers[n + 1]) \in Acc
    BY <2>1, BandTyped
  <2>3. g[n + 1] \in Acc
    BY <2>1, <2>2
  <2>4. n + 1 \in 0..N
    <3> HIDE DEF T, Acc
    <3> QED
      BY <1>0
  <2> HIDE DEF Acc
  <2> QED
    BY <2>3, <2>4
<1>3. 0 \in T
  BY <1>0, <1>1
<1>4. 0..N \subseteq T
  <2> HIDE DEF T
  <2> QED
    BY <1>0, <1>2, <1>3, Prefixes
<1>5. g[N] \in Acc
  BY <1>0, <1>4
<1>6. tiers # <<>> => N \in 1..N
  BY <1>0, EmptySeq DEF N
<1> DEFINE x == g[N].left
           y == tiers[N].rate
           z == g[N].total
<1>7. x \in Int /\ z \in Int
  BY <1>5
<1>8. tiers # <<>> => y \in Int
  BY <1>0, <1>6
<1>9. Tiered(tiers, qty) = IF tiers = <<>> THEN 0 ELSE z + x * y
  BY <1>1
<1> HIDE DEF x, y, z
<1>10. tiers # <<>> => x * y \in Int
  BY <1>7, <1>8, TimesTyped
<1> QED
  BY <1>7, <1>9, <1>10

-----------------------------------------------------------------------------
(* Amounts are whole numbers of units.                                      *)

Billable(s) ==
    {s.billed, s.qty, s.list, s.ondemand, s.net, s.credit, s.support, s.tax} \subseteq Int

Effective(r) == /\ {r.prio, r.order, r.rule, r.p, r.x} \subseteq Int
                /\ r.tiers \in Seq([upTo : Int, rate : Int])

\* The magnitude of a number is its distance from 0.
LEMMA MagnitudeIs ==
    ASSUME NEW n \in Int
    PROVE  /\ Magnitude(n) = IF n < 0 THEN -n ELSE n
           /\ Magnitude(n) \in Nat
  BY DEF Magnitude, Sign

\* A percentage is rounded to whole units.
LEMMA PctTyped ==
    ASSUME NEW n \in Int, NEW percent \in Int
    PROVE  Pct(n, percent) \in Int
<1> DEFINE m == n * percent
           d == (2 * Magnitude(m) + 100) \div 200
<1>1. m \in Int
  OBVIOUS
<1>2. Pct(n, percent) = Sign(m) * d
  BY DEF Pct
<1> HIDE DEF m
<1>3. 2 * Magnitude(m) + 100 \in Int
  BY <1>1, MagnitudeIs
<1>4. d \in Int
  BY <1>3
<1>5. Sign(m) \in Int
  BY DEF Sign
<1> HIDE DEF d
<1> QED
  BY <1>2, <1>4, <1>5, TimesTyped

\* What a rule adds is a whole number of units.
LEMMA AdditiveTyped ==
    ASSUME NEW r, Effective(r), NEW s, Billable(s), NEW input \in Int
    PROVE  Additive(r, s, input) \in Int
<1>1. r.p \in Int /\ r.x \in Int /\ s.credit \in Int /\ s.support \in Int
  BY DEF Effective, Billable
<1>2. Pct(input, r.p) \in Int /\ Pct(s.credit, r.p) \in Int
  BY <1>1, PctTyped
<1>3. Magnitude(r.p) \in Int
  BY <1>1, MagnitudeIs
<1>4. /\ -Pct(input, r.p) \in Int /\ Pct(input, r.p) + r.x \in Int
      /\ s.credit - Pct(s.credit, r.p) \in Int /\ -s.support \in Int
      /\ r.p - s.support \in Int /\ -Magnitude(r.p) \in Int
  BY <1>1, <1>2, <1>3
<1> QED
  BY <1>1, <1>2, <1>4 DEF Additive

\* So is what a rule replaces the amount with.
LEMMA ReplacementTyped ==
    ASSUME NEW r, Effective(r), NEW s, Billable(s)
    PROVE  Replacement(r, s) \in Int
<1>1. r.p \in Int /\ s.qty \in Int
  BY DEF Effective, Billable
<1>2. Tiered(r.tiers, s.qty) \in Int
  BY <1>1, TieredTyped DEF Effective
<1>3. r.p * s.qty \in Int
  BY <1>1, TimesTyped
<1> QED
  BY <1>1, <1>2, <1>3 DEF Replacement

\* So is the basis of a slice.
LEMMA BasisTyped ==
    ASSUME NEW s, Billable(s), NEW basis
    PROVE  ContractBasis(s, basis) \in Int
  BY DEF Billable, ContractBasis

\* The amount after a rule.
LEMMA StepAmount ==
    ASSUME NEW r, NEW s, NEW acc, NEW basis
    PROVE  LET input == IF r.basis = "original_input" THEN ContractBasis(s, basis) ELSE acc.amount
           IN  Step(r, s, acc, basis).amount
               = IF Replaces(r) THEN Replacement(r, s) ELSE acc.amount + Additive(r, s, input)
  BY DEF Step

\* A step leads from a whole amount to a whole amount.
LEMMA StepTyped ==
    ASSUME NEW r, Effective(r), NEW s, Billable(s), NEW acc, acc.amount \in Int, NEW basis
    PROVE  Step(r, s, acc, basis).amount \in Int
<1> DEFINE input == IF r.basis = "original_input" THEN ContractBasis(s, basis) ELSE acc.amount
<1>1. Step(r, s, acc, basis).amount
      = IF Replaces(r) THEN Replacement(r, s) ELSE acc.amount + Additive(r, s, input)
  BY StepAmount
<1>2. input \in Int
  BY BasisTyped
<1> HIDE DEF input
<1> QED
  BY <1>1, <1>2, AdditiveTyped, ReplacementTyped

\* A list of rules the engine can apply.
RuleList(rules) == /\ Len(rules) \in Nat /\ DOMAIN rules = 1..Len(rules)
                   /\ \A i \in DOMAIN rules : Effective(rules[i])

\* A slice is priced at a whole number of units, after any number of rules.
LEMMA PricedTyped ==
    ASSUME NEW s, Billable(s), NEW ordered, RuleList(ordered), NEW basis
    PROVE  /\ \A n \in 0..Len(ordered) : Pricing(s, ordered, basis)[n].amount \in Int
           /\ PricedSlice(s, ordered, basis).amount \in Int
<1> DEFINE g == Pricing(s, ordered, basis)
           S == {n \in 0..Len(ordered) : g[n].amount \in Int}
<1>0. Len(ordered) \in Nat /\ \A n \in 1..Len(ordered) : Effective(ordered[n])
  BY DEF RuleList
<1>1. PricesStep(s, ordered, basis, g) /\ PricedSlice(s, ordered, basis) = g[Len(ordered)]
  BY <1>0, PricingSteps
<1> HIDE DEF g
<1>2. 0 \in S
  BY <1>0, <1>1, BasisTyped DEF PricesStep
<1>3. ASSUME NEW n \in 0..(Len(ordered) - 1), n \in S PROVE n + 1 \in S
  <2>1. /\ n + 1 \in 1..Len(ordered) /\ g[n].amount \in Int
        /\ g[n + 1] = IF Matches(ordered[n + 1], s) THEN Step(ordered[n + 1], s, g[n], basis)
                      ELSE g[n]
    BY <1>0, <1>1, <1>3 DEF PricesStep
  <2>2. Step(ordered[n + 1], s, g[n], basis).amount \in Int
    BY <1>0, <2>1, StepTyped
  <2> QED
    BY <1>0, <2>1, <2>2
<1>4. 0..Len(ordered) \subseteq S
  <2> HIDE DEF S
  <2> QED
    BY <1>0, <1>2, <1>3, Prefixes
<1> QED
  BY <1>0, <1>1, <1>4 DEF g

\* Rules on the original input compose.
LEMMA OriginalComposes ==
    ASSUME NEW s, Billable(s), NEW ordered, RuleList(ordered), NEW basis,
           \A n \in DOMAIN ordered : ordered[n].basis = "original_input" /\ ~Replaces(ordered[n]),
           NEW parts, Len(parts) = Len(ordered),
           \A n \in 1..Len(ordered) :
              parts[n] = IF Matches(ordered[n], s)
                         THEN Additive(ordered[n], s, ContractBasis(s, basis)) ELSE 0
    PROVE  /\ Numbers(parts)
           /\ PricedSlice(s, ordered, basis).amount = ContractBasis(s, basis) + SumOf(parts)
<1> DEFINE g == Pricing(s, ordered, basis)
           b == ContractBasis(s, basis)
           added == [n \in 0..Len(ordered) |-> g[n].amount - b]
<1>0. Len(ordered) \in Nat /\ \A n \in 1..Len(ordered) : Effective(ordered[n])
  BY DEF RuleList
<1>1. b \in Int /\ \A n \in 0..Len(ordered) : g[n].amount \in Int
  BY BasisTyped, PricedTyped
<1>2. PricesStep(s, ordered, basis, g) /\ PricedSlice(s, ordered, basis) = g[Len(ordered)]
  BY <1>0, PricingSteps
<1>3. \A n \in 1..Len(ordered) : Additive(ordered[n], s, b) \in Int
  BY <1>0, <1>1, AdditiveTyped
<1>4. Numbers(parts)
  BY <1>0, <1>3 DEF Numbers
<1> HIDE DEF g
<1>5. ASSUME NEW n \in 1..Len(ordered) PROVE added[n] = added[n - 1] + parts[n]
  <2>1. n \in 0..Len(ordered) /\ n - 1 \in 0..Len(ordered) /\ n \in DOMAIN ordered
    BY <1>0 DEF RuleList
  <2>2. g[n].amount = IF Matches(ordered[n], s) THEN g[n - 1].amount + Additive(ordered[n], s, b)
                      ELSE g[n - 1].amount
    <3>1. g[n] = IF Matches(ordered[n], s) THEN Step(ordered[n], s, g[n - 1], basis)
                 ELSE g[n - 1]
      BY <1>2 DEF PricesStep
    <3>2. Step(ordered[n], s, g[n - 1], basis).amount
          = g[n - 1].amount + Additive(ordered[n], s, b)
      BY <2>1, StepAmount
    <3> HIDE DEF b
    <3> QED
      BY <3>1, <3>2
  <2>3. g[n].amount = g[n - 1].amount + parts[n]
    BY <1>1, <1>3, <2>1, <2>2
  <2>4. g[n].amount \in Int /\ g[n - 1].amount \in Int /\ parts[n] \in Int
    BY <1>0, <1>1, <1>4, <2>1 DEF Numbers
  <2>5. added[n] = g[n].amount - b /\ added[n - 1] = g[n - 1].amount - b
    BY <2>1
  <2> HIDE DEF added, b
  <2> QED
    BY <1>1, <2>3, <2>4, <2>5
<1>6. added[0] = 0 /\ added[Len(ordered)] = g[Len(ordered)].amount - b
  BY <1>0, <1>1, <1>2 DEF PricesStep
<1> HIDE DEF added
<1>7. SumOf(parts) = added[Len(ordered)]
  BY <1>4, <1>5, <1>6, SumIs
<1>8. g[Len(ordered)].amount \in Int
  BY <1>0, <1>1
<1> HIDE DEF b
<1>9. PricedSlice(s, ordered, basis).amount = b + SumOf(parts)
  BY <1>1, <1>2, <1>6, <1>7, <1>8
<1> QED
  BY <1>4, <1>9 DEF b

-----------------------------------------------------------------------------
(* Rounding, limits and the items of a run.                                 *)

\* Rounding is to whole cents and moves an amount by less than a cent, to the
\* nearest by at most half of one.
THEOREM QuantizedNear ==
    ASSUME NEW n \in Int, NEW mode
    PROVE  /\ Quantized(n, mode) \in Int
           /\ Quantized(n, mode) - n \in (1 - Cent)..(Cent - 1)
           /\ mode \in {"half_up", "half_down"} =>
                2 * (Quantized(n, mode) - n) \in (-Cent)..Cent
<1> DEFINE a == Magnitude(n)
           down == a \div Cent
           left == a % Cent
           up == CASE mode = "half_down" -> 2 * left > Cent
                   [] mode = "up_abs"    -> left > 0
                   [] mode = "truncate"  -> FALSE
                   [] mode = "floor"     -> left > 0 /\ n < 0
                   [] mode = "ceil"      -> left > 0 /\ n > 0
                   [] OTHER              -> 2 * left >= Cent
           cents == IF up THEN down + 1 ELSE down
<1>1. Cent \in Nat \ {0} /\ a \in Nat
  BY EngineAssumption, MagnitudeIs
<1>2. down \in Nat /\ left \in 0..(Cent - 1) /\ a = Cent * down + left
  <2> HIDE DEF a
  <2> QED
    BY <1>1
<1>3. Quantized(n, mode) = Sign(n) * Cent * cents
  BY DEF Quantized
<1> HIDE DEF down, left
<1>4. /\ up => left > 0
      /\ mode = "half_up" => (up <=> 2 * left >= Cent)
      /\ mode = "half_down" => (up <=> 2 * left > Cent)
  BY <1>1, <1>2
<1> HIDE DEF up
<1> DEFINE base == Cent * down
<1>5. base \in Nat /\ Cent * (down + 1) = base + Cent
  BY <1>1, <1>2
<1>6. Cent * cents = (IF up THEN base + Cent ELSE base) /\ cents \in Nat
  BY <1>2, <1>5
<1>7. Quantized(n, mode) = (IF n < 0 THEN -(Cent * cents) ELSE Cent * cents)
  BY <1>1, <1>3, <1>6 DEF Sign
<1>8. a = (IF n < 0 THEN -n ELSE n)
  BY MagnitudeIs
<1> HIDE DEF cents, base, a
<1>9. a = base + left
  BY <1>2 DEF base
<1> DEFINE d == (IF up THEN base + Cent ELSE base) - a
<1>10. /\ d \in Int /\ d = (IF up THEN Cent - left ELSE -left)
       /\ Quantized(n, mode) - n = (IF n < 0 THEN -d ELSE d)
       /\ Quantized(n, mode) \in Int
  BY <1>1, <1>2, <1>5, <1>6, <1>7, <1>8, <1>9
<1> HIDE DEF d
<1>11. d \in (1 - Cent)..(Cent - 1)
  BY <1>1, <1>2, <1>4, <1>10
<1>12. mode \in {"half_up", "half_down"} => 2 * d \in (-Cent)..Cent
  BY <1>1, <1>2, <1>4, <1>10
<1> QED
  BY <1>1, <1>10, <1>11, <1>12

\* Lists whose members differ by little have sums that differ by little.
LEMMA SumsNear ==
    ASSUME NEW a, Numbers(a), NEW b, Numbers(b), Len(a) = Len(b), NEW k \in Int, NEW f \in Int,
           \A n \in 1..Len(a) : f * (a[n] - b[n]) \in (-k)..k
    PROVE  f * (SumOf(a) - SumOf(b)) \in (-(k * Len(a)))..(k * Len(a))
<1> DEFINE A == Running(a)
           B == Running(b)
           S == {n \in 0..Len(a) : f * (A[n] - B[n]) \in (-(k * n))..(k * n)}
<1>0. Len(a) \in Nat /\ \A n \in 1..Len(a) : a[n] \in Int /\ b[n] \in Int
  BY DEF Numbers
<1>1. /\ A[0] = 0 /\ B[0] = 0
      /\ \A n \in 1..Len(a) : A[n] = A[n - 1] + a[n] /\ B[n] = B[n - 1] + b[n]
      /\ \A n \in 0..Len(a) : A[n] \in Int /\ B[n] \in Int
  BY RunningSteps
<1>2. SumOf(a) = A[Len(a)] /\ SumOf(b) = B[Len(a)]
  BY SumIsRunning
<1> HIDE DEF A, B
<1>3. 0 \in S
  BY <1>0, <1>1
<1>4. ASSUME NEW n \in 0..(Len(a) - 1), n \in S PROVE n + 1 \in S
  <2> DEFINE m == n + 1
             d == A[n] - B[n]
             e == a[m] - b[m]
  <2>1. n \in Int /\ m \in 1..Len(a) /\ n \in 0..Len(a) /\ m \in 0..Len(a) /\ m - 1 = n
    BY <1>0
  <2>2. A[n] \in Int /\ B[n] \in Int /\ a[m] \in Int /\ b[m] \in Int
    BY <1>0, <1>1, <2>1
  <2>3. A[m] = A[n] + a[m] /\ B[m] = B[n] + b[m]
    <3>1. A[m] = A[m - 1] + a[m] /\ B[m] = B[m - 1] + b[m]
      BY <1>1, <2>1
    <3> QED
      BY <2>1, <3>1
  <2>4. f * d \in (-(k * n))..(k * n)
    BY <1>4
  <2>5. f * e \in (-k)..k
    BY <2>1
  <2> HIDE DEF m
  <2>6. d \in Int /\ e \in Int /\ A[m] - B[m] = d + e
    <3> DEFINE w == A[n]
               x == a[m]
               y == B[n]
               z == b[m]
    <3>1. A[m] - B[m] = (w + x) - (y + z) /\ d = w - y /\ e = x - z
      BY <2>3
    <3>2. w \in Int /\ x \in Int /\ y \in Int /\ z \in Int
      BY <2>2
    <3> HIDE DEF w, x, y, z, d, e
    <3> QED
      BY <3>1, <3>2
  <2> HIDE DEF d, e
  <2>7. f * (A[m] - B[m]) = f * d + f * e /\ k * m = k * n + k
    BY <2>1, <2>6 DEF m
  <2>8. k * n \in Int /\ f * d \in Int /\ f * e \in Int
    BY <2>1, <2>6
  <2>9. f * d + f * e \in (-(k * n + k))..(k * n + k)
    BY <2>4, <2>5, <2>8
  <2>10. f * (A[m] - B[m]) \in (-(k * m))..(k * m)
    BY <2>7, <2>9
  <2> QED
    BY <2>1, <2>10 DEF m
<1>5. 0..Len(a) \subseteq S
  <2> HIDE DEF S
  <2> QED
    BY <1>0, <1>3, <1>4, Prefixes
<1>6. Len(a) \in 0..Len(a)
  BY <1>0
<1>7. Len(a) \in S
  <2> HIDE DEF S
  <2> QED
    BY <1>5, <1>6
<1> QED
  BY <1>2, <1>7

\* A sum takes in one more member.
LEMMA SumAppend ==
    ASSUME NEW d \in Seq(Int), NEW x \in Int
    PROVE  SumOf(Append(d, x)) = SumOf(d) + x
<1> DEFINE e == Append(d, x)
           g == [n \in 0..Len(e) |-> IF n = Len(e) THEN SumOf(d) + x ELSE Running(d)[n]]
<1>1. /\ Len(d) \in Nat /\ Len(e) = Len(d) + 1
      /\ \A n \in 1..Len(e) : e[n] = IF n = Len(e) THEN x ELSE d[n]
  BY AppendProperties, LenProperties
<1>2. Numbers(d) /\ Numbers(e)
  BY <1>1, ElementOfSeq DEF Numbers
<1> HIDE DEF e
<1>3. SumOf(d) = Running(d)[Len(d)] /\ SumOf(d) \in Int
  BY <1>2, SumIsRunning, SumTyped
<1>4. g[0] = 0
  BY <1>1, <1>2, RunningSteps
<1>5. ASSUME NEW n \in 1..Len(e) PROVE g[n] = g[n - 1] + e[n]
  <2>1. n \in 0..Len(e) /\ n - 1 \in 0..Len(e) /\ n - 1 # Len(e)
    BY <1>1
  <2>2. g[n - 1] = Running(d)[n - 1]
    BY <2>1
  <2>3. CASE n = Len(e)
    <3>1. g[n] = SumOf(d) + x /\ e[n] = x /\ n - 1 = Len(d)
      BY <1>1, <2>1, <2>3
    <3> HIDE DEF g
    <3> QED
      BY <1>3, <2>2, <3>1
  <2>4. CASE n # Len(e)
    <3>1. g[n] = Running(d)[n] /\ e[n] = d[n] /\ n \in 1..Len(d)
      BY <1>1, <2>1, <2>4
    <3>2. Running(d)[n] = Running(d)[n - 1] + d[n]
      BY <1>2, <3>1, RunningSteps
    <3> HIDE DEF g
    <3> QED
      BY <2>2, <3>1, <3>2
  <2> QED
    BY <2>3, <2>4
<1>6. g[Len(e)] = SumOf(d) + x
  BY <1>1
<1> HIDE DEF g
<1>7. SumOf(e) = SumOf(d) + x
  BY <1>2, <1>4, <1>5, <1>6, SumIs
<1> QED
  BY <1>7 DEF e

\* Two lists one after the other.
LEMMA SumConcat ==
    ASSUME NEW a \in Seq(Int), NEW b \in Seq(Int)
    PROVE  SumOf(a \o b) = SumOf(a) + SumOf(b)
<1> DEFINE c == a \o b
           N == Len(a)
           g == [n \in 0..Len(c) |-> IF n <= N THEN Running(a)[n] ELSE SumOf(a) + Running(b)[n - N]]
<1>1. /\ N \in Nat /\ Len(b) \in Nat /\ Len(c) = N + Len(b)
      /\ \A n \in 1..Len(c) : c[n] = IF n <= N THEN a[n] ELSE b[n - N]
      /\ c \in Seq(Int)
  BY ConcatProperties, LenProperties
<1>2. Numbers(a) /\ Numbers(b) /\ Numbers(c)
  BY <1>1, ElementOfSeq DEF Numbers
<1> HIDE DEF c
<1>3. SumOf(a) = Running(a)[N] /\ SumOf(a) \in Int /\ SumOf(b) = Running(b)[Len(b)]
  BY <1>2, SumIsRunning, SumTyped
<1> HIDE DEF N
<1>4. g[0] = 0
  BY <1>1, <1>2, RunningSteps
<1>5. Running(b)[0] = 0 /\ \A n \in 0..Len(b) : Running(b)[n] \in Int
  BY <1>2, RunningSteps
<1>6. ASSUME NEW n \in 1..Len(c) PROVE g[n] = g[n - 1] + c[n]
  <2>1. n \in 0..Len(c) /\ n - 1 \in 0..Len(c) /\ n \in Int
    BY <1>1
  <2>2. CASE n <= N
    <3>1. g[n] = Running(a)[n] /\ c[n] = a[n] /\ n \in 1..N /\ g[n - 1] = Running(a)[n - 1]
      BY <1>1, <2>1, <2>2
    <3>2. Running(a)[n] = Running(a)[n - 1] + a[n]
      BY <1>2, <3>1, RunningSteps DEF N
    <3> HIDE DEF g
    <3> QED
      BY <3>1, <3>2
  <2>3. CASE n > N
    <3> DEFINE m == n - N
    <3>1. /\ g[n] = SumOf(a) + Running(b)[m] /\ c[n] = b[m] /\ m \in 1..Len(b)
          /\ n - 1 <= N => n - 1 = N /\ m - 1 = 0
      BY <1>1, <2>1, <2>3
    <3>2. g[n - 1] = SumOf(a) + Running(b)[m - 1]
      <4>1. CASE n - 1 <= N
        <5>1. g[n - 1] = Running(a)[N] /\ m - 1 = 0
          BY <2>1, <3>1, <4>1
        <5> HIDE DEF g, m
        <5> QED
          BY <1>3, <1>5, <5>1
      <4>2. CASE ~(n - 1 <= N)
        <5>1. g[n - 1] = SumOf(a) + Running(b)[(n - 1) - N] /\ (n - 1) - N = m - 1
          BY <1>1, <2>1, <4>2
        <5> HIDE DEF g, m
        <5> QED
          BY <5>1
      <4> QED
        BY <4>1, <4>2
    <3>3. Running(b)[m] = Running(b)[m - 1] + b[m]
      BY <1>2, <3>1, RunningSteps
    <3>4. Running(b)[m - 1] \in Int /\ b[m] \in Int
      BY <1>1, <1>2, <1>5, <3>1 DEF Numbers
    <3> HIDE DEF g, m
    <3> QED
      BY <1>3, <3>1, <3>2, <3>3, <3>4
  <2> QED
    BY <1>1, <2>1, <2>2, <2>3
<1>7. g[Len(c)] = SumOf(a) + SumOf(b)
  <2>1. CASE Len(b) = 0
    BY <1>1, <1>3, <1>5, <2>1
  <2>2. CASE Len(b) # 0
    BY <1>1, <1>3, <2>2
  <2> QED
    BY <2>1, <2>2
<1> HIDE DEF g
<1>8. SumOf(c) = SumOf(a) + SumOf(b)
  BY <1>2, <1>4, <1>6, <1>7, SumIs
<1> QED
  BY <1>8 DEF c

LimitTypes == {"minimum_monthly", "maximum_cap"}

\* What the last limit says of a total.
Respects(total, r, mode) ==
    LET limit == Quantized(r.p, mode)
    IN  IF r.type = "maximum_cap" THEN total <= limit ELSE total <= 0 \/ total >= limit

\* The sum of an empty list is 0.
LEMMA SumOfEmpty == SumOf(<<>>) = 0
<1> DEFINE g == [n \in 0..0 |-> 0]
<1>1. Numbers(<<>>) /\ Len(<<>>) = 0
  BY DEF Numbers
<1>2. g[0] = 0
  OBVIOUS
<1> HIDE DEF g
<1>3. \A n \in 1..Len(<<>>) : g[n] = g[n - 1] + <<>>[n]
  BY <1>1
<1> QED
  BY <1>1, <1>2, <1>3, SumIs

\* The subtotal and the items of the limits so far come to the total.
Adjusted(subtotal, acc) ==
    /\ acc.total \in Int /\ acc.deltas \in Seq(Int)
    /\ acc.total = subtotal + SumOf(acc.deltas)

\* A minimum or a cap adds an item for what it changes and is then respected.
LEMMA LimitAdjusts ==
    ASSUME NEW subtotal \in Int, NEW acc, Adjusted(subtotal, acc), NEW r, r.p \in Int, NEW mode
    PROVE  /\ Adjusted(subtotal, Limit(acc, r, mode))
           /\ r.type \in LimitTypes => Respects(Limit(acc, r, mode).total, r, mode)
           /\ r.type \notin LimitTypes => Limit(acc, r, mode) = acc
<1> DEFINE limit == Quantized(r.p, mode)
           applies == \/ r.type = "minimum_monthly" /\ acc.total > 0 /\ acc.total < limit
                      \/ r.type = "maximum_cap" /\ acc.total > limit
           x == limit - acc.total
           after == [total |-> limit, deltas |-> Append(acc.deltas, x)]
<1>1. limit \in Int /\ acc.total \in Int /\ acc.deltas \in Seq(Int) /\ SumOf(acc.deltas) \in Int
  <2>1. limit \in Int
    BY QuantizedNear
  <2>2. acc.total \in Int /\ acc.deltas \in Seq(Int)
    BY DEF Adjusted
  <2>3. Numbers(acc.deltas)
    BY <2>2, LenProperties, ElementOfSeq DEF Numbers
  <2> QED
    BY <2>1, <2>2, <2>3, SumTyped
<1>2. Limit(acc, r, mode) = IF applies THEN after ELSE acc
  BY DEF Limit
<1>3. Respects(acc.total, r, mode)
      <=> IF r.type = "maximum_cap" THEN acc.total <= limit
          ELSE acc.total <= 0 \/ acc.total >= limit
  BY DEF Respects
<1>4. Respects(limit, r, mode)
      <=> IF r.type = "maximum_cap" THEN limit <= limit ELSE limit <= 0 \/ limit >= limit
  BY DEF Respects
<1> HIDE DEF limit
<1>5. CASE applies
  <2>1. x \in Int /\ acc.total + x = limit
    BY <1>1
  <2>2. Append(acc.deltas, x) \in Seq(Int)
    BY <1>1, <2>1, AppendProperties
  <2>3. SumOf(Append(acc.deltas, x)) = SumOf(acc.deltas) + x
    BY <1>1, <2>1, SumAppend
  <2>4. after.total = limit /\ after.deltas = Append(acc.deltas, x)
    OBVIOUS
  <2>5. acc.total = subtotal + SumOf(acc.deltas)
    BY DEF Adjusted
  <2> HIDE DEF x, after
  <2>6. limit = subtotal + (SumOf(acc.deltas) + x)
    BY <1>1, <2>1, <2>5
  <2>7. Adjusted(subtotal, after)
    BY <1>1, <2>2, <2>3, <2>4, <2>6 DEF Adjusted
  <2>8. r.type \in LimitTypes
    BY <1>5 DEF LimitTypes
  <2>9. Respects(limit, r, mode)
    BY <1>1, <1>4
  <2> HIDE DEF applies
  <2> QED
    BY <1>2, <1>5, <2>4, <2>7, <2>8, <2>9
<1>6. CASE ~applies
  <2>1. r.type \in LimitTypes => Respects(acc.total, r, mode)
    BY <1>1, <1>3, <1>6 DEF LimitTypes
  <2> HIDE DEF applies, after
  <2> QED
    BY <1>2, <1>6, <2>1
<1> QED
  BY <1>5, <1>6

\* The limits account for all they change.
LEMMA LimitedAdjusts ==
    ASSUME NEW subtotal \in Int, NEW ordered, RuleList(ordered), NEW mode
    PROVE  /\ \A n \in 0..Len(ordered) : Adjusted(subtotal, Limiting(subtotal, ordered, mode)[n])
           /\ Adjusted(subtotal, Limited(subtotal, ordered, mode))
<1> DEFINE g == Limiting(subtotal, ordered, mode)
           S == {n \in 0..Len(ordered) : Adjusted(subtotal, g[n])}
<1>0. Len(ordered) \in Nat /\ \A n \in 1..Len(ordered) : ordered[n].p \in Int
  BY DEF RuleList, Effective
<1>1. LimitsStep(subtotal, ordered, mode, g) /\ Limited(subtotal, ordered, mode) = g[Len(ordered)]
  BY <1>0, LimitingSteps
<1> HIDE DEF g
<1>2. 0 \in S
  <2>1. g[0].total = subtotal /\ g[0].deltas = <<>>
    BY <1>1 DEF LimitsStep
  <2>2. <<>> \in Seq(Int)
    BY EmptySeq
  <2>3. SumOf(g[0].deltas) = 0
    BY <2>1, SumOfEmpty
  <2>4. Adjusted(subtotal, g[0])
    BY <2>1, <2>2, <2>3 DEF Adjusted
  <2> QED
    BY <1>0, <2>4
<1>3. ASSUME NEW n \in 0..(Len(ordered) - 1), n \in S PROVE n + 1 \in S
  <2>1. n + 1 \in 1..Len(ordered) /\ n + 1 \in 0..Len(ordered) /\ n + 1 - 1 = n
    BY <1>0
  <2>2. g[n + 1] = Limit(g[n + 1 - 1], ordered[n + 1], mode)
    BY <1>1, <2>1 DEF LimitsStep
  <2>3. Adjusted(subtotal, g[n]) /\ ordered[n + 1].p \in Int
    BY <1>0, <1>3, <2>1
  <2>4. Adjusted(subtotal, Limit(g[n], ordered[n + 1], mode))
    BY <2>3, LimitAdjusts
  <2> QED
    BY <2>1, <2>2, <2>4
<1>4. 0..Len(ordered) \subseteq S
  <2> HIDE DEF S
  <2> QED
    BY <1>0, <1>2, <1>3, Prefixes
<1> QED
  BY <1>0, <1>1, <1>4 DEF g

\* The last limit has the last word.
LEMMA LastLimit ==
    ASSUME NEW subtotal \in Int, NEW ordered, RuleList(ordered), NEW mode,
           NEW m \in DOMAIN ordered, ordered[m].type \in LimitTypes,
           \A n \in DOMAIN ordered : n > m => ordered[n].type \notin LimitTypes
    PROVE  Respects(Limited(subtotal, ordered, mode).total, ordered[m], mode)
<1> DEFINE g == Limiting(subtotal, ordered, mode)
           N == Len(ordered)
           S == {n \in 0..(N - m) : g[m + n].total = g[m].total}
<1>0. /\ N \in Nat /\ m \in 1..N /\ m \in Nat /\ N - m \in Nat
      /\ \A n \in 1..N : ordered[n].p \in Int /\ (n > m => ordered[n].type \notin LimitTypes)
  <2>1. N \in Nat /\ DOMAIN ordered = 1..N /\ \A n \in 1..N : Effective(ordered[n])
    BY DEF RuleList
  <2>2. \A n \in 1..N : ordered[n].p \in Int
    BY <2>1 DEF Effective
  <2>3. m \in 1..N
    BY <2>1
  <2> HIDE DEF N
  <2>4. m \in Nat /\ N - m \in Nat
    BY <2>1, <2>3
  <2> QED
    BY <2>1, <2>2, <2>3, <2>4
<1>1. LimitsStep(subtotal, ordered, mode, g) /\ Limited(subtotal, ordered, mode) = g[N]
  BY <1>0, LimitingSteps
<1>2. \A n \in 0..N : Adjusted(subtotal, g[n])
  BY LimitedAdjusts
<1>3. \A n \in 1..N : g[n] = Limit(g[n - 1], ordered[n], mode)
  BY <1>1 DEF LimitsStep
<1> HIDE DEF g, N
<1>4. Respects(g[m].total, ordered[m], mode)
  <2>1. m - 1 \in 0..N
    BY <1>0
  <2>2. Adjusted(subtotal, g[m - 1]) /\ ordered[m].p \in Int
    BY <1>0, <1>2, <2>1
  <2>3. g[m] = Limit(g[m - 1], ordered[m], mode)
    BY <1>0, <1>3
  <2>4. Respects(Limit(g[m - 1], ordered[m], mode).total, ordered[m], mode)
    BY <2>2, LimitAdjusts
  <2> QED
    BY <2>3, <2>4
<1>5. 0 \in S
  BY <1>0
<1>6. ASSUME NEW n \in 0..((N - m) - 1), n \in S PROVE n + 1 \in S
  <2> DEFINE k == m + (n + 1)
  <2>1. /\ k \in 1..N /\ k > m /\ k - 1 = m + n /\ k - 1 \in 0..N /\ n + 1 \in 0..(N - m)
    BY <1>0
  <2> HIDE DEF k
  <2>2. g[k] = Limit(g[k - 1], ordered[k], mode)
    BY <1>3, <2>1
  <2>3. Adjusted(subtotal, g[k - 1]) /\ ordered[k].p \in Int /\ ordered[k].type \notin LimitTypes
    BY <1>0, <1>2, <2>1
  <2>4. Limit(g[k - 1], ordered[k], mode) = g[k - 1]
    BY <2>3, LimitAdjusts
  <2>5. g[k].total = g[m].total
    BY <1>6, <2>1, <2>2, <2>4
  <2> QED
    BY <2>1, <2>5 DEF k
<1>7. N - m \in S
  <2> HIDE DEF S
  <2>1. 0..(N - m) \subseteq S
    BY <1>0, <1>5, <1>6, Prefixes
  <2> QED
    BY <1>0, <2>1
<1>8. m + (N - m) = N
  BY <1>0
<1>9. g[N].total = g[m].total
  BY <1>7, <1>8
<1> QED
  BY <1>1, <1>4, <1>9

Rounded(a, mode) == [i \in DOMAIN a |-> Quantized(a[i], mode)]

\* Rounding each member keeps a list's length.
LEMMA RoundedTyped ==
    ASSUME NEW a \in Seq(Int), NEW mode
    PROVE  /\ Rounded(a, mode) \in Seq(Int) /\ Len(Rounded(a, mode)) = Len(a)
           /\ \A i \in 1..Len(a) : Rounded(a, mode)[i] = Quantized(a[i], mode)
<1> DEFINE w == Rounded(a, mode)
<1>1. Len(a) \in Nat /\ DOMAIN a = 1..Len(a) /\ \A i \in 1..Len(a) : a[i] \in Int
  BY LenProperties, ElementOfSeq
<1>2. w = [i \in 1..Len(a) |-> Quantized(a[i], mode)]
  BY <1>1 DEF Rounded
<1> HIDE DEF w
<1>3. ASSUME NEW i \in 1..Len(a) PROVE w[i] = Quantized(a[i], mode) /\ w[i] \in Int
  BY <1>1, <1>2, QuantizedNear
<1>4. w \in [1..Len(a) -> Int]
  BY <1>2, <1>3
<1>5. w \in Seq(Int)
  BY <1>1, <1>4, IsASeq
<1>6. w = [i \in 1..Len(a) |-> w[i]]
  BY <1>4
<1>7. Len(w) = Len(a)
  BY <1>1, <1>6, LenIs
<1> QED
  BY <1>3, <1>5, <1>7 DEF w

\* Two lists may be joined before or after they are rounded.
LEMMA RoundedJoin ==
    ASSUME NEW a \in Seq(Int), NEW b \in Seq(Int), NEW mode
    PROVE  Rounded(a, mode) \o Rounded(b, mode) = Rounded(a \o b, mode)
<1> DEFINE u == Rounded(a, mode)
           v == Rounded(b, mode)
           c == a \o b
           w == Rounded(c, mode)
           j == u \o v
<1>1. /\ u \in Seq(Int) /\ Len(u) = Len(a) /\ \A i \in 1..Len(a) : u[i] = Quantized(a[i], mode)
      /\ v \in Seq(Int) /\ Len(v) = Len(b) /\ \A i \in 1..Len(b) : v[i] = Quantized(b[i], mode)
      /\ Len(a) \in Nat /\ Len(b) \in Nat
  BY RoundedTyped, LenProperties
<1> HIDE DEF u, v
<1>2. /\ c \in Seq(Int) /\ Len(c) = Len(a) + Len(b)
      /\ \A i \in 1..(Len(a) + Len(b)) : c[i] = IF i <= Len(a) THEN a[i] ELSE b[i - Len(a)]
  BY ConcatProperties
<1>3. /\ j \in Seq(Int) /\ Len(j) = Len(u) + Len(v)
      /\ \A i \in 1..(Len(u) + Len(v)) : j[i] = IF i <= Len(u) THEN u[i] ELSE v[i - Len(u)]
  <2>1. u \in Seq(Int) /\ v \in Seq(Int)
    BY <1>1
  <2> QED
    BY <2>1, ConcatProperties
<1> HIDE DEF c, j
<1>4. /\ w \in Seq(Int) /\ Len(w) = Len(c)
      /\ \A i \in 1..Len(c) : w[i] = Quantized(c[i], mode)
  BY <1>2, RoundedTyped
<1> HIDE DEF w
<1>5. ASSUME NEW i \in 1..(Len(a) + Len(b)) PROVE j[i] = w[i]
  <2>1. j[i] = IF i <= Len(a) THEN u[i] ELSE v[i - Len(a)]
    BY <1>1, <1>3
  <2>2. c[i] = IF i <= Len(a) THEN a[i] ELSE b[i - Len(a)]
    BY <1>2
  <2>3. w[i] = Quantized(c[i], mode)
    BY <1>2, <1>4
  <2>4. CASE i <= Len(a)
    <3>1. i \in 1..Len(a) /\ j[i] = u[i] /\ c[i] = a[i]
      BY <1>1, <2>1, <2>2, <2>4
    <3>2. u[i] = Quantized(a[i], mode)
      BY <1>1, <3>1
    <3> QED
      BY <2>3, <3>1, <3>2
  <2>5. CASE ~(i <= Len(a))
    <3> DEFINE k == i - Len(a)
    <3>1. k \in 1..Len(b)
      BY <1>1, <2>5
    <3>2. j[i] = v[k] /\ c[i] = b[k]
      BY <2>1, <2>2, <2>5
    <3> HIDE DEF k
    <3>3. v[k] = Quantized(b[k], mode)
      BY <1>1, <3>1
    <3> QED
      BY <2>3, <3>2, <3>3
  <2> QED
    BY <2>4, <2>5
<1>6. Len(j) = Len(w) /\ Len(j) = Len(a) + Len(b)
  BY <1>1, <1>2, <1>3, <1>4
<1>7. j = w
  <2>1. \A i \in 1..Len(j) : j[i] = w[i]
    BY <1>5, <1>6
  <2> QED
    BY <1>3, <1>4, <1>6, <2>1, SeqEqual
<1> QED
  BY <1>7 DEF j, w, u, v, c

\* Rounding each member changes a sum by so much.
Off(total, c, mode) ==
    LET n == Len(c)
        error == Magnitude(total - SumOf(c))
    IN  IF mode \in {"half_up", "half_down"} THEN 2 * error <= Cent * n
        ELSE error <= (Cent - 1) * n

\* The sum of a rounded list is off by at most so much.
LEMMA ItemsNear ==
    ASSUME NEW c \in Seq(Int), NEW mode
    PROVE  Off(SumOf(Rounded(c, mode)), c, mode)
<1> DEFINE items == Rounded(c, mode)
           n == Len(c)
           x == SumOf(items)
           y == SumOf(c)
           half == mode \in {"half_up", "half_down"}
<1>1. /\ items \in Seq(Int) /\ Len(items) = n /\ n \in Nat
      /\ \A i \in 1..n : items[i] = Quantized(c[i], mode)
  BY RoundedTyped, LenProperties
<1> HIDE DEF items
<1>2. \A i \in 1..n : items[i] \in Int /\ c[i] \in Int
  BY <1>1, ElementOfSeq
<1>3. Numbers(items) /\ Numbers(c)
  BY <1>1, <1>2 DEF Numbers
<1>4. x \in Int /\ y \in Int /\ Cent \in Nat \ {0}
  BY <1>3, SumTyped, EngineAssumption
<1>5. Cent \in Int /\ Cent - 1 \in Int /\ 2 \in Int /\ 1 \in Int
  BY <1>4
<1>6. Cent * n \in Int /\ (Cent - 1) * n \in Int /\ x - y \in Int
  BY <1>1, <1>4
<1> HIDE DEF half
<1>7. CASE half
  <2>1. ASSUME NEW i \in 1..n PROVE 2 * (items[i] - c[i]) \in (-Cent)..Cent
    BY <1>1, <1>2, <1>7, QuantizedNear DEF half
  <2>2. 2 * (x - y) \in (-(Cent * n))..(Cent * n)
    BY <1>1, <1>3, <1>5, <2>1, SumsNear
  <2> HIDE DEF x, y, n
  <2>3. 2 * Magnitude(x - y) <= Cent * n
    <3> DEFINE d == x - y
               k == Cent * n
    <3>1. d \in Int /\ k \in Int /\ 2 * d \in (-k)..k
      BY <1>6, <2>2
    <3>2. Magnitude(d) = IF d < 0 THEN -d ELSE d
      BY <3>1, MagnitudeIs
    <3> HIDE DEF d, k
    <3>3. 2 * Magnitude(d) <= k
      BY <3>1, <3>2
    <3> QED
      BY <3>3 DEF d, k
  <2> QED
    BY <1>7, <2>3 DEF x, y, n, half, items, Off
<1>8. CASE ~half
  <2>1. ASSUME NEW i \in 1..n PROVE 1 * (items[i] - c[i]) \in (-(Cent - 1))..(Cent - 1)
    <3>1. items[i] = Quantized(c[i], mode) /\ items[i] \in Int /\ c[i] \in Int
      BY <1>1, <1>2
    <3>2. Quantized(c[i], mode) - c[i] \in (1 - Cent)..(Cent - 1)
      BY <3>1, QuantizedNear
    <3> QED
      BY <1>4, <3>1, <3>2
  <2>2. 1 * (x - y) \in (-((Cent - 1) * n))..((Cent - 1) * n)
    BY <1>1, <1>3, <1>5, <2>1, SumsNear
  <2> HIDE DEF x, y, n
  <2>3. Magnitude(x - y) <= (Cent - 1) * n
    <3> DEFINE d == x - y
               k == (Cent - 1) * n
    <3>1. d \in Int /\ k \in Int /\ d \in (-k)..k
      BY <1>6, <2>2
    <3>2. Magnitude(d) = IF d < 0 THEN -d ELSE d
      BY <3>1, MagnitudeIs
    <3> HIDE DEF d, k
    <3>3. Magnitude(d) <= k
      BY <3>1, <3>2
    <3> QED
      BY <3>3 DEF d, k
  <2> QED
    BY <1>8, <2>3 DEF x, y, n, half, items, Off
<1> QED
  BY <1>7, <1>8

-----------------------------------------------------------------------------
(* What a month comes to.                                                   *)

\* The engine applies each rule of the list once.
LEMMA SortedRules ==
    ASSUME NEW rules, RuleList(rules)
    PROVE  /\ Rules(rules) /\ RuleList(Sorted(rules))
           /\ Len(Sorted(rules)) = Len(rules) /\ DOMAIN Sorted(rules) = DOMAIN rules
           /\ \A n \in DOMAIN rules : Sorted(rules)[n] = rules[Places(rules)[n]]
           /\ Permutes(Places(rules), 1..Len(rules))
<1> DEFINE N == Len(rules)
           D == 1..N
           o == Places(rules)
           w == Sorted(rules)
<1>1. Rules(rules) /\ DOMAIN rules = D /\ N \in Nat /\ \A i \in D : Effective(rules[i])
  BY DEF Rules, RuleList, Effective, Keyed
<1>2. /\ o \in [D -> D] /\ \A i \in D : \E n \in D : o[n] = i
      /\ \A m, n \in D : m < n => Before(rules, o[m], o[n])
  BY <1>1, PlacesAre
<1>3. w = [n \in 1..N |-> rules[o[n]]]
  BY <1>1 DEF Sorted
<1> HIDE DEF w, o
<1>4. DOMAIN w = D /\ \A n \in D : w[n] = rules[o[n]]
  BY <1>3
<1>5. w = [n \in 1..N |-> w[n]]
  BY <1>3
<1>6. Len(w) = N
  BY <1>1, <1>5, LenIs
<1>7. RuleList(w)
  <2>1. \A n \in D : o[n] \in D
    BY <1>2
  <2>2. \A n \in D : Effective(w[n])
    BY <1>1, <1>4, <2>1
  <2> QED
    BY <1>1, <1>4, <1>6, <2>2 DEF RuleList
<1>8. ASSUME NEW i \in D, NEW j \in D, o[i] = o[j] PROVE i = j
  <2>1. ASSUME NEW m \in D, NEW n \in D, m < n PROVE o[m] # o[n]
    <3>1. /\ o[m] \in D /\ o[n] \in D /\ Before(rules, o[m], o[n])
      BY <1>2, <2>1
    <3>2. /\ StrictOrder(Earlier(rules), D)
          /\ <<o[m], o[n]>> \in Earlier(rules)
      BY <1>1, <3>1, RulesOrder, BeforeIs
    <3> QED
      BY <3>1, <3>2 DEF StrictOrder
  <2> QED
    BY <1>1, <1>8, <2>1
<1>9. Permutes(o, D)
  BY <1>2, <1>8 DEF Permutes
<1> QED
  BY <1>1, <1>4, <1>6, <1>7, <1>9 DEF w, o

SliceList(slices) == /\ Len(slices) \in Nat /\ DOMAIN slices = 1..Len(slices)
                     /\ \A i \in DOMAIN slices : Billable(slices[i])

\* The items of a run, its limits among them, add up to its subtotal but for rounding.
LEMMA PricedAddsUp ==
    ASSUME NEW slices, SliceList(slices), NEW rules, RuleList(rules), NEW policy
    PROVE  LET out == Priced(slices, rules, policy)
               n == Len(out.items)
               error == Magnitude(SumOf(out.items) - out.total)
           IN  IF policy.mode \in {"half_up", "half_down"} THEN 2 * error <= Cent * n
               ELSE error <= (Cent - 1) * n
<1> DEFINE mode == policy.mode
           ordered == Sorted(rules)
           lines == [i \in DOMAIN slices |-> PricedSlice(slices[i], ordered, policy.basis)]
           amounts == [i \in DOMAIN slices |-> lines[i].amount]
           limited == Limited(SumOf(amounts), ordered, mode)
           deltas == limited.deltas
           out == Priced(slices, rules, policy)
<1>1. /\ out.items = [i \in DOMAIN slices |-> Quantized(lines[i].amount, mode)]
                     \o [i \in DOMAIN deltas |-> Quantized(deltas[i], mode)]
      /\ out.total = limited.total
  BY DEF Priced
<1>2. RuleList(ordered) /\ Len(slices) \in Nat /\ DOMAIN slices = 1..Len(slices)
  BY SortedRules DEF SliceList
<1>3. \A i \in 1..Len(slices) : lines[i].amount \in Int
  BY <1>2, PricedTyped DEF SliceList
<1> HIDE DEF lines
<1>4. amounts = [i \in 1..Len(slices) |-> lines[i].amount]
  BY <1>2
<1>5. [i \in DOMAIN slices |-> Quantized(lines[i].amount, mode)] = Rounded(amounts, mode)
  BY <1>4, <1>2 DEF Rounded
<1>6. amounts \in Seq(Int)
  BY <1>2, <1>3, <1>4, IsASeq
<1>7. Numbers(amounts)
  BY <1>6, LenProperties, ElementOfSeq DEF Numbers
<1>8. SumOf(amounts) \in Int
  BY <1>7, SumTyped
<1> HIDE DEF amounts, ordered
<1>9. Adjusted(SumOf(amounts), limited)
  BY <1>2, <1>8, LimitedAdjusts
<1> HIDE DEF limited
<1>10. deltas \in Seq(Int) /\ limited.total = SumOf(amounts) + SumOf(deltas)
  BY <1>9 DEF Adjusted
<1> DEFINE c == amounts \o deltas
<1>11. out.items = Rounded(amounts, mode) \o Rounded(deltas, mode)
  BY <1>1, <1>5 DEF Rounded
<1> HIDE DEF deltas, out, mode
<1>12. c \in Seq(Int) /\ out.items = Rounded(c, mode) /\ SumOf(c) = out.total
  BY <1>1, <1>6, <1>10, <1>11, RoundedJoin, SumConcat, ConcatProperties
<1> HIDE DEF c
<1>13. Len(out.items) = Len(c) /\ Off(SumOf(out.items), c, mode)
  BY <1>12, RoundedTyped, ItemsNear
<1>14. LET n == Len(out.items)
           error == Magnitude(SumOf(out.items) - out.total)
       IN  IF mode \in {"half_up", "half_down"} THEN 2 * error <= Cent * n
           ELSE error <= (Cent - 1) * n
  BY <1>12, <1>13 DEF Off
<1> QED
  BY <1>14 DEF out, mode

\* The last minimum or cap in rule order has the last word.
LEMMA PricedRespects ==
    ASSUME NEW slices, SliceList(slices), NEW rules, RuleList(rules), NEW policy,
           NEW i \in DOMAIN rules, rules[i].type \in LimitTypes,
           \A j \in DOMAIN rules : rules[j].type \in LimitTypes => ~Before(rules, i, j)
    PROVE  Respects(Priced(slices, rules, policy).total, rules[i], policy.mode)
<1> DEFINE mode == policy.mode
           ordered == Sorted(rules)
           lines == [k \in DOMAIN slices |-> PricedSlice(slices[k], ordered, policy.basis)]
           amounts == [k \in DOMAIN slices |-> lines[k].amount]
<1>1. Priced(slices, rules, policy).total = Limited(SumOf(amounts), ordered, mode).total
  BY DEF Priced
<1>2. /\ Rules(rules) /\ RuleList(ordered) /\ DOMAIN ordered = DOMAIN rules
      /\ DOMAIN rules = 1..Len(rules) /\ Len(rules) \in Nat
      /\ \A n \in DOMAIN rules : ordered[n] = rules[Places(rules)[n]]
      /\ Len(slices) \in Nat /\ DOMAIN slices = 1..Len(slices)
  BY SortedRules DEF SliceList, RuleList
<1>3. \A k \in 1..Len(slices) : lines[k].amount \in Int
  BY <1>2, PricedTyped DEF SliceList
<1> HIDE DEF lines, ordered
<1>4. SumOf(amounts) \in Int
  <2>1. amounts = [k \in 1..Len(slices) |-> lines[k].amount]
    BY <1>2
  <2> HIDE DEF amounts
  <2>2. amounts \in Seq(Int)
    BY <1>2, <1>3, <2>1, IsASeq
  <2>3. Numbers(amounts)
    BY <2>2, LenProperties, ElementOfSeq DEF Numbers
  <2> QED
    BY <2>3, SumTyped
<1> HIDE DEF amounts
<1>5. PICK m \in DOMAIN rules : Places(rules)[m] = i
  BY <1>2, PlacesAre
<1>6. ordered[m] = rules[i] /\ m \in DOMAIN ordered
  BY <1>2, <1>5
<1>7. ASSUME NEW n \in DOMAIN ordered, n > m PROVE ordered[n].type \notin LimitTypes
  <2> DEFINE j == Places(rules)[n]
  <2>1. j \in DOMAIN rules /\ Before(rules, i, j)
    BY <1>2, <1>5, <1>7, PlacesAre
  <2>2. ordered[n] = rules[j]
    BY <1>2
  <2> HIDE DEF j
  <2> QED
    BY <2>1, <2>2
<1>8. Respects(Limited(SumOf(amounts), ordered, mode).total, ordered[m], mode)
  BY <1>2, <1>4, <1>6, <1>7, LastLimit
<1> QED
  BY <1>1, <1>6, <1>8

OnOriginal(rules) ==
    \A i \in DOMAIN rules : rules[i].basis = "original_input" /\ ~Replaces(rules[i])

\* What each rule makes of a slice's basis.
Additions(rules, s, b, parts) ==
    /\ Len(parts) = Len(rules)
    /\ \A i \in DOMAIN rules :
         parts[i] = IF Matches(rules[i], s) THEN Additive(rules[i], s, b) ELSE 0

\* Rules on the original input compose, whatever their order.
LEMMA PricedComposes ==
    ASSUME NEW slices, SliceList(slices), NEW rules, RuleList(rules), NEW policy,
           OnOriginal(rules), NEW k \in DOMAIN slices, NEW parts,
           Additions(rules, slices[k], ContractBasis(slices[k], policy.basis), parts)
    PROVE  Priced(slices, rules, policy).lines[k].amount
           = ContractBasis(slices[k], policy.basis) + SumOf(parts)
<1> DEFINE s == slices[k]
           basis == policy.basis
           b == ContractBasis(s, basis)
           N == Len(rules)
           o == Places(rules)
           ordered == Sorted(rules)
           sorted == [n \in 1..N |-> parts[o[n]]]
<1>1. Priced(slices, rules, policy).lines[k] = PricedSlice(s, ordered, basis)
  BY DEF Priced
<1>2. /\ RuleList(ordered) /\ DOMAIN ordered = 1..N /\ Len(ordered) = N
      /\ DOMAIN rules = 1..N /\ N \in Nat
      /\ \A n \in 1..N : ordered[n] = rules[o[n]]
      /\ Permutes(o, 1..N)
  BY SortedRules DEF RuleList
<1>3. \A n \in 1..N : o[n] \in 1..N
  BY <1>2 DEF Permutes
<1> HIDE DEF ordered, o, N
<1>4. Billable(s)
  BY DEF SliceList
<1> HIDE DEF s, basis
<1>5. b \in Int /\ \A i \in 1..N : Additive(rules[i], s, b) \in Int
  BY <1>2, <1>4, BasisTyped, AdditiveTyped DEF RuleList, N
<1>6. \A i \in 1..N : parts[i] = IF Matches(rules[i], s) THEN Additive(rules[i], s, b) ELSE 0
  BY <1>2 DEF s, basis, N, Additions
<1> HIDE DEF b
<1>7. Numbers(parts)
  BY <1>2, <1>5, <1>6 DEF Numbers, N, Additions
<1>8. Len(sorted) = N /\ \A n \in 1..N : sorted[n] = parts[o[n]]
  BY <1>2, LenIs
<1> HIDE DEF sorted
<1>9. SumOf(sorted) = SumOf(parts)
  <2>1. Len(parts) = N
    BY DEF N, Additions
  <2> QED
    BY <1>2, <1>7, <1>8, <2>1, SumPermuted
<1>10. ASSUME NEW n \in DOMAIN ordered
       PROVE  ordered[n].basis = "original_input" /\ ~Replaces(ordered[n])
  BY <1>2, <1>3 DEF OnOriginal
<1>11. \A n \in 1..Len(ordered) :
          sorted[n] = IF Matches(ordered[n], s) THEN Additive(ordered[n], s, b) ELSE 0
  BY <1>2, <1>3, <1>6, <1>8
<1>12. PricedSlice(s, ordered, basis).amount = b + SumOf(sorted)
  <2>1. Len(sorted) = Len(ordered) /\ RuleList(ordered)
    BY <1>2, <1>8
  <2>2. \A n \in 1..Len(ordered) :
           sorted[n] = IF Matches(ordered[n], s)
                       THEN Additive(ordered[n], s, ContractBasis(s, basis)) ELSE 0
    BY <1>11 DEF b
  <2>3. PricedSlice(s, ordered, basis).amount = ContractBasis(s, basis) + SumOf(sorted)
    BY <1>4, <1>10, <2>1, <2>2, OriginalComposes
  <2> QED
    BY <2>3 DEF b
<1> QED
  BY <1>1, <1>9, <1>12 DEF s, basis, b

-----------------------------------------------------------------------------
(* From records to slices.                                                  *)

\* Numbers are in ascending order.
LEMMA AscendingOrder ==
    ASSUME NEW S \in SUBSET Int
    PROVE  StrictOrder({p \in S \X S : p[1] < p[2]}, S)
<1> DEFINE R == {p \in S \X S : p[1] < p[2]}
<1>1. \A x, y \in S : <<x, y>> \in R <=> x < y
  OBVIOUS
<1> HIDE DEF R
<1>2. \A x \in S : <<x, x>> \notin R
  BY <1>1
<1>3. \A x, y, z \in S : <<x, y>> \in R /\ <<y, z>> \in R => <<x, z>> \in R
  BY <1>1
<1>4. \A x, y \in S : x # y => <<x, y>> \in R \/ <<y, x>> \in R
  BY <1>1
<1> QED
  BY <1>2, <1>3, <1>4 DEF StrictOrder, R

RecordList(records) ==
    /\ Len(records) \in Nat /\ DOMAIN records = 1..Len(records)
    /\ \A n \in DOMAIN records : \A field \in Amounts : records[n][field] \in Int

\* Each record has its key at one of the places where a key appears first.
LEMMA FirstsAre ==
    ASSUME NEW records, Len(records) \in Nat, DOMAIN records = 1..Len(records), NEW grouping
    PROVE  LET firsts == Firsts(records, grouping)
               same(n) == SameKey(records, grouping, n)
           IN  /\ Len(firsts) \in Nat /\ DOMAIN firsts = 1..Len(firsts)
               /\ \A i, j \in DOMAIN firsts : i # j => same(firsts[i]) \cap same(firsts[j]) = {}
               /\ \A n \in DOMAIN records : \E i \in DOMAIN firsts : n \in same(firsts[i])
<1> DEFINE D == 1..Len(records)
           same(n) == SameKey(records, grouping, n)
           new == {n \in D : \A m \in same(n) : n <= m}
           R == {p \in new \X new : p[1] < p[2]}
           firsts == Firsts(records, grouping)
<1>1. firsts = InOrder(new, R)
  BY DEF Firsts, Ascending
<1>2. \A n \in D : same(n) \subseteq D /\ n \in same(n)
  BY DEF SameKey
<1>3. \A m, n \in D : m \in same(n) => same(m) = same(n)
  BY DEF SameKey
<1>4. \A l, m, n \in D : l \in same(m) /\ l \in same(n) => m \in same(n) /\ n \in same(m)
  BY DEF SameKey
<1> HIDE DEF same
<1>5. IsFiniteSet(new) /\ new \subseteq D
  <2>1. 1 \in Int /\ Len(records) \in Int
    OBVIOUS
  <2>2. IsFiniteSet(D)
    BY <2>1, FS_Interval
  <2>3. new \in SUBSET D
    OBVIOUS
  <2> HIDE DEF new, D
  <2> QED
    BY <2>2, <2>3, FS_Subset
<1>6. StrictOrder(R, new)
  <2>1. new \in SUBSET Int
    OBVIOUS
  <2> HIDE DEF new
  <2> QED
    BY <2>1, AscendingOrder
<1>7. \A m, n \in new : m \in same(n) /\ n \in same(m) => m = n
  OBVIOUS
<1>8. ASSUME NEW n \in D PROVE \E m \in new : n \in same(m)
  <2>1. same(n) \in SUBSET Nat /\ same(n) # {}
    BY <1>2
  <2>2. PICK m \in same(n) : \A l \in same(n) : m <= l
    BY <2>1, LeastOf
  <2>3. m \in D /\ same(m) = same(n)
    BY <1>2, <1>3
  <2>4. m \in new
    BY <2>2, <2>3
  <2> HIDE DEF new
  <2> QED
    BY <1>2, <2>3, <2>4
<1> DEFINE N == Cardinality(new)
<1> HIDE DEF R, firsts
<1>9. N \in Nat
  BY <1>5, FS_CardinalityType
<1>10. /\ firsts \in [1..N -> new]
       /\ \A x \in new : \E n \in 1..N : firsts[n] = x
       /\ \A m, n \in 1..N : m < n => <<firsts[m], firsts[n]>> \in R
  <2> HIDE DEF new
  <2>1. LET o == InOrder(new, R) IN
        /\ o \in [1..Cardinality(new) -> new]
        /\ \A x \in new : \E n \in 1..Cardinality(new) : o[n] = x
        /\ \A m, n \in 1..Cardinality(new) : m < n => <<o[m], o[n]>> \in R
    BY <1>5, <1>6, InOrderPlaces
  <2> QED
    BY <1>1, <2>1
<1> HIDE DEF N, new
<1>11. Len(firsts) = N /\ DOMAIN firsts = 1..N
  <2>1. firsts = [n \in 1..N |-> firsts[n]]
    BY <1>10
  <2> QED
    BY <1>9, <2>1, LenIs
<1>12. ASSUME NEW i \in 1..N, NEW j \in 1..N, i # j PROVE firsts[i] # firsts[j]
  <2>1. \A x \in new : <<x, x>> \notin R
    BY <1>6 DEF StrictOrder
  <2>2. firsts[i] \in new /\ firsts[j] \in new
    BY <1>10
  <2>3. CASE i < j
    BY <1>10, <2>1, <2>2, <2>3
  <2>4. CASE j < i
    BY <1>10, <2>1, <2>2, <2>4
  <2> QED
    BY <1>9, <1>12, <2>3, <2>4
<1>13. ASSUME NEW i \in 1..N, NEW j \in 1..N, i # j
       PROVE  same(firsts[i]) \cap same(firsts[j]) = {}
  <2> DEFINE x == firsts[i]
             y == firsts[j]
  <2>1. x \in new /\ y \in new /\ x # y /\ x \in D /\ y \in D
    BY <1>5, <1>10, <1>12, <1>13
  <2> HIDE DEF x, y
  <2>2. ASSUME NEW l \in same(x), l \in same(y) PROVE FALSE
    BY <1>2, <1>4, <1>7, <2>1, <2>2
  <2>3. same(x) \cap same(y) = {}
    BY <2>2
  <2> QED
    BY <2>3 DEF x, y
<1>14. ASSUME NEW n \in D PROVE \E i \in 1..N : n \in same(firsts[i])
  <2>1. PICK m \in new : n \in same(m)
    BY <1>8
  <2>2. PICK i \in 1..N : firsts[i] = m
    BY <1>10
  <2> QED
    BY <2>1, <2>2
<1> QED
  BY <1>9, <1>11, <1>13, <1>14 DEF firsts, same

Column(records, field) == [n \in DOMAIN records |-> records[n][field]]

\* The amounts of one kind in a list of records.
LEMMA ColumnIs ==
    ASSUME NEW records, RecordList(records), NEW field \in Amounts
    PROVE  /\ Numbers(Column(records, field)) /\ Len(Column(records, field)) = Len(records)
           /\ \A places :
                SumAt(records, places, field) = SumOf(Only(Column(records, field), places))
           /\ \A places : SumAt(records, places, field) \in Int
<1> DEFINE a == Column(records, field)
           N == Len(records)
<1>1. N \in Nat /\ DOMAIN records = 1..N /\ \A n \in 1..N : records[n][field] \in Int
  BY DEF RecordList
<1>2. a = [n \in 1..N |-> records[n][field]]
  BY <1>1 DEF Column
<1> HIDE DEF a
<1>3. /\ DOMAIN a = 1..N /\ (\A n \in 1..N : a[n] = records[n][field])
      /\ a = [n \in 1..N |-> a[n]]
  BY <1>2
<1>4. Len(a) = N
  BY <1>1, <1>3, LenIs
<1>5. Numbers(a)
  BY <1>1, <1>3, <1>4 DEF Numbers
<1>6. ASSUME NEW places
      PROVE  /\ SumAt(records, places, field) = SumOf(Only(a, places))
             /\ SumOf(Only(a, places)) \in Int
  <2> DEFINE here == [n \in DOMAIN records |-> IF n \in places THEN records[n][field] ELSE 0]
  <2>1. SumAt(records, places, field) = SumOf(here)
    BY DEF SumAt
  <2>2. here = Only(a, places)
    BY <1>1, <1>3, <1>4 DEF Only
  <2> HIDE DEF here
  <2>3. SumOf(Only(a, places)) \in Int
    BY <1>5, OnlyNumbers, SumTyped
  <2> QED
    BY <2>1, <2>2, <2>3
<1> QED
  BY <1>4, <1>5, <1>6 DEF a

\* Slices of records have whole amounts.
LEMMA SlicesAre ==
    ASSUME NEW records, RecordList(records), NEW grouping
    PROVE  /\ SliceList(Aggregated(records, grouping))
           /\ Len(Aggregated(records, grouping)) = Len(Firsts(records, grouping))
<1> DEFINE firsts == Firsts(records, grouping)
           slices == Aggregated(records, grouping)
<1>1. Len(firsts) \in Nat /\ DOMAIN firsts = 1..Len(firsts)
  BY FirstsAre DEF RecordList
<1>2. slices = [i \in DOMAIN firsts |-> SliceOf(records, SameKey(records, grouping, firsts[i]))]
  BY DEF Aggregated
<1> HIDE DEF slices
<1>3. slices = [i \in 1..Len(firsts) |-> slices[i]]
  BY <1>1, <1>2
<1>4. Len(slices) = Len(firsts) /\ DOMAIN slices = 1..Len(firsts)
  BY <1>1, <1>3, LenIs
<1>5. ASSUME NEW places PROVE Billable(SliceOf(records, places))
  <2>1. \A field \in Amounts : \A p : SumAt(records, p, field) \in Int
    BY ColumnIs
  <2> QED
    BY <2>1 DEF SliceOf, Billable, Amounts
<1>6. \A i \in DOMAIN slices : Billable(slices[i])
  BY <1>1, <1>2, <1>4, <1>5
<1> QED
  BY <1>1, <1>4, <1>6 DEF SliceList, slices

\* Every record is in one slice, counted once.
LEMMA SlicesCount ==
    ASSUME NEW records, RecordList(records), NEW grouping,
           NEW field \in {"list", "ondemand", "net", "credit", "support", "tax"}
    PROVE  SumOf(Column(Aggregated(records, grouping), field)) = SumOf(Column(records, field))
<1> DEFINE firsts == Firsts(records, grouping)
           slices == Aggregated(records, grouping)
           a == Column(records, field)
           c == Column(slices, field)
           P == [i \in 1..Len(firsts) |-> SameKey(records, grouping, firsts[i])]
           N == Len(firsts)
<1>0. field \in Amounts /\ Len(records) \in Nat /\ DOMAIN records = 1..Len(records)
  BY DEF Amounts, RecordList
<1>1. /\ N \in Nat /\ DOMAIN firsts = 1..N
      /\ \A i, j \in 1..N : i # j => P[i] \cap P[j] = {}
      /\ \A n \in 1..Len(records) : \E i \in 1..N : n \in P[i]
  <2>1. LET same(n) == SameKey(records, grouping, n)
        IN  /\ Len(firsts) \in Nat /\ DOMAIN firsts = 1..Len(firsts)
            /\ \A i, j \in DOMAIN firsts : i # j => same(firsts[i]) \cap same(firsts[j]) = {}
            /\ \A n \in DOMAIN records : \E i \in DOMAIN firsts : n \in same(firsts[i])
    BY <1>0, FirstsAre
  <2>2. \A i \in 1..N : P[i] = SameKey(records, grouping, firsts[i])
    OBVIOUS
  <2> HIDE DEF P, firsts
  <2> QED
    BY <1>0, <2>1, <2>2
<1>2. DOMAIN slices = 1..N
  BY <1>1, SlicesAre DEF SliceList
<1>3. \A i \in 1..N : slices[i] = SliceOf(records, P[i])
  BY <1>1 DEF Aggregated
<1>4. Numbers(a) /\ Len(a) = Len(records) /\ \A p : SumAt(records, p, field) = SumOf(Only(a, p))
  BY <1>0, ColumnIs
<1> HIDE DEF P, N, slices, a
<1>5. \A i \in 1..N : slices[i][field] = SumAt(records, P[i], field)
  <2>1. \A p : SliceOf(records, p)[field] = SumAt(records, p, field)
    BY DEF SliceOf
  <2> QED
    BY <1>3, <2>1
<1>6. c = [i \in 1..N |-> slices[i][field]]
  BY <1>2 DEF Column
<1> HIDE DEF c
<1>7. Len(c) = N /\ \A i \in 1..N : c[i] = SumOf(Only(a, P[i]))
  <2>1. c = [i \in 1..N |-> c[i]]
    BY <1>6
  <2> QED
    BY <1>1, <1>4, <1>5, <1>6, <2>1, LenIs
<1>8. 1..Len(a) \subseteq Upto(P, Len(c))
  BY <1>1, <1>4, <1>7 DEF Upto
<1>9. SumOf(c) = SumOf(a)
  <2>1. /\ Len(c) \in Nat
        /\ \A i, j \in 1..Len(c) : i # j => P[i] \cap P[j] = {}
        /\ \A i \in 1..Len(c) : c[i] = SumOf(Only(a, P[i]))
    BY <1>1, <1>7
  <2> QED
    BY <1>4, <1>8, <2>1, SumByParts
<1> QED
  BY <1>9 DEF c, a, slices

-----------------------------------------------------------------------------
(* The catalogue: what requests that race may do to it.                    *)

CvStates == {"absent", "draft", "active", "superseded", "other"}

CvRow == [status : CvStates, span : Spans \cup {None},
          overlapOk : BOOLEAN, pins : Bindings \cup {<<>>}]

RvStates == {"absent", "draft", "published", "retired"}

ApprovalRow == [status : {"absent", "pending", "approved", "denied", "cancelled"},
                of : RuleVersions \cup {None}]

Decisions == {"approved", "denied", "cancelled"}

Tx == [op : {"none", "bind", "activate", "decide", "publish"},
       of : Versions \cup RuleVersions \cup Approvals \cup {None},
       to : CvStates \cup Decisions \cup {None},
       pins : Bindings \cup {<<>>}, over : SUBSET (Versions \cup RuleVersions)]

Typed ==
    /\ cv \in [Versions -> CvRow]
    /\ rv \in [RuleVersions -> RvStates]
    /\ approval \in [Approvals -> ApprovalRow]
    /\ tx \in [Requests -> Tx]

\* Rows that exist are complete, and an approval that reads as approved was granted.
CatalogueSound ==
    /\ \A c \in Versions : cv[c].status # "absent" => cv[c].span \in Spans
    /\ \A a \in Approvals :
         /\ approval[a].status # "absent" =>
              /\ approval[a].of \in RuleVersions /\ rv[approval[a].of] # "absent"
              /\ Approvable(approval[a].of)
         /\ approval[a].status = "approved" => approval[a].of \in granted

\* What an open request relies on, however long ago it read it.
BindSound(t) == t.op = "bind" => t.of \in Versions

ActivateSound(t) ==
    t.op = "activate" =>
        /\ t.of \in Versions /\ cv[t.of].status # "absent"
        /\ \A d \in t.over : d \in Versions => cv[d].status # "absent"

DecideSound(t) ==
    t.op = "decide" => /\ t.of \in Approvals /\ approval[t.of].status # "absent"
                       /\ t.to \in Decisions

PublishSound(t) ==
    t.op = "publish" =>
        /\ t.of \in RuleVersions
        /\ Terms[t.of].high => t.of \in granted
        /\ t.over \subseteq SameRule(t.of)
        /\ \A v \in t.over : rv[v] \in {"published", "retired"}

TxSound(q) ==
    /\ tx[q].op = "none" => tx[q] = NoRequest
    /\ BindSound(tx[q]) /\ ActivateSound(tx[q]) /\ DecideSound(tx[q]) /\ PublishSound(tx[q])

\* A high-impact version that is or was in force was granted.
ForceGranted ==
    \A v \in RuleVersions : rv[v] \in {"published", "retired"} /\ Terms[v].high => v \in granted

IInv ==
    /\ Typed /\ CatalogueSound /\ RuleStaysPublished /\ ForceGranted
    /\ \A q \in Requests : TxSound(q)

----------------------------------------------------------------------------
LEMMA NoRequestTyped ==
    /\ NoRequest \in Tx /\ NoRequest.op = "none"
    /\ BindSound(NoRequest) /\ ActivateSound(NoRequest)
    /\ DecideSound(NoRequest) /\ PublishSound(NoRequest)
  BY DEF NoRequest, Tx, BindSound, ActivateSound, DecideSound, PublishSound

\* Before any version exists the invariant holds.
LEMMA InitInv == Init => IInv
<1> SUFFICES ASSUME Init PROVE IInv
  OBVIOUS
<1>1. Typed
  BY NoRequestTyped DEF Init, Typed, CvRow, CvStates, RvStates, ApprovalRow, NoVersion
<1>2. CatalogueSound /\ RuleStaysPublished /\ ForceGranted
  BY DEF Init, NoVersion, CatalogueSound, RuleStaysPublished, ForceGranted
<1>3. \A q \in Requests : TxSound(q)
  BY NoRequestTyped DEF Init, TxSound
<1> QED
  BY <1>1, <1>2, <1>3 DEF IInv

\* What open requests may rely on: no row that exists disappears, a version in
\* force is at most retired, and what was granted stays granted.
Steady ==
    /\ granted \subseteq granted'
    /\ \A c \in Versions : cv[c].status # "absent" => cv'[c].status # "absent"
    /\ \A v \in RuleVersions :
         /\ rv[v] # "absent" => rv'[v] # "absent"
         /\ rv[v] \in {"published", "retired"} => rv'[v] \in {"published", "retired"}
    /\ \A a \in Approvals : approval[a].status # "absent" => approval'[a].status # "absent"

LEMMA TxStays ==
    ASSUME IInv, Steady, NEW q \in Requests, tx'[q] = tx[q]
    PROVE  TxSound(q)'
<1> DEFINE t == tx[q]
<1>1. TxSound(q) /\ t \in Tx
  BY DEF IInv, Typed
<1>2. BindSound(t)' /\ ActivateSound(t)' /\ DecideSound(t)'
  BY <1>1 DEF TxSound, BindSound, ActivateSound, DecideSound, Steady
<1>3. PublishSound(t)'
  BY <1>1 DEF TxSound, PublishSound, SameRule, Steady
<1> QED
  BY <1>1, <1>2, <1>3 DEF TxSound

\* A request opens: nothing is committed, and what it read is so.
LEMMA OpenInv ==
    ASSUME IInv, NEW q \in Requests, NEW t \in Tx, Open(q, t),
           t.op # "none", BindSound(t), ActivateSound(t), DecideSound(t), PublishSound(t)
    PROVE  IInv'
<1>1. tx' = [tx EXCEPT ![q] = t] /\ UNCHANGED <<cv, rv, approval, granted>>
  BY DEF Open
<1>2. Typed'
  BY <1>1 DEF IInv, Typed
<1>3. CatalogueSound' /\ RuleStaysPublished' /\ ForceGranted'
  BY <1>1 DEF IInv, CatalogueSound, RuleStaysPublished, ForceGranted
<1>4. Steady
  BY <1>1 DEF Steady
<1>5. \A p \in Requests : tx'[p] = IF p = q THEN t ELSE tx[p]
  BY <1>1 DEF IInv, Typed
<1>6. TxSound(q)'
  BY <1>1, <1>5
  DEF TxSound, BindSound, ActivateSound, DecideSound, PublishSound
<1> QED
  BY <1>2, <1>3, <1>4, <1>5, <1>6, TxStays DEF IInv

\* A request that ends leaves the other requests as they were.
LEMMA EndTx ==
    ASSUME IInv, Steady, NEW q \in Requests, Close(q)
    PROVE  tx' \in [Requests -> Tx] /\ \A p \in Requests : TxSound(p)'
<1>1. tx' = [tx EXCEPT ![q] = NoRequest]
  BY DEF Close
<1>2. /\ tx' \in [Requests -> Tx]
      /\ \A p \in Requests : tx'[p] = IF p = q THEN NoRequest ELSE tx[p]
  BY <1>1, NoRequestTyped DEF IInv, Typed
<1>3. TxSound(q)'
  BY <1>2 DEF TxSound, NoRequest, BindSound, ActivateSound, DecideSound, PublishSound
<1> QED
  BY <1>2, <1>3, TxStays

----------------------------------------------------------------------------
(* Requests that open.                                                      *)

LEMMA SetBindingsInv ==
    ASSUME IInv, NEW q \in Requests, NEW c \in Versions, NEW pins \in Bindings,
           SetBindings(q, c, pins)
    PROVE  IInv'
<1> DEFINE t == [NoRequest EXCEPT !.op = "bind", !.of = c, !.pins = pins]
<1>1. Open(q, t)
  BY DEF SetBindings
<1>2. t \in Tx /\ t.op = "bind" /\ t.of = c /\ t.pins = pins
  BY DEF NoRequest, Tx
<1> HIDE DEF t
<1>3. BindSound(t) /\ ActivateSound(t) /\ DecideSound(t) /\ PublishSound(t)
  BY <1>1, <1>2 DEF BindSound, ActivateSound, DecideSound, PublishSound
<1> QED
  BY <1>1, <1>2, <1>3, OpenInv

LEMMA ActivateInv ==
    ASSUME IInv, NEW q \in Requests, NEW c \in Versions, Activate(q, c)
    PROVE  IInv'
<1> DEFINE t == [NoRequest EXCEPT !.op = "activate", !.of = c, !.to = cv[c].status,
                                  !.over = Overlapping(c)]
<1>1. Open(q, t) /\ cv[c].status # "absent"
  BY DEF Activate
<1>2. Overlapping(c) \subseteq Versions /\ \A d \in Overlapping(c) : cv[d].status = "active"
  BY DEF Overlapping
<1>3. cv[c].status \in CvStates
  BY DEF IInv, Typed, CvRow
<1>4. t \in Tx /\ t.op = "activate" /\ t.of = c /\ t.over = Overlapping(c)
  BY <1>2, <1>3 DEF NoRequest, Tx
<1> HIDE DEF t
<1>5. BindSound(t) /\ ActivateSound(t) /\ DecideSound(t) /\ PublishSound(t)
  BY <1>1, <1>2, <1>4 DEF BindSound, ActivateSound, DecideSound, PublishSound
<1> QED
  BY <1>1, <1>4, <1>5, OpenInv

LEMMA DecideInv ==
    ASSUME IInv, NEW q \in Requests, NEW a \in Approvals, NEW decision \in Decisions,
           Decide(q, a, decision)
    PROVE  IInv'
<1> DEFINE t == [NoRequest EXCEPT !.op = "decide", !.of = a, !.to = decision]
<1>1. Open(q, t) /\ approval[a].status = "pending"
  BY DEF Decide
<1>2. t \in Tx /\ t.op = "decide" /\ t.of = a /\ t.to = decision
  BY DEF NoRequest, Tx
<1> HIDE DEF t
<1>3. BindSound(t) /\ ActivateSound(t) /\ DecideSound(t) /\ PublishSound(t)
  BY <1>1, <1>2 DEF BindSound, ActivateSound, DecideSound, PublishSound
<1> QED
  BY <1>1, <1>2, <1>3, OpenInv

\* The approval a publish relies on was granted, whatever becomes of its row.
LEMMA PublishInv ==
    ASSUME IInv, NEW q \in Requests, NEW v \in RuleVersions, Publish(q, v)
    PROVE  IInv'
<1> DEFINE over == {w \in SameRule(v) : rv[w] = "published"}
           t == [NoRequest EXCEPT !.op = "publish", !.of = v, !.over = over]
<1>1. Open(q, t) /\ (Terms[v].high => IsApproved(v))
  BY DEF Publish
<1>2. /\ over \subseteq SameRule(v) /\ over \subseteq RuleVersions
      /\ \A w \in over : rv[w] = "published"
  BY DEF SameRule
<1> HIDE DEF over
<1>3. t \in Tx /\ t.op = "publish" /\ t.of = v /\ t.over = over
  BY <1>2 DEF NoRequest, Tx
<1> HIDE DEF t
<1>4. Terms[v].high => v \in granted
  <2> SUFFICES ASSUME IsApproved(v) PROVE v \in granted
    BY <1>1
  <2>1. PICK a \in Approvals : approval[a] = [status |-> "approved", of |-> v]
    BY DEF IsApproved
  <2>2. approval[a].status = "approved" /\ approval[a].of = v
    BY <2>1
  <2> QED
    BY <2>2 DEF IInv, CatalogueSound
<1>5. BindSound(t) /\ ActivateSound(t) /\ DecideSound(t) /\ PublishSound(t)
  BY <1>2, <1>3, <1>4 DEF BindSound, ActivateSound, DecideSound, PublishSound
<1> QED
  BY <1>1, <1>3, <1>5, OpenInv

----------------------------------------------------------------------------
(* Requests that commit.                                                    *)

LEMMA CommitBindingsInv ==
    ASSUME IInv, NEW q \in Requests, CommitBindings(q)
    PROVE  IInv'
<1> DEFINE t == tx[q]
<1>1. /\ t.op = "bind" /\ cv' = [cv EXCEPT ![t.of].pins = t.pins]
      /\ Close(q) /\ UNCHANGED <<rv, approval, granted>>
  BY DEF CommitBindings
<1>2. t \in Tx /\ t.of \in Versions /\ t.pins \in Bindings \cup {<<>>}
  BY <1>1 DEF IInv, Typed, TxSound, BindSound, Tx
<1> HIDE DEF t
<1>3. \A c \in Versions :
        /\ cv'[c] \in CvRow /\ cv'[c].status = cv[c].status /\ cv'[c].span = cv[c].span
        /\ cv'[c].pins = IF c = t.of THEN t.pins ELSE cv[c].pins
  BY <1>1, <1>2 DEF IInv, Typed, CvRow
<1>4. cv' \in [Versions -> CvRow]
  BY <1>1, <1>3 DEF IInv, Typed
<1>5. Steady
  BY <1>1, <1>3 DEF Steady
<1>6. tx' \in [Requests -> Tx] /\ \A p \in Requests : TxSound(p)'
  BY <1>1, <1>5, EndTx
<1>7. CatalogueSound'
  BY <1>1, <1>2, <1>3 DEF IInv, CatalogueSound
<1>8. RuleStaysPublished' /\ ForceGranted'
  BY <1>1 DEF IInv, RuleStaysPublished, ForceGranted
<1> QED
  BY <1>1, <1>4, <1>6, <1>7, <1>8 DEF IInv, Typed

LEMMA CommitActivateInv ==
    ASSUME IInv, NEW q \in Requests, CommitActivate(q)
    PROVE  IInv'
<1> DEFINE t == tx[q]
           Status(d) == CASE d \in t.over -> "superseded"
                          [] d = t.of /\ t.to # "active" -> "active"
                          [] OTHER -> cv[d].status
<1>1. /\ t.op = "activate" /\ cv' = [d \in Versions |-> [cv[d] EXCEPT !.status = Status(d)]]
      /\ Close(q) /\ UNCHANGED <<rv, approval, granted>>
  BY DEF CommitActivate
<1>2. /\ t.of \in Versions /\ cv[t.of].status # "absent"
      /\ \A d \in t.over : d \in Versions => cv[d].status # "absent"
  BY <1>1 DEF IInv, TxSound, ActivateSound
<1>3. \A c \in Versions : cv[c] \in CvRow
  BY DEF IInv, Typed
<1>4. \A c \in Versions : /\ Status(c) \in CvStates
                          /\ Status(c) = "absent" <=> cv[c].status = "absent"
  BY <1>2, <1>3 DEF CvRow, CvStates
<1> HIDE DEF Status
<1>5. \A c \in Versions :
        /\ cv'[c] \in CvRow /\ cv'[c].status = Status(c)
        /\ cv'[c].span = cv[c].span /\ cv'[c].pins = cv[c].pins
  BY <1>1, <1>3, <1>4 DEF CvRow
<1>6. cv' \in [Versions -> CvRow]
  BY <1>1, <1>5
<1>7. Steady
  BY <1>1, <1>4, <1>5 DEF Steady
<1>8. tx' \in [Requests -> Tx] /\ \A p \in Requests : TxSound(p)'
  BY <1>1, <1>7, EndTx
<1>9. CatalogueSound'
  BY <1>1, <1>4, <1>5 DEF IInv, CatalogueSound
<1>10. RuleStaysPublished' /\ ForceGranted'
  BY <1>1 DEF IInv, RuleStaysPublished, ForceGranted
<1> QED
  BY <1>1, <1>6, <1>8, <1>9, <1>10 DEF IInv, Typed

\* Two decisions may both commit: the last one stands, and a grant is not taken back.
LEMMA CommitDecideInv ==
    ASSUME IInv, NEW q \in Requests, CommitDecide(q)
    PROVE  IInv'
<1> DEFINE t == tx[q]
           a == t.of
<1>1. /\ t.op = "decide" /\ approval' = [approval EXCEPT ![a].status = t.to]
      /\ granted' = IF t.to = "approved" THEN granted \cup {approval[a].of} ELSE granted
      /\ Close(q) /\ UNCHANGED <<cv, rv>>
  BY DEF CommitDecide
<1>2. a \in Approvals /\ approval[a].status # "absent" /\ t.to \in Decisions
  BY <1>1 DEF IInv, TxSound, DecideSound
<1> HIDE DEF t, a
<1>3. \A b \in Approvals :
        /\ approval'[b] \in ApprovalRow /\ approval'[b].of = approval[b].of
        /\ approval'[b].status = IF b = a THEN t.to ELSE approval[b].status
  BY <1>1, <1>2 DEF IInv, Typed, ApprovalRow, Decisions
<1>4. approval' \in [Approvals -> ApprovalRow]
  BY <1>1, <1>3 DEF IInv, Typed
<1>5. Steady
  BY <1>1, <1>2, <1>3 DEF Steady, Decisions
<1>6. tx' \in [Requests -> Tx] /\ \A p \in Requests : TxSound(p)'
  BY <1>1, <1>5, EndTx
<1>7. CatalogueSound'
  BY <1>1, <1>2, <1>3 DEF IInv, CatalogueSound
<1>8. RuleStaysPublished' /\ ForceGranted'
  BY <1>1 DEF IInv, RuleStaysPublished, ForceGranted
<1> QED
  BY <1>1, <1>4, <1>6, <1>7, <1>8 DEF IInv, Typed

\* A publish retires versions of its own rule only, and puts its own in force.
LEMMA CommitPublishInv ==
    ASSUME IInv, NEW q \in Requests, CommitPublish(q)
    PROVE  IInv'
<1> DEFINE t == tx[q]
<1>1. /\ t.op = "publish"
      /\ rv' = [w \in RuleVersions |-> IF w = t.of THEN "published"
                                       ELSE IF w \in t.over THEN "retired" ELSE rv[w]]
      /\ Close(q) /\ UNCHANGED <<cv, approval, granted>>
  BY DEF CommitPublish
<1>2. /\ t.of \in RuleVersions /\ (Terms[t.of].high => t.of \in granted)
      /\ t.over \subseteq SameRule(t.of)
      /\ \A v \in t.over : rv[v] \in {"published", "retired"}
  BY <1>1 DEF IInv, TxSound, PublishSound
<1> HIDE DEF t
<1>3. rv' \in [RuleVersions -> RvStates]
  BY <1>1 DEF IInv, Typed, RvStates
<1>4. Steady
  BY <1>1, <1>2 DEF Steady
<1>5. tx' \in [Requests -> Tx] /\ \A p \in Requests : TxSound(p)'
  BY <1>1, <1>4, EndTx
<1>6. CatalogueSound'
  BY <1>1, <1>4 DEF IInv, CatalogueSound, Steady
<1>7. RuleStaysPublished'
  <2> SUFFICES ASSUME NEW v \in RuleVersions, rv'[v] = "retired"
               PROVE  \E w \in SameRule(v) : rv'[w] = "published"
    BY DEF RuleStaysPublished, SameRule
  <2>1. CASE Terms[v].rule = Terms[t.of].rule
    BY <1>1, <1>2, <2>1 DEF SameRule
  <2>2. CASE Terms[v].rule # Terms[t.of].rule
    <3>1. v \notin SameRule(t.of) /\ rv[v] = "retired"
      BY <1>1, <1>2, <2>2 DEF SameRule
    <3>2. PICK w \in SameRule(v) : rv[w] = "published"
      BY <3>1 DEF IInv, RuleStaysPublished
    <3>3. w \in RuleVersions /\ w \notin SameRule(t.of)
      BY <2>2 DEF SameRule
    <3> QED
      BY <1>1, <1>2, <3>2, <3>3
  <2> QED
    BY <2>1, <2>2
<1>8. ForceGranted'
  BY <1>1, <1>2 DEF IInv, ForceGranted
<1> QED
  BY <1>1, <1>3, <1>5, <1>6, <1>7, <1>8 DEF IInv, Typed

----------------------------------------------------------------------------
(* Steps outside the open requests.                                         *)

LEMMA AddVersionInv ==
    ASSUME IInv, NEW c \in Versions, NEW span \in Spans, NEW status \in {"draft", "active", "other"},
           NEW ok \in BOOLEAN, NEW pins \in Bindings \cup {<<>>}, AddVersion(c, span, status, ok, pins)
    PROVE  IInv'
<1> DEFINE row == [status |-> status, span |-> span, overlapOk |-> ok, pins |-> pins]
<1>1. /\ cv[c].status = "absent" /\ cv' = [cv EXCEPT ![c] = row]
      /\ UNCHANGED <<rv, approval, granted, tx>>
  BY DEF AddVersion
<1>2. row \in CvRow /\ row.status # "absent" /\ row.span \in Spans
  BY DEF CvRow, CvStates
<1> HIDE DEF row
<1>3. \A d \in Versions : cv'[d] = IF d = c THEN row ELSE cv[d]
  BY <1>1 DEF IInv, Typed
<1>4. Typed'
  BY <1>1, <1>2 DEF IInv, Typed
<1>5. Steady
  BY <1>1, <1>2, <1>3 DEF Steady
<1>6. \A q \in Requests : TxSound(q)'
  BY <1>1, <1>5, TxStays
<1>7. CatalogueSound'
  BY <1>1, <1>2, <1>3 DEF IInv, CatalogueSound
<1>8. RuleStaysPublished' /\ ForceGranted'
  BY <1>1 DEF IInv, RuleStaysPublished, ForceGranted
<1> QED
  BY <1>4, <1>6, <1>7, <1>8 DEF IInv

LEMMA AddRuleVersionInv ==
    ASSUME IInv, NEW v \in RuleVersions, AddRuleVersion(v)
    PROVE  IInv'
<1>1. /\ rv[v] = "absent" /\ rv' = [rv EXCEPT ![v] = "draft"]
      /\ UNCHANGED <<cv, approval, granted, tx>>
  BY DEF AddRuleVersion
<1>2. \A w \in RuleVersions : rv'[w] = IF w = v THEN "draft" ELSE rv[w]
  BY <1>1 DEF IInv, Typed
<1>3. Typed'
  BY <1>1 DEF IInv, Typed, RvStates
<1>4. Steady
  BY <1>1, <1>2 DEF Steady
<1>5. \A q \in Requests : TxSound(q)'
  BY <1>1, <1>4, TxStays
<1>6. CatalogueSound'
  BY <1>1, <1>4 DEF IInv, CatalogueSound, Steady
<1>7. RuleStaysPublished' /\ ForceGranted'
  BY <1>1, <1>2 DEF IInv, RuleStaysPublished, SameRule, ForceGranted
<1> QED
  BY <1>3, <1>5, <1>6, <1>7 DEF IInv

LEMMA RequestApprovalInv ==
    ASSUME IInv, NEW a \in Approvals, NEW v \in RuleVersions, RequestApproval(a, v)
    PROVE  IInv'
<1>1. /\ approval[a].status = "absent" /\ rv[v] # "absent" /\ Approvable(v)
      /\ approval' = [approval EXCEPT ![a] = [status |-> "pending", of |-> v]]
      /\ UNCHANGED <<cv, rv, granted, tx>>
  BY DEF RequestApproval
<1>2. \A b \in Approvals :
        approval'[b] = IF b = a THEN [status |-> "pending", of |-> v] ELSE approval[b]
  BY <1>1 DEF IInv, Typed
<1>3. Typed'
  BY <1>1 DEF IInv, Typed, ApprovalRow
<1>4. Steady
  BY <1>1, <1>2 DEF Steady
<1>5. \A q \in Requests : TxSound(q)'
  BY <1>1, <1>4, TxStays
<1>6. CatalogueSound'
  BY <1>1, <1>2 DEF IInv, CatalogueSound
<1>7. RuleStaysPublished' /\ ForceGranted'
  BY <1>1 DEF IInv, RuleStaysPublished, ForceGranted
<1> QED
  BY <1>3, <1>5, <1>6, <1>7 DEF IInv

LEMMA StillInv ==
    ASSUME IInv, UNCHANGED <<cv, rv, approval, granted, tx>>
    PROVE  IInv'
<1>1. Steady
  BY DEF Steady
<1>2. \A q \in Requests : TxSound(q)'
  BY <1>1, TxStays
<1>3. Typed' /\ CatalogueSound' /\ RuleStaysPublished' /\ ForceGranted'
  BY DEF IInv, Typed, CatalogueSound, RuleStaysPublished, ForceGranted
<1> QED
  BY <1>2, <1>3 DEF IInv

LEMMA RollBackInv ==
    ASSUME IInv, NEW q \in Requests, RollBack(q)
    PROVE  IInv'
<1>1. Close(q) /\ UNCHANGED <<cv, rv, approval, granted>>
  BY DEF RollBack
<1>2. Steady
  BY <1>1 DEF Steady
<1>3. tx' \in [Requests -> Tx] /\ \A p \in Requests : TxSound(p)'
  BY <1>1, <1>2, EndTx
<1>4. CatalogueSound' /\ RuleStaysPublished' /\ ForceGranted'
  BY <1>1 DEF IInv, CatalogueSound, RuleStaysPublished, ForceGranted
<1> QED
  BY <1>1, <1>3, <1>4 DEF IInv, Typed

LEMMA NextInv == IInv /\ [Next]_vars => IInv'
<1> SUFFICES ASSUME IInv, [Next]_vars PROVE IInv'
  OBVIOUS
<1>1. ASSUME NEW q \in Requests, RequestStep(q) PROVE IInv'
  BY <1>1, ActivateInv, SetBindingsInv, PublishInv, DecideInv, CommitBindingsInv,
     CommitActivateInv, CommitDecideInv, CommitPublishInv, RollBackInv
  DEF RequestStep, Decisions
<1>2. CASE \E c \in Versions : Price(c)
  BY <1>2, StillInv DEF Price
<1>3. CASE UNCHANGED vars
  BY <1>3, StillInv DEF vars
<1> QED
  BY <1>1, <1>2, <1>3, AddVersionInv, AddRuleVersionInv, RequestApprovalInv DEF Next

\* The inductive invariant holds throughout.
THEOREM CatalogueStaysSound == Spec => []IInv
  BY InitInv, NextInv, PTL DEF Spec

\* In whatever order concurrent publishes commit, a rule that was in force is never
\* left without a version in force: a publish retires versions of its own rule only
\* and its own version is published by the same commit.
THEOREM RulesStayPublished == Spec => []RuleStaysPublished
<1>1. IInv => RuleStaysPublished
  BY DEF IInv
<1> QED
  BY <1>1, CatalogueStaysSound, PTL

\* Versions, approvals and requests are well typed, and an approval is of an
\* existing version that admits one, whatever versions are made to pin.
THEOREM CatalogueTypeCorrect == Spec => []TypeOK
<1>1. IInv => TypeOK
  <2> SUFFICES ASSUME IInv PROVE TypeOK
    OBVIOUS
  <2>1. \A q \in Requests :
          tx[q] = NoRequest \/ tx[q].op \in {"bind", "activate", "decide", "publish"}
    BY DEF IInv, Typed, Tx, TxSound
  <2> QED
    BY <2>1 DEF IInv, Typed, CvRow, CvStates, RvStates, ApprovalRow, CatalogueSound, TypeOK
<1> QED
  BY <1>1, CatalogueStaysSound, PTL

-----------------------------------------------------------------------------
(* A run is what its records, its rules and its policy come to.             *)

RunSound ==
    run # NoRun =>
        /\ run.of \in Versions /\ run.records \in Bills /\ run.rules \in Seq(RuleVersions)
        /\ run.bill = Aggregated(run.records, Policy[run.of].grouping)
        /\ run.out = Priced(run.bill, RulesOf(run.rules), Policy[run.of])

\* A request, and a commit, leaves no run behind: a run is what the last step computed.
LEMMA RunSteps ==
    ASSUME [Next]_vars
    PROVE  \/ UNCHANGED vars \/ run' = NoRun
           \/ \E c \in Versions : Price(c)
<1>1. ASSUME NEW q \in Requests, RequestStep(q) PROVE run' = NoRun
  BY <1>1 DEF RequestStep, Activate, SetBindings, Publish, Decide, Open, Close, RollBack,
              CommitBindings, CommitActivate, CommitDecide, CommitPublish
<1>2. ASSUME NEW c \in Versions, NEW span \in Spans, NEW status, NEW ok \in BOOLEAN,
             NEW pins, AddVersion(c, span, status, ok, pins)
      PROVE  run' = NoRun
  BY <1>2 DEF AddVersion
<1>3. ASSUME NEW v \in RuleVersions, AddRuleVersion(v) PROVE run' = NoRun
  BY <1>3 DEF AddRuleVersion
<1>4. ASSUME NEW v \in RuleVersions, NEW a \in Approvals, RequestApproval(a, v) PROVE run' = NoRun
  BY <1>4 DEF RequestApproval
<1> QED
  BY <1>1, <1>2, <1>3, <1>4 DEF Next

\* The pins that name a version are a list of rule versions.
LEMMA PinnedIs ==
    ASSUME Typed, NEW c \in Versions
    PROVE  Pinned(c) \in Seq(RuleVersions)
<1> DEFINE pins == cv[c].pins
           D == {i \in DOMAIN pins : pins[i] \in RuleVersions /\ rv[pins[i]] # "absent"}
           N == Cardinality(D)
           places == Ascending(D)
           list == Pinned(c)
<1>1. DOMAIN pins = 1..Len(pins) /\ Len(pins) \in Nat
  <2>1. pins \in Bindings \cup {<<>>}
    BY DEF Typed, CvRow
  <2> HIDE DEF pins
  <2>2. CASE pins \in Bindings
    <3>1. pins \in Seq(RuleVersions \cup {None})
      BY <2>2, RulesAssumption, Zenon
    <3> QED
      BY <3>1, LenProperties
  <2>3. CASE pins = <<>>
    BY <2>3
  <2> QED
    BY <2>1, <2>2, <2>3
<1>2. D \in SUBSET Int /\ IsFiniteSet(D)
  <2>1. D \in SUBSET (1..Len(pins)) /\ 1 \in Int /\ Len(pins) \in Int
    BY <1>1
  <2> HIDE DEF D, pins
  <2>2. IsFiniteSet(1..Len(pins))
    BY <2>1, FS_Interval
  <2>3. IsFiniteSet(D)
    BY <2>1, <2>2, FS_Subset
  <2> QED
    BY <2>1, <2>3
<1>3. \A i \in D : pins[i] \in RuleVersions
  OBVIOUS
<1>4. list = [n \in DOMAIN places |-> pins[places[n]]]
  BY DEF Pinned
<1> HIDE DEF D, pins, list
<1>5. N \in Nat /\ places \in [1..N -> D]
  BY <1>2, AscendingOrder, InOrderPlaces, FS_CardinalityType DEF Ascending
<1> HIDE DEF N, places
<1>6. \A n \in 1..N : pins[places[n]] \in RuleVersions
  BY <1>3, <1>5
<1>7. list = [n \in 1..N |-> pins[places[n]]]
  BY <1>4, <1>5
<1>8. list \in Seq(RuleVersions)
  BY <1>5, <1>6, <1>7, IsASeq
<1> QED
  BY <1>8 DEF list

\* The rules of a run are a list of rule versions.
LEMMA CollectedLists ==
    ASSUME Typed, NEW c \in Versions, NEW list \in Collected(c)
    PROVE  list \in Seq(RuleVersions)
<1>1. CASE Pinned(c) # <<>>
  BY <1>1, PinnedIs DEF Collected
<1>2. CASE Pinned(c) = <<>>
  <2> DEFINE N == Cardinality(Published)
  <2>1. Published \subseteq RuleVersions /\ IsFiniteSet(RuleVersions)
    BY RulesAssumption DEF Published
  <2>2. N \in Nat
    BY <2>1, FS_Subset, FS_CardinalityType
  <2>3. list \in [1..N -> Published]
    BY <1>2 DEF Collected, Orders
  <2> HIDE DEF N
  <2>4. \A i \in 1..N : list[i] \in RuleVersions
    BY <2>1, <2>3
  <2>5. list = [i \in 1..N |-> list[i]]
    BY <2>3
  <2> QED
    BY <2>2, <2>4, <2>5, IsASeq
<1> QED
  BY <1>1, <1>2

\* A pricing run computes what it says.
LEMMA PriceSound ==
    ASSUME Typed, NEW c \in Versions, Price(c)
    PROVE  RunSound'
<1>1. PICK bill \in Bills, list \in Collected(c) :
         run' = [rules |-> list, bill |-> Aggregated(bill, Policy[c].grouping), of |-> c,
                 records |-> bill,
                 out |-> Priced(Aggregated(bill, Policy[c].grouping), RulesOf(list), Policy[c])]
  BY DEF Price
<1>2. list \in Seq(RuleVersions)
  BY CollectedLists
<1>3. /\ run'.of = c /\ run'.records = bill /\ run'.rules = list
      /\ run'.bill = Aggregated(bill, Policy[c].grouping)
      /\ run'.out = Priced(Aggregated(bill, Policy[c].grouping), RulesOf(list), Policy[c])
  BY <1>1
<1> QED
  BY <1>2, <1>3 DEF RunSound

\* Every run is what its records, its rules and its policy come to: whatever other
\* requests commit, a run says which rule versions it applied and what they gave.
THEOREM RunsAreSound == Spec => []RunSound
<1>1. Init => RunSound
  BY DEF Init, RunSound
<1>2. IInv /\ RunSound /\ [Next]_vars => RunSound'
  <2> SUFFICES ASSUME IInv, RunSound, [Next]_vars PROVE RunSound'
    OBVIOUS
  <2>1. CASE UNCHANGED vars
    BY <2>1 DEF vars, RunSound
  <2>2. CASE run' = NoRun
    BY <2>2 DEF RunSound
  <2>3. ASSUME NEW c \in Versions, Price(c) PROVE RunSound'
    BY <2>3, PriceSound DEF IInv
  <2> QED
    BY <2>1, <2>2, <2>3, RunSteps
<1> QED
  BY <1>1, <1>2, CatalogueStaysSound, PTL DEF Spec

\* A run without pins takes published versions.
GateSound ==
    run # NoRun =>
        /\ run.of \in Versions /\ run.rules \in Seq(RuleVersions)
        /\ Pinned(run.of) = <<>> =>
             \A i \in DOMAIN run.rules : run.rules[i] \in Published

LEMMA PriceGated ==
    ASSUME Typed, NEW c \in Versions, Price(c)
    PROVE  GateSound'
<1>1. PICK bill \in Bills, list \in Collected(c) : run'.rules = list /\ run'.of = c
  BY DEF Price
<1>2. list \in Seq(RuleVersions)
  BY CollectedLists
<1>3. Pinned(c)' = Pinned(c) /\ Published' = Published
  BY DEF Price, Pinned, Published
<1>4. Pinned(c) = <<>> => \A i \in DOMAIN list : list[i] \in Published
  BY DEF Collected, Orders
<1> QED
  BY <1>1, <1>2, <1>3, <1>4 DEF GateSound

\* A high-impact version is published, and applied by a run without pins, only
\* after an approval of this very version was granted, also when a decision and
\* the publish race.
THEOREM HighImpactIsApproved == Spec => []HighImpactWasApproved
<1>1. Init => GateSound
  BY DEF Init, GateSound
<1>2. IInv /\ GateSound /\ [Next]_vars => GateSound'
  <2> SUFFICES ASSUME IInv, GateSound, [Next]_vars PROVE GateSound'
    OBVIOUS
  <2>1. CASE UNCHANGED vars
    BY <2>1 DEF vars, GateSound, Pinned, Published
  <2>2. CASE run' = NoRun
    BY <2>2 DEF GateSound
  <2>3. ASSUME NEW c \in Versions, Price(c) PROVE GateSound'
    BY <2>3, PriceGated DEF IInv
  <2> QED
    BY <2>1, <2>2, <2>3, RunSteps
<1>3. IInv /\ GateSound => HighImpactWasApproved
  <2> SUFFICES ASSUME IInv, GateSound, run # NoRun, Pinned(run.of) = <<>>,
                      NEW i \in DOMAIN run.rules, Terms[run.rules[i]].high
               PROVE  run.rules[i] \in granted
    BY DEF IInv, ForceGranted, HighImpactWasApproved
  <2> QED
    BY DEF GateSound, IInv, ForceGranted, Published
<1> QED
  BY <1>1, <1>2, <1>3, CatalogueStaysSound, PTL DEF Spec

\* The engine can apply the terms of any list of rule versions.
LEMMA RulesApply ==
    ASSUME NEW list \in Seq(RuleVersions)
    PROVE  /\ RuleList(RulesOf(list)) /\ Len(RulesOf(list)) = Len(list)
           /\ DOMAIN RulesOf(list) = DOMAIN list /\ DOMAIN list = 1..Len(list)
           /\ \A i \in DOMAIN list : list[i] \in RuleVersions /\ RulesOf(list)[i] = Terms[list[i]]
<1> DEFINE rules == RulesOf(list)
<1>1. /\ Len(list) \in Nat /\ DOMAIN list = 1..Len(list)
      /\ \A i \in DOMAIN list : list[i] \in RuleVersions
  BY LenProperties, ElementOfSeq
<1>2. rules = [i \in 1..Len(list) |-> Terms[list[i]]]
  BY <1>1 DEF RulesOf
<1> HIDE DEF rules
<1>3. /\ DOMAIN rules = 1..Len(list) /\ rules = [i \in 1..Len(list) |-> rules[i]]
      /\ \A i \in 1..Len(list) : rules[i] = Terms[list[i]]
  BY <1>2
<1>4. Len(rules) = Len(list)
  BY <1>1, <1>3, LenIs
<1>5. \A v \in RuleVersions : Effective(Terms[v])
  BY TermsAssumption DEF Effective
<1>6. RuleList(rules)
  BY <1>1, <1>3, <1>4, <1>5 DEF RuleList
<1> QED
  BY <1>1, <1>3, <1>4, <1>6 DEF rules

\* The bills a month may consist of are lists of records.
LEMMA BillsAre ==
    ASSUME NEW bill \in Bills
    PROVE  RecordList(bill)
  BY BillsAssumption DEF RecordList, Amounts

\* A run has slices, rules and records the engine's lemmas are about.
LEMMA RunParts ==
    ASSUME RunSound, run # NoRun
    PROVE  /\ RecordList(run.records) /\ SliceList(run.bill) /\ RuleList(RulesOf(run.rules))
           /\ run.rules \in Seq(RuleVersions)
  BY BillsAre, SlicesAre, RulesApply DEF RunSound

\* An order of the places of a list is a permutation of them.
LEMMA OrdersPermute ==
    ASSUME NEW N \in Nat, NEW p \in Orders(1..N)
    PROVE  Permutes(p, 1..N)
<1>1. IsFiniteSet(1..N) /\ Cardinality(1..N) = N
  <2>1. /\ IsFiniteSet(1..N)
        /\ Cardinality(1..N) = IF 1 > N THEN 0 ELSE N - 1 + 1
    BY FS_Interval
  <2> QED
    BY <2>1
<1>2. p \in [1..N -> 1..N] /\ \A i, j \in 1..N : p[i] = p[j] => i = j
  BY <1>1 DEF Orders
<1>3. p \in Injection(1..N, 1..N)
  BY <1>2 DEF Injection, IsInjective
<1>4. p \in Surjection(1..N, 1..N)
  BY <1>1, <1>3, FS_Injection
<1>5. \A i \in 1..N : \E j \in 1..N : p[j] = i
  BY <1>4 DEF Surjection
<1> QED
  BY <1>2, <1>5 DEF Permutes

\* What a run computes does not depend on how its rules are listed, when no two
\* of its rule versions tie.
THEOREM RunsCanBeReplayed == Spec => []RunsReplay
<1>1. RunSound => RunsReplay
  <2> SUFFICES ASSUME RunSound, run # NoRun, Ranked(run.rules), NEW p \in Orders(DOMAIN run.rules)
               PROVE  LET listed == [i \in DOMAIN run.rules |-> run.rules[p[i]]]
                      IN  Priced(run.bill, RulesOf(listed), Policy[run.of]) = run.out
    BY DEF RunsReplay
  <2> DEFINE list == run.rules
             rules == RulesOf(list)
             D == DOMAIN list
             listed == [i \in D |-> list[p[i]]]
             relisted == RulesOf(listed)
  <2>1. /\ RuleList(rules) /\ Len(rules) = Len(list) /\ DOMAIN rules = D /\ D = 1..Len(list)
        /\ \A i \in D : list[i] \in RuleVersions /\ rules[i] = Terms[list[i]]
        /\ Rules(rules)
    BY RunParts, RulesApply, SortedRules
  <2>2. Len(list) \in Nat
    BY <2>1 DEF RuleList
  <2>3. Permutes(p, D)
    BY <2>1, <2>2, OrdersPermute
  <2>4. DOMAIN listed = D /\ \A i \in D : listed[i] = list[p[i]]
    OBVIOUS
  <2>5. relisted = [i \in D |-> rules[p[i]]]
    <3>1. \A i \in D : p[i] \in D
      BY <2>3 DEF Permutes
    <3>2. \A i \in D : Terms[listed[i]] = rules[p[i]]
      BY <2>1, <2>4, <3>1
    <3>3. relisted = [i \in D |-> Terms[listed[i]]]
      BY <2>4 DEF RulesOf
    <3> HIDE DEF relisted, listed, rules, list
    <3> QED
      BY <3>2, <3>3
  <2> HIDE DEF relisted, listed
  <2>6. Len(relisted) = Len(rules)
    <3>1. relisted = [i \in 1..Len(list) |-> relisted[i]]
      BY <2>1, <2>5
    <3> QED
      BY <2>1, <2>2, <3>1, LenIs
  <2>7. ASSUME NEW i \in D, NEW j \in D, Ties(rules[i], rules[j]) PROVE rules[i] = rules[j]
    <3>1. rules[i] = Terms[list[i]] /\ rules[j] = Terms[list[j]]
      BY <2>1
    <3>2. list[i] = list[j]
      BY <2>7, <3>1 DEF Ranked, Ties
    <3> QED
      BY <3>1, <3>2
  <2>8. Sorted(relisted) = Sorted(rules)
    BY <2>1, <2>3, <2>5, <2>6, <2>7, SortedOnce
  <2>9. Priced(run.bill, relisted, Policy[run.of]) = Priced(run.bill, rules, Policy[run.of])
    BY <2>8 DEF Priced
  <2>10. Priced(run.bill, rules, Policy[run.of]) = run.out
    BY DEF RunSound
  <2> QED
    BY <2>9, <2>10 DEF relisted, listed
<1> QED
  BY <1>1, RunsAreSound, PTL

\* Rules on the original input compose in every run.
THEOREM RunsCompose == Spec => []OriginalInputComposes
<1>1. RunSound => OriginalInputComposes
  <2> DEFINE rules == RulesOf(run.rules)
             b(s) == ContractBasis(s, Policy[run.of].basis)
             part(s, r) == IF Matches(r, s) THEN Additive(r, s, b(s)) ELSE 0
  <2> SUFFICES ASSUME RunSound, run # NoRun,
                      \A i \in DOMAIN rules : rules[i].basis = "original_input"
                                              /\ ~Replaces(rules[i]),
                      NEW n \in DOMAIN run.bill
               PROVE  run.out.lines[n].amount
                      = b(run.bill[n]) + SumOf([i \in DOMAIN rules |-> part(run.bill[n], rules[i])])
    BY DEF OriginalInputComposes
  <2> DEFINE s == run.bill[n]
             parts == [i \in DOMAIN rules |-> part(s, rules[i])]
  <2>1. SliceList(run.bill) /\ RuleList(rules)
    BY RunParts
  <2>2. run.out = Priced(run.bill, rules, Policy[run.of])
    BY DEF RunSound
  <2> HIDE DEF rules
  <2>3. Len(rules) \in Nat /\ DOMAIN rules = 1..Len(rules)
    BY <2>1 DEF RuleList
  <2>4. Len(parts) = Len(rules)
    <3>1. parts = [i \in 1..Len(rules) |-> parts[i]]
      BY <2>3
    <3> HIDE DEF parts
    <3> QED
      BY <2>3, <3>1, LenIs
  <2>5. \A i \in DOMAIN rules : parts[i] = part(s, rules[i])
    OBVIOUS
  <2> HIDE DEF parts
  <2>6. Priced(run.bill, rules, Policy[run.of]).lines[n].amount = b(s) + SumOf(parts)
    <3> DEFINE policy == Policy[run.of]
               slices == run.bill
    <3>1. /\ SliceList(slices) /\ RuleList(rules) /\ n \in DOMAIN slices /\ OnOriginal(rules)
          /\ Additions(rules, slices[n], ContractBasis(slices[n], policy.basis), parts)
      BY <2>1, <2>4, <2>5 DEF OnOriginal, Additions
    <3> HIDE DEF policy, slices
    <3>2. Priced(slices, rules, policy).lines[n].amount
          = ContractBasis(slices[n], policy.basis) + SumOf(parts)
      BY <3>1, PricedComposes
    <3> QED
      BY <3>2 DEF policy, slices
  <2> QED
    BY <2>2, <2>6 DEF parts
<1> QED
  BY <1>1, RunsAreSound, PTL

\* The items of a run come to what its records, its rules and its limits say.
THEOREM RunsComeToTheirTotal == Spec => []RunsAddUp
<1>1. RunSound => RunsAddUp
  <2> SUFFICES ASSUME RunSound, run # NoRun
               PROVE  EveryRecordCounts /\ ItemsAddUp /\ LastLimitHolds
    BY DEF RunsAddUp
  <2>1. RecordList(run.records) /\ SliceList(run.bill) /\ RuleList(RulesOf(run.rules))
    BY RunParts
  <2>2. /\ run.bill = Aggregated(run.records, Policy[run.of].grouping)
        /\ run.out = Priced(run.bill, RulesOf(run.rules), Policy[run.of])
    BY DEF RunSound
  <2>3. EveryRecordCounts
    <3>1. ASSUME NEW field \in {"list", "ondemand", "net", "credit", "support", "tax"}
          PROVE  SumOf(Column(run.bill, field)) = SumOf(Column(run.records, field))
      <4> DEFINE records == run.records
                 grouping == Policy[run.of].grouping
      <4>1. RecordList(records) /\ run.bill = Aggregated(records, grouping)
        BY <2>1, <2>2
      <4> HIDE DEF records, grouping
      <4>2. SumOf(Column(Aggregated(records, grouping), field)) = SumOf(Column(records, field))
        BY <4>1, SlicesCount
      <4> QED
        BY <4>1, <4>2 DEF records
    <3> QED
      BY <3>1 DEF EveryRecordCounts, Column
  <2>4. ItemsAddUp
    BY <2>1, <2>2, PricedAddsUp DEF ItemsAddUp
  <2>5. LastLimitHolds
    <3> DEFINE rules == RulesOf(run.rules)
               limits == {i \in DOMAIN rules : rules[i].type \in LimitTypes}
    <3>1. ASSUME NEW i \in limits, \A j \in limits : ~Before(rules, i, j)
          PROVE  Respects(run.out.total, rules[i], Policy[run.of].mode)
      BY <2>1, <2>2, <3>1, PricedRespects
    <3> QED
      BY <3>1 DEF LastLimitHolds, Respects, LimitTypes
  <2> QED
    BY <2>3, <2>4, <2>5
<1> QED
  BY <1>1, RunsAreSound, PTL
==============================================================================
