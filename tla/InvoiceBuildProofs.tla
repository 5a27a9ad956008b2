------------------------- MODULE InvoiceBuildProofs -------------------------
(***************************************************************************)
(* Proofs about PricingRuns and InvoiceBuild for any number of pricing      *)
(* requests, sessions and invoices: the safety invariants the run checks,   *)
(* that the unlocked pricing code implements RunHistory, gapless invoice    *)
(* numbers, and that an invoice only ever prices a completed run.           *)
(*                                                                         *)
(* What makes the invariants of the runs inductive is what a request knows  *)
(* while it holds an uncommitted row: the numbers it read are still the top *)
(* and the current run, because nobody else can hold or have committed the  *)
(* number it waits for.                                                    *)
(***************************************************************************)
EXTENDS InvoiceBuild, TLAPS

----------------------------------------------------------------------------
(* Pricing runs.                                                            *)


\* A row is committed by the request it belongs to, with a number from 1 on.
RowsCommitted ==
    \A q \in History!Recorded : pc[q] \in {"done", "failed"} /\ run[q].number > 0

\* The number a request read was committed, or there was none.
TopWasRead ==
    \A q \in Requests : pc[q] \in {"readTop", "readPrev", "pricing"} =>
        top[q] = 0 \/ \E r \in History!Recorded : run[r].number = top[q]

\* While the number it read is still the highest, the run it read is current.
PrevIsFresh ==
    \A q \in Requests :
        pc[q] = "readPrev" /\ History!IsTop(top[q]) => History!IsCurrent(prev[q])

\* A request that prices extends the history as it is now.
PricingExtends ==
    \A q \in Requests :
        pc[q] = "pricing" => History!IsTop(top[q]) /\ History!IsCurrent(prev[q])

OneAtATime ==
    \A q, r \in Requests : pc[q] = "pricing" /\ pc[r] = "pricing" => q = r

\* A run that names a predecessor superseded it.
ChainLinked ==
    \A p \in Requests : \A q \in Successors(p) :
        /\ p \in History!Recorded
        /\ run[p].status = "superseded"
        /\ run[p].number < run[q].number

IInv ==
    /\ RunsTypeOK /\ RowsCommitted
    /\ NumbersLinear /\ OneCurrentRun
    /\ TopWasRead /\ PrevIsFresh /\ PricingExtends /\ OneAtATime
    /\ ChainLinked /\ ChainUnforked

----------------------------------------------------------------------------
\* What writing the row of a pricing request q does to the table.
LEMMA RecordEffect ==
    ASSUME IInv, NEW q \in Requests, pc[q] = "pricing",
           NEW st \in {"completed", "failed"},
           History!Record(q, top[q] + 1, prev[q], st)
    PROVE  /\ run' \in [Requests -> RunRow]
           /\ run'[q] = [number |-> top[q] + 1, status |-> st, supersedes |-> prev[q]]
           /\ \A x \in Requests \ {q} :
                /\ run'[x].number = run[x].number
                /\ run'[x].supersedes = run[x].supersedes
                /\ run'[x].status = IF x = prev[q] /\ st = "completed"
                                    THEN "superseded" ELSE run[x].status
           /\ q \notin History!Recorded
           /\ History!Recorded' = History!Recorded \cup {q}
           /\ prev[q] \in History!Recorded \cup {NoRun}
<1>1. q \notin History!Recorded
  BY DEF IInv, RowsCommitted, History!Recorded
<1>2. prev[q] \in History!Recorded \cup {NoRun}
  BY DEF IInv, PricingExtends, History!IsCurrent
<1>3. prev[q] # q
  BY <1>1, <1>2, NoRunAssumption
<1>4. top[q] + 1 \in Nat /\ prev[q] \in Requests \cup {NoRun}
  BY DEF IInv, RunsTypeOK
<1>5. /\ run'[q] = [number |-> top[q] + 1, status |-> st, supersedes |-> prev[q]]
      /\ \A x \in Requests \ {q} :
           run'[x] = IF x = prev[q] /\ st = "completed"
                     THEN [run[x] EXCEPT !.status = "superseded"] ELSE run[x]
      /\ DOMAIN run' = Requests /\ run' = [x \in Requests |-> run'[x]]
  BY <1>3 DEF History!Record
<1>6. \A x \in Requests : run[x] \in RunRow
  BY DEF IInv, RunsTypeOK
<1>7. \A x \in Requests \ {q} :
           /\ run'[x] \in RunRow
           /\ run'[x].number = run[x].number
           /\ run'[x].supersedes = run[x].supersedes
           /\ run'[x].status = IF x = prev[q] /\ st = "completed"
                               THEN "superseded" ELSE run[x].status
  BY <1>5, <1>6 DEF RunRow
<1>8. run' \in [Requests -> RunRow]
  BY <1>4, <1>5, <1>7 DEF RunRow
<1>9. History!Recorded' = History!Recorded \cup {q}
  BY <1>1, <1>2, <1>5, <1>7, NoRunAssumption DEF History!Recorded
<1> QED
  BY <1>1, <1>2, <1>5, <1>7, <1>8, <1>9

\* The committed table has one highest number.
LEMMA TopUnique ==
    ASSUME IInv, NEW m \in Nat, NEW n \in Nat, History!IsTop(m), History!IsTop(n)
    PROVE  m = n
  BY DEF IInv, RowsCommitted, RunsTypeOK, RunRow, History!IsTop, History!Recorded

----------------------------------------------------------------------------
\* The empty history satisfies the invariant.
LEMMA InitInv == RunsInit => IInv
<1> SUFFICES ASSUME RunsInit PROVE IInv
  OBVIOUS
<1> USE DEF RunsInit, History!Init, History!Absent
<1>1. RunsTypeOK
  BY DEF RunsTypeOK, RunRow, Steps
<1>2. History!Recorded = {}
  BY DEF History!Recorded
<1>3. RowsCommitted /\ NumbersLinear /\ OneCurrentRun
  BY <1>2 DEF RowsCommitted, NumbersLinear, OneCurrentRun
<1>4. TopWasRead /\ PrevIsFresh /\ PricingExtends /\ OneAtATime
  BY DEF TopWasRead, PrevIsFresh, PricingExtends, OneAtATime
<1>5. ChainLinked /\ ChainUnforked
  BY <1>2 DEF ChainLinked, ChainUnforked, Successors
<1> QED
  BY <1>1, <1>3, <1>4, <1>5 DEF IInv

\* A step that commits nothing leaves what is said of the table alone.
LEMMA TableUnchanged ==
    ASSUME IInv, UNCHANGED run, NEW q \in Requests,
           \A r \in Requests : pc[r] \in {"done", "failed"} => pc'[r] = pc[r]
    PROVE  RowsCommitted' /\ NumbersLinear' /\ OneCurrentRun' /\ ChainLinked' /\ ChainUnforked'
<1>1. History!Recorded' = History!Recorded
  BY DEF History!Recorded
<1>2. RowsCommitted'
  BY <1>1 DEF IInv, RowsCommitted, History!Recorded
<1>3. NumbersLinear' /\ OneCurrentRun'
  BY <1>1 DEF IInv, NumbersLinear, OneCurrentRun
<1>4. \A p \in Requests : Successors(p)' = Successors(p)
  BY <1>1 DEF Successors
<1>5. ChainLinked' /\ ChainUnforked'
  BY <1>1, <1>4 DEF IInv, ChainLinked, ChainUnforked, History!Recorded
<1> QED
  BY <1>2, <1>3, <1>5

\* Steps before the insert and steps that give up.
LEMMA QuietStepInv ==
    ASSUME IInv, NEW q \in Requests,
           Refuse(q) \/ InsertConflict(q) \/ Lose(q)
    PROVE  IInv'
<1> USE DEF Refuse, InsertConflict, Lose, Goto
<1>1. /\ UNCHANGED <<run, top, prev>>
      /\ pc' = [pc EXCEPT ![q] = "refused"]
      /\ pc[q] \notin {"done", "failed"}
  OBVIOUS
<1>2. pc \in [Requests -> Steps]
  BY DEF IInv, RunsTypeOK
<1>3. \A r \in Requests : pc'[r] = IF r = q THEN "refused" ELSE pc[r]
  BY <1>1, <1>2
<1>4. RowsCommitted' /\ NumbersLinear' /\ OneCurrentRun' /\ ChainLinked' /\ ChainUnforked'
  BY <1>1, <1>3, TableUnchanged
<1>5. RunsTypeOK'
  BY <1>1 DEF IInv, RunsTypeOK, Steps
<1>6. History!Recorded' = History!Recorded
  BY <1>1 DEF History!Recorded
<1>7. TopWasRead'
  BY <1>1, <1>3, <1>6 DEF IInv, TopWasRead
<1>8. /\ \A m \in Nat : History!IsTop(m)' = History!IsTop(m)
      /\ \A p \in Requests \cup {NoRun} : History!IsCurrent(p)' = History!IsCurrent(p)
  BY <1>1, <1>6 DEF History!IsTop, History!IsCurrent
<1>9. PrevIsFresh' /\ PricingExtends' /\ OneAtATime'
  BY <1>1, <1>3, <1>8 DEF IInv, RunsTypeOK, PrevIsFresh, PricingExtends, OneAtATime
<1> QED
  BY <1>4, <1>5, <1>7, <1>9 DEF IInv

\* A request that reads the highest number has read the top of the history.
LEMMA ReadTopInv ==
    ASSUME IInv, NEW q \in Requests, ReadTop(q)
    PROVE  IInv'
<1>1. PICK m \in History!Numbers : History!IsTop(m) /\ top' = [top EXCEPT ![q] = m]
  BY DEF ReadTop
<1>2. m \in Nat
  BY DEF History!Numbers, IInv, RunsTypeOK, RunRow
<1>3. /\ UNCHANGED <<run, prev>>
      /\ pc[q] = "start"
      /\ \A r \in Requests : pc'[r] = IF r = q THEN "readTop" ELSE pc[r]
      /\ \A r \in Requests : top'[r] = IF r = q THEN m ELSE top[r]
  BY <1>1 DEF ReadTop, Goto, IInv, RunsTypeOK
<1>4. RowsCommitted' /\ NumbersLinear' /\ OneCurrentRun' /\ ChainLinked' /\ ChainUnforked'
  BY <1>3, TableUnchanged
<1>5. RunsTypeOK'
  BY <1>1, <1>2 DEF IInv, RunsTypeOK, ReadTop, Goto, Steps
<1>6. History!Recorded' = History!Recorded
  BY <1>3 DEF History!Recorded
<1>7. TopWasRead'
  BY <1>1, <1>3, <1>6 DEF IInv, TopWasRead, History!IsTop
<1>8. /\ \A n \in Nat : History!IsTop(n)' = History!IsTop(n)
      /\ \A p \in Requests \cup {NoRun} : History!IsCurrent(p)' = History!IsCurrent(p)
  BY <1>3, <1>6 DEF History!IsTop, History!IsCurrent
<1>9. PrevIsFresh' /\ PricingExtends' /\ OneAtATime'
  BY <1>3, <1>8 DEF IInv, RunsTypeOK, PrevIsFresh, PricingExtends, OneAtATime
<1> QED
  BY <1>4, <1>5, <1>7, <1>9 DEF IInv

\* A request that reads the current run has read it no earlier than its number.
LEMMA ReadPreviousInv ==
    ASSUME IInv, NEW q \in Requests, ReadPrevious(q)
    PROVE  IInv'
<1>1. PICK p \in History!RunIds : History!IsCurrent(p) /\ prev' = [prev EXCEPT ![q] = p]
  BY DEF ReadPrevious
<1>2. /\ UNCHANGED <<run, top>>
      /\ pc[q] = "readTop"
      /\ \A r \in Requests : pc'[r] = IF r = q THEN "readPrev" ELSE pc[r]
      /\ \A r \in Requests : prev'[r] = IF r = q THEN p ELSE prev[r]
  BY <1>1 DEF ReadPrevious, Goto, IInv, RunsTypeOK
<1>3. RowsCommitted' /\ NumbersLinear' /\ OneCurrentRun' /\ ChainLinked' /\ ChainUnforked'
  BY <1>2, TableUnchanged
<1>4. RunsTypeOK'
  BY <1>1 DEF IInv, RunsTypeOK, ReadPrevious, Goto, Steps, History!RunIds
<1>5. History!Recorded' = History!Recorded
  BY <1>2 DEF History!Recorded
<1>6. TopWasRead'
  BY <1>2, <1>5 DEF IInv, TopWasRead
<1>7. /\ \A n \in Nat : History!IsTop(n)' = History!IsTop(n)
      /\ \A x \in Requests \cup {NoRun} : History!IsCurrent(x)' = History!IsCurrent(x)
  BY <1>2, <1>5 DEF History!IsTop, History!IsCurrent
<1>8. PrevIsFresh' /\ PricingExtends' /\ OneAtATime'
  BY <1>1, <1>2, <1>7
  DEF IInv, RunsTypeOK, PrevIsFresh, PricingExtends, OneAtATime, History!RunIds
<1> QED
  BY <1>3, <1>4, <1>6, <1>8 DEF IInv

\* The insert succeeds only when the number read is still the top: were there a
\* higher one, the gapless table would hold the number this request wants.
LEMMA InsertInv ==
    ASSUME IInv, NEW q \in Requests, Insert(q)
    PROVE  IInv'
<1>1. /\ UNCHANGED <<run, top, prev>>
      /\ pc[q] = "readPrev" /\ ~NumberHeld(q) /\ ~NumberTaken(q)
      /\ \A r \in Requests : pc'[r] = IF r = q THEN "pricing" ELSE pc[r]
  BY DEF Insert, Goto, IInv, RunsTypeOK
<1>2. top[q] \in Nat /\ \A r \in Requests : run[r].number \in Nat
  BY DEF IInv, RunsTypeOK, RunRow
<1>3. History!IsTop(top[q])
  <2>1. top[q] = 0 \/ \E r \in History!Recorded : run[r].number = top[q]
    BY <1>1 DEF IInv, TopWasRead
  <2>2. ASSUME NEW r \in History!Recorded, run[r].number > top[q]
        PROVE  FALSE
    <3>1. top[q] + 1 \in 1..run[r].number
      BY <1>2, <2>2 DEF History!Recorded
    <3>2. PICK p \in History!Recorded : run[p].number = top[q] + 1
      BY <3>1 DEF IInv, NumbersLinear
    <3> QED
      BY <1>1, <3>2 DEF NumberTaken
  <2> QED
    BY <1>2, <2>1, <2>2 DEF History!IsTop, History!Recorded
<1>4. History!IsCurrent(prev[q])
  BY <1>1, <1>3 DEF IInv, PrevIsFresh
<1>5. \A r \in Requests \ {q} : pc[r] # "pricing"
  <2>1. ASSUME NEW r \in Requests \ {q}, pc[r] = "pricing"
        PROVE  top[r] = top[q]
    <3>1. History!IsTop(top[r]) /\ top[r] \in Nat
      BY <2>1 DEF IInv, PricingExtends, RunsTypeOK
    <3> QED
      BY <1>2, <1>3, <3>1, TopUnique
  <2> QED
    BY <1>1, <2>1 DEF NumberHeld
<1>6. RowsCommitted' /\ NumbersLinear' /\ OneCurrentRun' /\ ChainLinked' /\ ChainUnforked'
  BY <1>1, TableUnchanged
<1>7. RunsTypeOK'
  BY DEF IInv, RunsTypeOK, Insert, Goto, Steps
<1>8. History!Recorded' = History!Recorded
  BY <1>1 DEF History!Recorded
<1>9. TopWasRead'
  BY <1>1, <1>8 DEF IInv, TopWasRead
<1>10. /\ \A n \in Nat : History!IsTop(n)' = History!IsTop(n)
       /\ \A x \in Requests \cup {NoRun} : History!IsCurrent(x)' = History!IsCurrent(x)
  BY <1>1, <1>8 DEF History!IsTop, History!IsCurrent
<1>11. PrevIsFresh' /\ PricingExtends' /\ OneAtATime'
  BY <1>1, <1>3, <1>4, <1>5, <1>10
  DEF IInv, RunsTypeOK, PrevIsFresh, PricingExtends, OneAtATime
<1> QED
  BY <1>6, <1>7, <1>9, <1>11 DEF IInv

----------------------------------------------------------------------------
\* The commit of a priced run, completed or failed.
LEMMA CommitInv ==
    ASSUME IInv, NEW q \in Requests, Complete(q) \/ Fail(q)
    PROVE  IInv'
<1>1. PICK st \in {"completed", "failed"} :
        /\ pc[q] = "pricing"
        /\ History!Record(q, top[q] + 1, prev[q], st)
        /\ UNCHANGED <<top, prev>>
        /\ pc' = [pc EXCEPT ![q] = IF st = "completed" THEN "done" ELSE "failed"]
  BY DEF Complete, Fail, Goto
<1> DEFINE Old == History!Recorded
<1>2. /\ run' \in [Requests -> RunRow]
      /\ run'[q] = [number |-> top[q] + 1, status |-> st, supersedes |-> prev[q]]
      /\ \A x \in Requests \ {q} :
           /\ run'[x].number = run[x].number
           /\ run'[x].supersedes = run[x].supersedes
           /\ run'[x].status = IF x = prev[q] /\ st = "completed"
                               THEN "superseded" ELSE run[x].status
      /\ q \notin Old
      /\ History!Recorded' = Old \cup {q}
      /\ prev[q] \in Old \cup {NoRun}
  BY <1>1, RecordEffect
<1>3. /\ History!IsTop(top[q]) /\ History!IsCurrent(prev[q])
      /\ \A r \in Requests \ {q} : pc[r] # "pricing"
  BY <1>1 DEF IInv, PricingExtends, OneAtATime
<1>4. /\ top[q] \in Nat /\ Old \subseteq Requests
      /\ \A r \in Requests : run[r].number \in Nat
      /\ \A r \in Old : run[r].number <= top[q]
  BY <1>3 DEF IInv, RunsTypeOK, RunRow, History!IsTop, History!Recorded
<1>5. \A r \in Requests :
        pc'[r] = IF r = q THEN IF st = "completed" THEN "done" ELSE "failed" ELSE pc[r]
  BY <1>1 DEF IInv, RunsTypeOK
<1>6. RunsTypeOK'
  BY <1>1, <1>2, <1>5 DEF IInv, RunsTypeOK, Steps
<1>7. RowsCommitted'
  BY <1>2, <1>4, <1>5 DEF IInv, RowsCommitted
<1>8. NumbersLinear'
  <2>1. \A a, b \in Old \cup {q} : run'[a].number = run'[b].number => a = b
    BY <1>2, <1>4 DEF IInv, NumbersLinear
  <2>2. ASSUME NEW a \in Old \cup {q}, NEW k \in 1..run'[a].number
        PROVE  \E p \in Old \cup {q} : run'[p].number = k
    <3>1. CASE k = top[q] + 1
      BY <1>2, <3>1
    <3>2. CASE k <= top[q]
      <4>1. PICK r \in Old : run[r].number = top[q]
        BY <1>3, <1>4, <3>2 DEF History!IsTop
      <4>2. PICK p \in Old : run[p].number = k
        BY <1>4, <3>2, <4>1 DEF IInv, NumbersLinear
      <4> QED
        BY <1>2, <1>4, <4>2
    <3>3. k <= top[q] + 1
      BY <1>2, <1>4
    <3> QED
      BY <1>4, <3>1, <3>2, <3>3
  <2> QED
    BY <1>2, <2>1, <2>2 DEF NumbersLinear
<1>9. OneCurrentRun'
  <2>1. ASSUME st = "completed", NEW a \in Old PROVE run'[a].status # "completed"
    <3>1. CASE run[a].status = "completed"
      <4>1. /\ prev[q] \in Old /\ run[prev[q]].status = "completed"
        BY <1>2, <1>3, <3>1 DEF History!IsCurrent
      <4>2. a = prev[q]
        BY <3>1, <4>1 DEF IInv, OneCurrentRun
      <4> QED
        BY <1>2, <1>4, <2>1, <4>2
    <3>2. CASE run[a].status # "completed"
      BY <1>2, <1>4, <3>2
    <3> QED
      BY <3>1, <3>2
  <2>2. CASE st = "completed"
    BY <1>2, <2>1, <2>2 DEF OneCurrentRun
  <2>3. CASE st = "failed"
    BY <1>2, <1>4, <2>3 DEF IInv, OneCurrentRun
  <2> QED
    BY <2>2, <2>3
<1>10. TopWasRead'
  BY <1>1, <1>2, <1>4, <1>5 DEF IInv, TopWasRead
<1>11. PrevIsFresh'
  <2> SUFFICES ASSUME NEW r \in Requests, pc'[r] = "readPrev", History!IsTop(top[r])'
               PROVE  FALSE
    BY DEF PrevIsFresh
  <2>1. r # q /\ pc[r] = "readPrev" /\ top'[r] = top[r] /\ top[r] \in Nat
    BY <1>1, <1>5 DEF IInv, RunsTypeOK
  <2>2. run'[q].number <= top[r]
    BY <1>2, <2>1 DEF History!IsTop
  <2>3. top[r] <= top[q]
    BY <1>4, <2>1 DEF IInv, TopWasRead
  <2> QED
    BY <1>2, <1>4, <2>1, <2>2, <2>3
<1>12. PricingExtends' /\ OneAtATime'
  BY <1>3, <1>5 DEF PricingExtends, OneAtATime
<1>13. ASSUME NEW p \in Requests, NEW x \in Successors(p)'
       PROVE  \/ /\ x \in Successors(p) /\ x # q /\ p \in Old
                 /\ run[p].status = "superseded" /\ run[p].number < run[x].number
              \/ /\ x = q /\ p = prev[q] /\ p \in Old /\ st = "completed"
                 /\ run[p].status = "completed" /\ run[p].number <= top[q]
  <2>1. CASE x = q
    BY <1>2, <1>3, <1>4, <2>1, NoRunAssumption DEF Successors, History!IsCurrent
  <2>2. CASE x # q
    <3>1. x \in Old /\ run[x].supersedes = p
      BY <1>2, <1>4, <2>2 DEF Successors
    <3>2. run[x].status \in {"completed", "superseded"}
      <4>1. CASE x = prev[q]
        BY <1>3, <1>4, <3>1, <4>1, NoRunAssumption DEF History!IsCurrent
      <4>2. CASE x # prev[q]
        BY <1>2, <1>4, <2>2, <3>1, <4>2 DEF Successors
      <4> QED
        BY <4>1, <4>2
    <3>3. x \in Successors(p)
      BY <3>1, <3>2 DEF Successors
    <3> QED
      BY <2>2, <3>3 DEF IInv, ChainLinked
  <2> QED
    BY <2>1, <2>2
<1>14. ChainLinked'
  <2> SUFFICES ASSUME NEW p \in Requests, NEW x \in Successors(p)'
               PROVE  /\ p \in Old \cup {q}
                      /\ run'[p].status = "superseded"
                      /\ run'[p].number < run'[x].number
    BY <1>2 DEF ChainLinked
  <2> QED
    BY <1>2, <1>4, <1>13 DEF Successors, History!Recorded
<1>15. ChainUnforked'
  <2> SUFFICES ASSUME NEW p \in Old \cup {q}
               PROVE  /\ run'[p].status = "superseded" => \E x \in Successors(p)' : TRUE
                      /\ \A x, y \in Successors(p)' : x = y
                      /\ \A x \in Successors(p)' : run'[x].number > run'[p].number
    BY <1>2 DEF ChainUnforked
  <2>1. ASSUME run'[p].status = "superseded" PROVE \E x \in Successors(p)' : TRUE
    <3>1. p \in Old /\ p # q
      BY <1>2, <2>1
    <3>2. CASE p = prev[q] /\ st = "completed"
      BY <1>2, <3>2 DEF Successors
    <3>3. CASE ~(p = prev[q] /\ st = "completed")
      <4>1. run[p].status = "superseded"
        BY <1>2, <1>4, <2>1, <3>1, <3>3
      <4>2. PICK x \in Successors(p) : TRUE
        BY <3>1, <4>1 DEF IInv, ChainUnforked
      <4>3. x \in Old /\ x # q
        BY <1>2, <4>2 DEF Successors
      <4>4. x \in Successors(p)'
        BY <1>2, <1>4, <4>2, <4>3 DEF Successors
      <4> QED
        BY <4>4
    <3> QED
      BY <3>2, <3>3
  <2>2. ASSUME NEW x \in Successors(p)', NEW y \in Successors(p)' PROVE x = y
    BY <1>2, <1>4, <1>13 DEF IInv, ChainUnforked
  <2>3. ASSUME NEW x \in Successors(p)' PROVE run'[x].number > run'[p].number
    BY <1>2, <1>4, <1>13 DEF Successors, History!Recorded
  <2> QED
    BY <2>1, <2>2, <2>3
<1> QED
  BY <1>6, <1>7, <1>8, <1>9, <1>10, <1>11, <1>12, <1>14, <1>15 DEF IInv

----------------------------------------------------------------------------
\* The invariant is inductive: every step of every pricing request keeps it.
LEMMA NextInv == IInv /\ [RunsNext]_rvars => IInv'
<1>1. CASE UNCHANGED rvars
  <2>1. ASSUME IInv, UNCHANGED rvars PROVE IInv'
    BY <2>1
    DEF rvars, IInv, RunsTypeOK, RowsCommitted, NumbersLinear, OneCurrentRun, TopWasRead,
        PrevIsFresh, PricingExtends, OneAtATime, ChainLinked, ChainUnforked, Successors,
        History!IsTop, History!IsCurrent, History!Recorded
  <2> QED
    BY <1>1, <2>1
<1>2. ASSUME IInv, NEW q \in Requests, RequestStep(q)
      PROVE  IInv'
  <2>1. CASE Refuse(q) \/ InsertConflict(q) \/ Lose(q)
    BY <1>2, <2>1, QuietStepInv
  <2>2. CASE ReadTop(q)
    BY <1>2, <2>2, ReadTopInv
  <2>3. CASE ReadPrevious(q)
    BY <1>2, <2>3, ReadPreviousInv
  <2>4. CASE Insert(q)
    BY <1>2, <2>4, InsertInv
  <2>5. CASE Complete(q) \/ Fail(q)
    BY <1>2, <2>5, CommitInv
  <2> QED
    BY <1>2, <2>1, <2>2, <2>3, <2>4, <2>5 DEF RequestStep
<1> QED
  BY <1>1, <1>2 DEF RunsNext

\* The inductive invariant holds in every reachable state.
THEOREM Invariance == RunsSpec => []IInv
  BY InitInv, NextInv, PTL DEF RunsSpec

\* Every reachable state is well typed.
THEOREM RunsTypeCorrect == RunsSpec => []RunsTypeOK
<1>1. IInv => RunsTypeOK
  BY DEF IInv
<1> QED
  BY <1>1, Invariance, PTL

\* Run numbers stay unique and gapless for any number of concurrent requests,
\* though run_pricing takes max + 1 without a lock.
THEOREM RunNumbersLinear == RunsSpec => []NumbersLinear
<1>1. IInv => NumbersLinear
  BY DEF IInv
<1> QED
  BY <1>1, Invariance, PTL

\* At most one run of a customer and period is current.
THEOREM AtMostOneCurrentRun == RunsSpec => []OneCurrentRun
<1>1. IInv => OneCurrentRun
  BY DEF IInv
<1> QED
  BY <1>1, Invariance, PTL

\* The chain of supersedes_id never forks.
THEOREM SupersessionUnforked == RunsSpec => []ChainUnforked
<1>1. IInv => ChainUnforked
  BY DEF IInv
<1> QED
  BY <1>1, Invariance, PTL

----------------------------------------------------------------------------
\* Every step of the unlocked code records one run or changes nothing visible.
LEMMA StepRefines == IInv /\ [RunsNext]_rvars => [History!Next]_run
<1>1. CASE UNCHANGED rvars
  BY <1>1 DEF rvars
<1>2. ASSUME IInv, NEW q \in Requests, RequestStep(q)
      PROVE  History!Next \/ UNCHANGED run
  <2>1. ASSUME NEW st \in {"completed", "failed"}, pc[q] = "pricing",
               History!Record(q, top[q] + 1, prev[q], st)
        PROVE  History!RecordRun(q, st)
    <3>1. q \notin History!Recorded
      BY <1>2, <2>1 DEF IInv, RowsCommitted
    <3>2. History!IsTop(top[q]) /\ History!IsCurrent(prev[q])
      BY <1>2, <2>1 DEF IInv, PricingExtends
    <3>3. top[q] \in History!Numbers
      BY <3>2 DEF History!IsTop, History!Numbers, History!Recorded
    <3>4. prev[q] \in History!RunIds
      BY <1>2 DEF IInv, RunsTypeOK, History!RunIds
    <3> QED
      BY <2>1, <3>1, <3>2, <3>3, <3>4 DEF History!RecordRun
  <2>2. CASE Complete(q) \/ Fail(q)
    BY <2>1, <2>2 DEF Complete, Fail, History!Next
  <2>3. CASE ~(Complete(q) \/ Fail(q))
    BY <1>2, <2>3
    DEF RequestStep, Refuse, ReadTop, ReadPrevious, Insert, InsertConflict, Lose
  <2> QED
    BY <2>2, <2>3
<1> QED
  BY <1>1, <1>2 DEF RunsNext

\* The read-then-write code of run_pricing implements atomic recording: a reader
\* of the history never sees one that RunHistory forbids.
THEOREM RunsImplementHistory == RunsSpec => ImplementsHistory
<1>1. RunsInit => History!Init
  BY DEF RunsInit
<1> QED
  BY <1>1, StepRefines, Invariance, PTL DEF RunsSpec, ImplementsHistory, History!Spec

----------------------------------------------------------------------------
(* Invoices built from them.                                                *)


\* The session that holds the sequence row is the one that took a number.
HolderIsNumbered == \A s \in Sessions : at[s] = "numbered" <=> holder = s

\* A number taken is still the next one: the lock kept it so.
NumberIsNext ==
    \A s \in Sessions : at[s] = "numbered" =>
        built[s].row.number = IF nextValue = 0 THEN 1 ELSE nextValue

FreshIds ==
    /\ \A s \in Building : built[s].id \notin Created
    /\ \A s, t \in Building : built[s].id = built[t].id => s = t

EndedWell == {"completed", "superseded"}

RunWasCompleted == \A s \in Building : /\ built[s].row.run \in Requests
                                       /\ run[built[s].row.run].status \in EndedWell

BInv ==
    /\ BuildTypeOK /\ HolderIsNumbered /\ NumberIsNext /\ FreshIds
    /\ RunWasCompleted /\ NumbersGapless /\ InvoicedRunCompleted

----------------------------------------------------------------------------
\* The initial state satisfies the invariant of the builds.
LEMMA BuildInitInv == InvoiceInit => BInv
<1> SUFFICES ASSUME InvoiceInit PROVE BInv
  OBVIOUS
<1> USE DEF InvoiceInit, BuildInit, Blank, NoInvoice
<1>1. BuildTypeOK
  <2>1. (CHOOSE i \in Invoices : TRUE) \in Invoices
    BY InvoicesAssumption
  <2> QED
    BY <2>1 DEF BuildTypeOK, InvoiceRow, BuildSteps
<1>2. Created = {} /\ Building = {}
  BY DEF Created, Building
<1>3. HolderIsNumbered /\ NumberIsNext /\ FreshIds /\ RunWasCompleted
  BY <1>2, NoSessionAssumption DEF HolderIsNumbered, NumberIsNext, FreshIds, RunWasCompleted
<1>4. NumbersGapless /\ InvoicedRunCompleted
  BY <1>2 DEF NumbersGapless, InvoicedRunCompleted
<1> QED
  BY <1>1, <1>3, <1>4 DEF BInv

\* A completed run is superseded at most: no pricing request undoes it.
LEMMA EndedWellStays ==
    ASSUME IInv, [RunsNext]_rvars, NEW p \in Requests, run[p].status \in EndedWell
    PROVE  run'[p].status \in EndedWell
<1>1. CASE UNCHANGED run
  BY <1>1
<1>2. ASSUME NEW q \in Requests, RequestStep(q), ~UNCHANGED run
      PROVE  run'[p].status \in EndedWell
  <2>1. PICK st \in {"completed", "failed"} :
          pc[q] = "pricing" /\ History!Record(q, top[q] + 1, prev[q], st)
    BY <1>2 DEF RequestStep, Refuse, ReadTop, ReadPrevious, Insert, InsertConflict, Lose,
                Complete, Fail
  <2>2. p # q
    <3>1. p \in History!Recorded
      BY DEF EndedWell, History!Recorded
    <3>2. q \notin History!Recorded
      BY <1>2, <2>1, RecordEffect
    <3> QED
      BY <3>1, <3>2
  <2>3. run'[p] = IF p = prev[q] /\ st = "completed"
                  THEN [run[p] EXCEPT !.status = "superseded"] ELSE run[p]
    BY <2>1, <2>2 DEF History!Record
  <2>4. run[p] \in RunRow
    BY DEF IInv, RunsTypeOK
  <2> QED
    BY <2>3, <2>4 DEF EndedWell, RunRow
<1> QED
  BY <1>1, <1>2 DEF RunsNext, rvars

\* A step of a pricing request keeps the invariant of the builds beside it.
LEMMA RunsStepInv ==
    ASSUME IInv, BInv, [RunsNext]_rvars, UNCHANGED bvars
    PROVE  BInv'
<1>1. BuildTypeOK' /\ HolderIsNumbered' /\ NumberIsNext' /\ FreshIds' /\ NumbersGapless'
  BY DEF bvars, BInv, BuildTypeOK, HolderIsNumbered, NumberIsNext, FreshIds, NumbersGapless,
         Building, Created
<1>2. RunWasCompleted'
  BY EndedWellStays DEF bvars, BInv, RunWasCompleted, Building
<1>3. InvoicedRunCompleted'
  BY EndedWellStays
  DEF bvars, BInv, InvoicedRunCompleted, Created, History!Recorded, EndedWell
<1> QED
  BY <1>1, <1>2, <1>3 DEF BInv

----------------------------------------------------------------------------
\* Steps that leave the committed invoices and the sequence row alone.
LEMMA PrepareInv ==
    ASSUME BInv, NEW s \in Sessions, UNCHANGED rvars,
           ReadRun(s) \/ LockSequence(s) \/ MissSequence(s) \/ InsertSequence(s)
    PROVE  BInv'
<1>1. /\ UNCHANGED <<invoice, nextValue, run>>
      /\ at \in [Sessions -> BuildSteps]
      /\ built \in [Sessions -> [id : Invoices, row : InvoiceRow]]
      /\ nextValue \in Nat
  BY DEF rvars, ReadRun, LockSequence, MissSequence, InsertSequence, BInv, BuildTypeOK
<1>2. Created' = Created /\ Created \subseteq Invoices
  BY <1>1 DEF Created
<1>3. NumbersGapless' /\ InvoicedRunCompleted'
  BY <1>1, <1>2
  DEF BInv, NumbersGapless, InvoicedRunCompleted, History!Recorded
<1>4. CASE ReadRun(s)
  <2>1. PICK q \in History!Recorded, i \in Invoices \ Created :
          /\ run[q].status = "completed"
          /\ \A t \in Building : built[t].id # i
          /\ built' = [built EXCEPT ![s] = [id |-> i, row |-> [number |-> 0, run |-> q]]]
    BY <1>4 DEF ReadRun, Unused
  <2>2. /\ UNCHANGED holder /\ at[s] = "idle" /\ q \in Requests
        /\ at' = [at EXCEPT ![s] = "readRun"]
    BY <1>4 DEF ReadRun, BuildAt, History!Recorded
  <2>3. BuildTypeOK'
    BY <1>1, <2>1, <2>2 DEF BInv, BuildTypeOK, BuildSteps, InvoiceRow
  <2>4. Building' = Building \cup {s} /\ s \notin Building
    BY <1>1, <2>2 DEF Building
  <2>5. HolderIsNumbered' /\ NumberIsNext'
    BY <1>1, <2>1, <2>2 DEF BInv, HolderIsNumbered, NumberIsNext
  <2>6. \A t \in Sessions : built'[t] = IF t = s THEN [id |-> i, row |-> [number |-> 0, run |-> q]]
                                       ELSE built[t]
    BY <1>1, <2>1
  <2>7. FreshIds'
    BY <1>2, <2>1, <2>4, <2>6 DEF BInv, FreshIds, Building
  <2>8. RunWasCompleted'
    BY <1>1, <2>1, <2>2, <2>4, <2>6 DEF BInv, RunWasCompleted, EndedWell, Building
  <2> QED
    BY <1>3, <2>3, <2>5, <2>7, <2>8 DEF BInv
<1>5. CASE LockSequence(s) \/ InsertSequence(s)
  <2>1. /\ at[s] \in {"readRun", "noSequence"} /\ holder = NoSession /\ holder' = s
        /\ at' = [at EXCEPT ![s] = "numbered"]
        /\ built' = [built EXCEPT ![s].row.number =
                       IF nextValue = 0 THEN 1 ELSE nextValue]
    BY <1>5 DEF LockSequence, InsertSequence, BuildAt
  <2>2. \A t \in Sessions :
          /\ built'[t].id = built[t].id
          /\ built'[t].row.run = built[t].row.run
          /\ built'[t].row.number = IF t = s THEN IF nextValue = 0 THEN 1 ELSE nextValue
                                    ELSE built[t].row.number
    BY <1>1, <2>1 DEF InvoiceRow
  <2>3. BuildTypeOK'
    <3>1. built' \in [Sessions -> [id : Invoices, row : InvoiceRow]]
      BY <1>1, <2>1 DEF InvoiceRow
    <3> QED
      BY <1>1, <2>1, <3>1 DEF BInv, BuildTypeOK, BuildSteps
  <2>4. Building' = Building
    BY <1>1, <2>1 DEF Building
  <2>5. HolderIsNumbered' /\ NumberIsNext'
    BY <1>1, <2>1, <2>2, NoSessionAssumption DEF BInv, HolderIsNumbered, NumberIsNext
  <2>6. FreshIds' /\ RunWasCompleted'
    BY <1>1, <1>2, <2>2, <2>4 DEF BInv, FreshIds, RunWasCompleted, Building
  <2> QED
    BY <1>3, <2>3, <2>5, <2>6 DEF BInv
<1>6. CASE MissSequence(s)
  <2>1. /\ at[s] = "readRun" /\ at' = [at EXCEPT ![s] = "noSequence"]
        /\ UNCHANGED <<holder, built>>
    BY <1>6 DEF MissSequence, BuildAt
  <2>2. Building' = Building
    BY <1>1, <2>1 DEF Building
  <2>3. BuildTypeOK' /\ HolderIsNumbered' /\ NumberIsNext' /\ FreshIds' /\ RunWasCompleted'
    BY <1>1, <1>2, <2>1, <2>2
    DEF BInv, BuildTypeOK, BuildSteps, HolderIsNumbered, NumberIsNext, FreshIds,
        RunWasCompleted
  <2> QED
    BY <1>3, <2>3 DEF BInv
<1> QED
  BY <1>4, <1>5, <1>6

\* The commit: the number goes to the invoice and the sequence moves on.
LEMMA CommitBuildInv ==
    ASSUME BInv, NEW s \in Sessions, UNCHANGED rvars, CommitBuild(s)
    PROVE  BInv'
<1> DEFINE i == built[s].id
           n == built[s].row.number
<1>1. /\ at \in [Sessions -> BuildSteps]
      /\ built \in [Sessions -> [id : Invoices, row : InvoiceRow]]
      /\ invoice \in [Invoices -> InvoiceRow]
      /\ nextValue \in Nat /\ i \in Invoices /\ n \in Nat /\ built[s].row \in InvoiceRow
  BY DEF BInv, BuildTypeOK, InvoiceRow
<1>2. /\ at[s] = "numbered" /\ holder = s
      /\ invoice' = [invoice EXCEPT ![i] = built[s].row]
      /\ nextValue' = n + 1 /\ holder' = NoSession
      /\ at' = [at EXCEPT ![s] = "idle"] /\ built' = [built EXCEPT ![s] = Blank]
      /\ UNCHANGED run
  BY DEF CommitBuild, EndBuild, BuildAt, BInv, HolderIsNumbered, rvars
<1>3. n = IF nextValue = 0 THEN 1 ELSE nextValue
  BY <1>2 DEF BInv, NumberIsNext
<1>4. s \in Building /\ Building' = Building \ {s}
  BY <1>1, <1>2 DEF Building
<1>5. i \notin Created /\ \A t \in Building \ {s} : built[t].id # i
  BY <1>4 DEF BInv, FreshIds
<1>6. Created' = Created \cup {i}
  BY <1>1, <1>2, <1>3 DEF Created
<1>7. \A x \in Invoices : invoice'[x] = IF x = i THEN built[s].row ELSE invoice[x]
  BY <1>1, <1>2
<1>8. BuildTypeOK'
  <2>1. Blank \in [id : Invoices, row : InvoiceRow]
    BY InvoicesAssumption DEF Blank, InvoiceRow, NoInvoice
  <2> QED
    BY <1>1, <1>2, <2>1 DEF BInv, BuildTypeOK, BuildSteps
<1>9. HolderIsNumbered' /\ NumberIsNext'
  BY <1>1, <1>2, NoSessionAssumption DEF BInv, HolderIsNumbered, NumberIsNext
<1>10. FreshIds' /\ RunWasCompleted'
  BY <1>1, <1>2, <1>4, <1>5, <1>6 DEF BInv, FreshIds, RunWasCompleted, Building
<1>11. NumbersGapless'
  <2>1. \A x \in Created : invoice[x].number \in Nat /\ invoice[x].number < nextValue
    BY <1>1 DEF BInv, NumbersGapless, InvoiceRow, Created
  <2>2. \A x, y \in Created \cup {i} : invoice'[x].number = invoice'[y].number => x = y
    BY <1>1, <1>3, <1>5, <1>7, <2>1 DEF BInv, NumbersGapless, Created
  <2>3. \A x \in Created \cup {i} : invoice'[x].number < nextValue'
    BY <1>1, <1>2, <1>3, <1>5, <1>7, <2>1 DEF Created
  <2>4. ASSUME NEW k \in 1..(nextValue' - 1)
        PROVE  \E x \in Created \cup {i} : invoice'[x].number = k
    <3>1. CASE k = n
      BY <1>1, <1>7, <3>1
    <3>2. CASE k # n
      <4>1. k \in 1..(nextValue - 1)
        BY <1>1, <1>2, <1>3, <3>2
      <4>2. PICK x \in Created : invoice[x].number = k
        BY <4>1 DEF BInv, NumbersGapless
      <4> QED
        BY <1>5, <1>7, <4>2 DEF Created
    <3> QED
      BY <3>1, <3>2
  <2> QED
    BY <1>6, <2>2, <2>3, <2>4 DEF NumbersGapless
<1>12. InvoicedRunCompleted'
  <2>1. built[s].row.run \in Requests /\ run[built[s].row.run].status \in EndedWell
    BY <1>4 DEF BInv, RunWasCompleted
  <2> QED
    BY <1>2, <1>6, <1>7, <1>5, <2>1
    DEF BInv, InvoicedRunCompleted, EndedWell, History!Recorded, Created
<1> QED
  BY <1>8, <1>9, <1>10, <1>11, <1>12 DEF BInv

\* A build that ends without an invoice gives its number back.
LEMMA GiveUpInv ==
    ASSUME BInv, NEW s \in Sessions, UNCHANGED rvars,
           SequenceConflict(s) \/ AbortBuild(s)
    PROVE  BInv'
<1>1. /\ at \in [Sessions -> BuildSteps]
      /\ built \in [Sessions -> [id : Invoices, row : InvoiceRow]]
      /\ UNCHANGED <<invoice, nextValue, run>>
      /\ at' = [at EXCEPT ![s] = "idle"] /\ built' = [built EXCEPT ![s] = Blank]
      /\ holder' = IF holder = s THEN NoSession ELSE holder
  BY NoSessionAssumption
  DEF rvars, SequenceConflict, AbortBuild, EndBuild, BuildAt, BInv, BuildTypeOK
<1>2. Building' = Building \ {s} /\ Created' = Created
  BY <1>1 DEF Building, Created
<1>3. BuildTypeOK'
  <2>1. Blank \in [id : Invoices, row : InvoiceRow]
    BY InvoicesAssumption DEF Blank, InvoiceRow, NoInvoice
  <2> QED
    BY <1>1, <2>1 DEF BInv, BuildTypeOK, BuildSteps
<1>4. HolderIsNumbered' /\ NumberIsNext'
  BY <1>1, NoSessionAssumption DEF BInv, HolderIsNumbered, NumberIsNext
<1>5. FreshIds' /\ RunWasCompleted'
  BY <1>1, <1>2 DEF BInv, FreshIds, RunWasCompleted, Building
<1>6. NumbersGapless' /\ InvoicedRunCompleted'
  BY <1>1, <1>2 DEF BInv, NumbersGapless, InvoicedRunCompleted, History!Recorded
<1> QED
  BY <1>3, <1>4, <1>5, <1>6 DEF BInv

----------------------------------------------------------------------------
\* The pricing requests run as before beside the builds.
LEMMA BuildsKeepRuns == [InvoiceNext]_allvars => [RunsNext]_rvars
  BY DEF InvoiceNext, allvars

\* The invariant of the builds is inductive, given the one of the pricing runs.
LEMMA BuildNextInv == IInv /\ BInv /\ [InvoiceNext]_allvars => BInv'
<1> SUFFICES ASSUME IInv, BInv, [InvoiceNext]_allvars PROVE BInv'
  OBVIOUS
<1>1. CASE UNCHANGED allvars
  BY <1>1, RunsStepInv DEF allvars
<1>2. CASE RunsNext /\ UNCHANGED bvars
  BY <1>2, RunsStepInv
<1>3. ASSUME NEW s \in Sessions, BuildStep(s), UNCHANGED rvars PROVE BInv'
  BY <1>3, PrepareInv, CommitBuildInv, GiveUpInv DEF BuildStep
<1> QED
  BY <1>1, <1>2, <1>3 DEF InvoiceNext

\* What is proved of PricingRuns alone holds beside the builds too.
THEOREM BuildsRunPricing == InvoiceSpec => RunsSpec
<1>1. InvoiceInit => RunsInit
  BY DEF InvoiceInit
<1> QED
  BY <1>1, BuildsKeepRuns, PTL DEF InvoiceSpec, RunsSpec

\* The invariant of the builds holds in every reachable state.
THEOREM BuildInvariance == InvoiceSpec => []BInv
  BY BuildInitInv, BuildNextInv, BuildsRunPricing, Invariance, PTL DEF InvoiceSpec

\* Every reachable state of the builds is well typed.
THEOREM BuildTypeCorrect == InvoiceSpec => []BuildTypeOK
<1>1. BInv => BuildTypeOK
  BY DEF BInv
<1> QED
  BY <1>1, BuildInvariance, PTL

\* Invoice numbers are 1, 2, 3, ... without gap or repetition for any number of
\* concurrent builds, lost ones included, from the very first invoice on.
THEOREM InvoiceNumbersGapless == InvoiceSpec => []NumbersGapless
<1>1. BInv => NumbersGapless
  BY DEF BInv
<1> QED
  BY <1>1, BuildInvariance, PTL

\* No invoice prices a run that failed or was never committed.
THEOREM InvoicesPriceCompletedRuns == InvoiceSpec => []InvoicedRunCompleted
<1>1. BInv => InvoicedRunCompleted
  BY DEF BInv
<1> QED
  BY <1>1, BuildInvariance, PTL
=============================================================================
