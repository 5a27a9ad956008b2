------------------------- MODULE PeriodClosingProofs -------------------------
(***************************************************************************)
(* Proofs about PeriodClosing for any number of users, requests, runs,      *)
(* issues and approvals, whatever permissions the users hold.               *)
(***************************************************************************)
EXTENDS PeriodClosing, TLAPS

\* An approval that reads as approved was granted; a granted one exists.
GrantSound ==
    /\ \A a \in Approvals : approval[a].status = "approved" => a \in granted
    /\ \A a \in granted : approval[a].status # "absent"

\* The waiver an exception names was granted for it; a waived exception names
\* one, and who applied it.
WaiverSound ==
    \A e \in Exceptions :
        /\ exc[e].waiver # None => /\ exc[e].waiver \in granted
                                   /\ approval[exc[e].waiver].of = e
        /\ exc[e].status = "waived" => exc[e].waiver # None /\ exc[e].waivedBy # None

ClearSound ==
    \A e \in Exceptions : exc[e].status \in {"resolved", "waived"} => e \in cleared

\* Nothing blocks a close about exception e any more, or it was not found.
Clear(e) ==
    exc[e].status = "absent" \/ e \in cleared \/ \E a \in granted : approval[a].of = e

\* What requests under way know.
ReconcileSound ==
    /\ \A s \in Sessions : txn[s].route = "reconcile" => txn[s].run \notin completed
    /\ \A s, r \in Sessions : /\ txn[s].route = "reconcile"
                              /\ txn[r].route = "reconcile"
                              /\ txn[s].run = txn[r].run
                              => s = r

DecideSound(t) ==
    t.route = "decide" =>
        /\ approval[t.approval].status # "absent"
        /\ IF t.to = "cancelled" THEN approval[t.approval].maker = t.user
                                 ELSE approval[t.approval].maker # t.user

ExceptionSound(t) ==
    t.route = "exception" =>
        /\ exc[t.exc].status # "absent"
        /\ t.seen.waiver # None => exc[t.exc].waiver # None
        /\ t.seen.waivedBy # None => exc[t.exc].waivedBy # None
        /\ \/ /\ t.new.status = "waived" /\ t.new.waivedBy # None
              /\ t.new.waiver \in granted /\ approval[t.new.waiver].of = t.exc
           \/ /\ t.new.status \in {"investigating", "resolved"}
              /\ t.new.waiver = t.seen.waiver /\ t.new.waivedBy = t.seen.waivedBy

CloseSound(t) ==
    /\ t.route \in {"close", "gate", "closing"} => t.run \in completed
    /\ t.route = "gate" => \A e \in {t.run} \X Issues : e \in t.open \/ Clear(e)
    /\ t.route = "closing" => \A e \in {t.run} \X Issues : Clear(e)

TxnSound == \A s \in Sessions :
                DecideSound(txn[s]) /\ ExceptionSound(txn[s]) /\ CloseSound(txn[s])

PeriodSound ==
    period.status = "closed" =>
        period.run \in completed /\ \A e \in {period.run} \X Issues : Clear(e)

IInv ==
    /\ TypeOK /\ GrantSound /\ WaiverSound /\ ClearSound /\ MakerIsNotChecker
    /\ ReconcileSound /\ TxnSound /\ PeriodSound

----------------------------------------------------------------------------
\* Before any request the invariant holds.
LEMMA InitInv == Init => IInv
  BY ClosingAssumption
  DEF Init, IInv, TypeOK, ExcRow, ExcStates, ApprovalRow, Decisions, PeriodRow, Txn, Idle,
      GrantSound, WaiverSound, ClearSound, MakerIsNotChecker, ReconcileSound, TxnSound,
      DecideSound, ExceptionSound, CloseSound, PeriodSound

\* The fields of a request by its route.
LEMMA TxnShape ==
    ASSUME NEW t \in Txn
    PROVE  /\ t.route = "reconcile" => t.run \in Runs
           /\ t.route = "decide" => /\ t.user \in Users /\ t.approval \in Approvals
                                    /\ t.to \in Decisions
           /\ t.route = "exception" => /\ t.exc \in Exceptions
                                       /\ t.seen \in ExcRow /\ t.new \in ExcRow
           /\ t.route \in {"close", "gate", "closing"} =>
                /\ t.user \in Users /\ t.run \in Runs /\ t.open \subseteq Exceptions
                /\ t = [route |-> t.route, user |-> t.user, run |-> t.run, open |-> t.open]
  BY DEF Txn, Idle

\* What the rest of the state may do without unsettling a request under way.
Steady ==
    /\ completed \subseteq completed'
    /\ granted \subseteq granted' /\ cleared \subseteq cleared'
    /\ \A a \in Approvals : approval[a].status # "absent" =>
         /\ approval'[a].status # "absent"
         /\ approval'[a].of = approval[a].of /\ approval'[a].maker = approval[a].maker
    /\ \A e \in Exceptions :
         /\ exc[e].waiver # None => exc'[e].waiver # None
         /\ exc[e].waivedBy # None => exc'[e].waivedBy # None
         /\ exc[e].status # "absent" => exc'[e].status # "absent"
         /\ exc[e].status = "absent" /\ e[1] \in completed => exc'[e].status = "absent"

\* An exception that was cleared or waived stays so: history only grows.
LEMMA ClearStays ==
    ASSUME IInv, Steady, NEW r \in completed, NEW e \in {r} \X Issues, Clear(e)
    PROVE  Clear(e)'
<1>1. e \in Exceptions /\ e[1] \in completed /\ granted \subseteq Approvals
  BY DEF IInv, TypeOK, Exceptions
<1> QED
  BY <1>1 DEF Clear, Steady, IInv, GrantSound

\* What a request knows stays true while others commit.
LEMMA TxnStays ==
    ASSUME IInv, Steady, NEW s \in Sessions, txn'[s] = txn[s]
    PROVE  DecideSound(txn[s])' /\ ExceptionSound(txn[s])' /\ CloseSound(txn[s])'
<1> DEFINE t == txn[s]
<1>1. DecideSound(t) /\ ExceptionSound(t) /\ CloseSound(t) /\ t \in Txn
  BY DEF IInv, TxnSound, TypeOK
<1>2. DecideSound(txn[s])'
  BY <1>1, TxnShape DEF DecideSound, Steady
<1>3. ExceptionSound(txn[s])'
  BY <1>1, TxnShape DEF ExceptionSound, Steady, IInv, GrantSound, TypeOK
<1>4. CloseSound(txn[s])'
  BY <1>1, ClearStays DEF CloseSound, Steady
<1> QED
  BY <1>2, <1>3, <1>4

\* A request goes on to t and commits nothing.
LEMMA GotoInv ==
    ASSUME IInv, NEW s \in Sessions, NEW t \in Txn, Goto(s, t),
           UNCHANGED <<completed, exc, approval, period, granted, cleared>>,
           DecideSound(t), ExceptionSound(t), CloseSound(t),
           t.route = "reconcile" => /\ t.run \notin completed
                                    /\ \A r \in Sessions : txn[r].route = "reconcile"
                                         => txn[r].run # t.run
    PROVE  IInv'
<1>1. /\ txn' \in [Sessions -> Txn]
      /\ \A r \in Sessions : txn'[r] = IF r = s THEN t ELSE txn[r]
  BY DEF Goto, IInv, TypeOK
<1>2. Steady
  BY DEF Steady
<1>3. TypeOK'
  BY <1>1 DEF IInv, TypeOK
<1>4. GrantSound' /\ WaiverSound' /\ ClearSound' /\ MakerIsNotChecker' /\ PeriodSound'
  BY DEF IInv, GrantSound, WaiverSound, ClearSound, MakerIsNotChecker, PeriodSound, Clear
<1>5. ReconcileSound'
  BY <1>1 DEF IInv, ReconcileSound
<1>6. TxnSound'
  <2> SUFFICES ASSUME NEW r \in Sessions
               PROVE  DecideSound(txn[r])' /\ ExceptionSound(txn[r])' /\ CloseSound(txn[r])'
    BY DEF TxnSound
  <2>1. CASE r = s
    BY <1>1, <2>1 DEF DecideSound, ExceptionSound, CloseSound, Clear
  <2>2. CASE r # s
    BY <1>1, <1>2, <2>2, TxnStays
  <2> QED
    BY <2>1, <2>2
<1> QED
  BY <1>3, <1>4, <1>5, <1>6 DEF IInv

\* A request ends with a commit: what stays to show is what it wrote.
LEMMA EndTxn ==
    ASSUME IInv, Steady, NEW s \in Sessions, Goto(s, Idle),
           completed' \subseteq completed \cup
               (IF txn[s].route = "reconcile" THEN {txn[s].run} ELSE {})
    PROVE  txn' \in [Sessions -> Txn] /\ ReconcileSound' /\ TxnSound'
<1>1. /\ txn' \in [Sessions -> Txn]
      /\ \A r \in Sessions : txn'[r] = IF r = s THEN Idle ELSE txn[r]
  BY DEF Goto, IInv, TypeOK, Txn
<1>2. ReconcileSound'
  BY <1>1 DEF IInv, ReconcileSound, Idle
<1>3. TxnSound'
  <2> SUFFICES ASSUME NEW r \in Sessions
               PROVE  DecideSound(txn[r])' /\ ExceptionSound(txn[r])' /\ CloseSound(txn[r])'
    BY DEF TxnSound
  <2>1. CASE r = s
    BY <1>1, <2>1 DEF DecideSound, ExceptionSound, CloseSound, Idle
  <2>2. CASE r # s
    BY <1>1, <2>2, TxnStays
  <2> QED
    BY <2>1, <2>2
<1> QED
  BY <1>1, <1>2, <1>3

----------------------------------------------------------------------------
\* A request that begins commits nothing and knows what it just read.
LEMMA BeginStepInv ==
    ASSUME IInv, NEW s \in Sessions, NEW u \in Users, BeginStep(s, u)
    PROVE  IInv'
<1> USE DEF Begin
<1>1. ASSUME NEW r \in Runs, BeginReconcile(s, u, r) PROVE IInv'
  <2> DEFINE t == [route |-> "reconcile", run |-> r]
  <2>1. Goto(s, t) /\ \A q \in Started : q < r
    BY <1>1 DEF BeginReconcile
  <2>2. r \in Nat /\ ~(r < r)
    BY ClosingAssumption
  <2>3. r \notin Started
    BY <2>1, <2>2
  <2>4. r \notin completed /\ \A x \in Sessions : txn[x].route = "reconcile" => txn[x].run # r
    BY <2>3, TxnShape DEF Started, IInv, TypeOK
  <2>5. t \in Txn /\ DecideSound(t) /\ ExceptionSound(t) /\ CloseSound(t)
    BY DEF Txn, DecideSound, ExceptionSound, CloseSound
  <2> QED
    BY <1>1, <2>1, <2>4, <2>5, GotoInv DEF BeginReconcile
<1>2. ASSUME NEW a \in Approvals, NEW d \in Decisions, BeginDecide(s, u, a, d) PROVE IInv'
  <2> DEFINE t == [route |-> "decide", user |-> u, approval |-> a, to |-> d]
  <2>1. t \in Txn /\ DecideSound(t) /\ ExceptionSound(t) /\ CloseSound(t)
    BY <1>2 DEF BeginDecide, Txn, DecideSound, ExceptionSound, CloseSound
  <2> QED
    BY <1>2, <2>1, GotoInv DEF BeginDecide
<1>3. ASSUME NEW e \in Exceptions, BeginMarkWaived(s, u, e) PROVE IInv'
  <2>1. PICK a \in ApprovedFor(e) :
          exc[e].status # "absent" /\ Begin(s, [route |-> "exception", exc |-> e, seen |-> exc[e],
                    new |-> [status |-> "waived", waivedBy |-> u, waiver |-> a]])
    BY <1>3 DEF BeginMarkWaived
  <2> DEFINE t == [route |-> "exception", exc |-> e, seen |-> exc[e],
                   new |-> [status |-> "waived", waivedBy |-> u, waiver |-> a]]
  <2>2. a \in Approvals /\ a \in granted /\ approval[a].of = e
    BY DEF ApprovedFor, IInv, GrantSound
  <2>3. t \in Txn
    BY <2>2 DEF Txn, IInv, TypeOK, ExcRow, ExcStates
  <2>4. DecideSound(t) /\ ExceptionSound(t) /\ CloseSound(t)
    BY <2>1, <2>2, ClosingAssumption DEF DecideSound, ExceptionSound, CloseSound
  <2> QED
    BY <2>1, <2>3, <2>4, GotoInv
<1>4. ASSUME NEW e \in Exceptions, NEW to \in {"investigating", "resolved"},
             BeginUpdateException(s, u, e, to)
      PROVE  IInv'
  <2> DEFINE t == [route |-> "exception", exc |-> e, seen |-> exc[e],
                   new |-> [exc[e] EXCEPT !.status = to]]
  <2>1. t \in Txn /\ DecideSound(t) /\ ExceptionSound(t) /\ CloseSound(t)
    BY <1>4 DEF BeginUpdateException, Txn, IInv, TypeOK, ExcRow, ExcStates, DecideSound,
                ExceptionSound, CloseSound
  <2> QED
    BY <1>4, <2>1, GotoInv DEF BeginUpdateException
<1>5. ASSUME BeginClose(s, u) PROVE IInv'
  <2>1. PICK r \in completed :
          Begin(s, [route |-> "close", user |-> u, run |-> r, open |-> {}])
    BY <1>5 DEF BeginClose
  <2> DEFINE t == [route |-> "close", user |-> u, run |-> r, open |-> {}]
  <2>2. t \in Txn /\ DecideSound(t) /\ ExceptionSound(t) /\ CloseSound(t)
    BY DEF Txn, IInv, TypeOK, DecideSound, ExceptionSound, CloseSound
  <2> QED
    BY <2>1, <2>2, GotoInv
<1> QED
  BY <1>1, <1>2, <1>3, <1>4, <1>5 DEF BeginStep

\* The two reads of close_period after the latest run is known.
LEMMA CloseReadsInv ==
    ASSUME IInv, NEW s \in Sessions, ReadOpen(s) \/ ReadWaivers(s)
    PROVE  IInv'
<1> DEFINE t == txn[s]
<1>1. t \in Txn /\ t.route \in {"close", "gate"} /\ CloseSound(t)
  BY DEF ReadOpen, ReadWaivers, IInv, TypeOK, TxnSound
<1>2. /\ t.user \in Users /\ t.run \in Runs /\ t.open \subseteq Exceptions
      /\ t = [route |-> t.route, user |-> t.user, run |-> t.run, open |-> t.open]
      /\ t.run \in completed
  BY <1>1, TxnShape DEF CloseSound
<1>3. CASE ReadOpen(s)
  <2> DEFINE open == {e \in {t.run} \X Issues : exc[e].status \in {"open", "investigating"}}
             n == [route |-> "gate", user |-> t.user, run |-> t.run, open |-> open]
  <2>1. {t.run} \X Issues \subseteq Exceptions
    BY <1>2 DEF Exceptions
  <2>2. \A e \in {t.run} \X Issues : e \in open \/ Clear(e)
    BY <2>1 DEF Clear, IInv, TypeOK, ExcRow, ExcStates, ClearSound
  <2>3. n \in Txn /\ DecideSound(n) /\ ExceptionSound(n) /\ CloseSound(n)
    BY <1>2, <2>1, <2>2 DEF Txn, DecideSound, ExceptionSound, CloseSound
  <2>4. Goto(s, n)
    BY <1>3 DEF ReadOpen
  <2> QED
    BY <1>3, <2>3, <2>4, GotoInv DEF ReadOpen
<1>4. CASE ReadWaivers(s)
  <2> DEFINE n == [route |-> "closing", user |-> t.user, run |-> t.run, open |-> t.open]
  <2>1. \A e \in t.open : Clear(e)
    BY <1>4 DEF ReadWaivers, ApprovedFor, Clear, IInv, GrantSound
  <2>2. \A e \in {t.run} \X Issues : Clear(e)
    BY <1>1, <1>4, <2>1 DEF ReadWaivers, CloseSound
  <2>3. n \in Txn /\ DecideSound(n) /\ ExceptionSound(n) /\ CloseSound(n)
    BY <1>2, <2>2 DEF Txn, DecideSound, ExceptionSound, CloseSound
  <2>4. [t EXCEPT !.route = "closing"] = n
    BY <1>2
  <2>5. Goto(s, n)
    BY <1>4, <2>4 DEF ReadWaivers
  <2> QED
    BY <1>4, <2>3, <2>5, GotoInv DEF ReadWaivers
<1> QED
  BY <1>3, <1>4

----------------------------------------------------------------------------
\* A request that is refused or lost leaves every row as it was.
LEMMA RollbackInv ==
    ASSUME IInv, NEW s \in Sessions, Rollback(s)
    PROVE  IInv'
<1>1. Idle \in Txn /\ DecideSound(Idle) /\ ExceptionSound(Idle) /\ CloseSound(Idle)
  BY DEF Txn, Idle, DecideSound, ExceptionSound, CloseSound
<1>2. Idle.route # "reconcile"
  BY DEF Idle
<1> QED
  BY <1>1, <1>2, GotoInv DEF Rollback

\* A committed reconciliation adds a completed run with open exceptions.
LEMMA CommitReconcileInv ==
    ASSUME IInv, NEW s \in Sessions, NEW found \in SUBSET Issues, CommitReconcile(s, found)
    PROVE  IInv'
<1> DEFINE q == txn[s].run
<1>1. /\ txn[s].route = "reconcile" /\ Goto(s, Idle)
      /\ completed' = completed \cup {q}
      /\ exc' = [e \in Exceptions |-> IF e \in {q} \X found
                                      THEN [exc[e] EXCEPT !.status = "open"] ELSE exc[e]]
      /\ UNCHANGED <<approval, period, granted, cleared>>
  BY DEF CommitReconcile
<1>2. q \in Runs /\ q \notin completed
  BY <1>1, TxnShape DEF IInv, TypeOK, ReconcileSound
<1>3. \A e \in Exceptions :
        /\ exc'[e] \in ExcRow
        /\ exc'[e].waiver = exc[e].waiver /\ exc'[e].waivedBy = exc[e].waivedBy
        /\ exc'[e].status \in {"open", exc[e].status}
        /\ e[1] \in completed => exc'[e] = exc[e]
  <2> SUFFICES ASSUME NEW e \in Exceptions
               PROVE  /\ exc'[e] \in ExcRow
                      /\ exc'[e].waiver = exc[e].waiver /\ exc'[e].waivedBy = exc[e].waivedBy
                      /\ exc'[e].status \in {"open", exc[e].status}
                      /\ e[1] \in completed => exc'[e] = exc[e]
    OBVIOUS
  <2>1. exc[e] \in ExcRow
    BY DEF IInv, TypeOK
  <2>2. exc'[e] \in {exc[e], [exc[e] EXCEPT !.status = "open"]}
    BY <1>1
  <2>3. e[1] \in completed => exc'[e] = exc[e]
    BY <1>1, <1>2
  <2> QED
    BY <2>1, <2>2, <2>3 DEF ExcRow, ExcStates
<1>4. Steady
  BY <1>1, <1>3 DEF Steady
<1>5. exc' \in [Exceptions -> ExcRow]
  BY <1>1, <1>3
<1>6. txn' \in [Sessions -> Txn] /\ ReconcileSound' /\ TxnSound'
  BY <1>1, <1>4, EndTxn
<1>7. TypeOK'
  BY <1>1, <1>2, <1>5, <1>6 DEF IInv, TypeOK
<1>8. GrantSound' /\ MakerIsNotChecker'
  BY <1>1 DEF IInv, GrantSound, MakerIsNotChecker
<1>9. WaiverSound' /\ ClearSound'
  BY <1>1, <1>3 DEF IInv, WaiverSound, ClearSound
<1>10. PeriodSound'
  BY <1>1, <1>4, ClearStays DEF IInv, PeriodSound
<1> QED
  BY <1>6, <1>7, <1>8, <1>9, <1>10 DEF IInv

\* A new approval is pending and granted to nobody.
LEMMA RequestWaiverInv ==
    ASSUME IInv, NEW u \in Users, NEW e \in Exceptions, NEW a \in Approvals,
           RequestWaiver(u, e, a)
    PROVE  IInv'
<1> DEFINE row == [status |-> "pending", of |-> e, maker |-> u, checker |-> None]
<1>1. /\ approval[a].status = "absent" /\ approval' = [approval EXCEPT ![a] = row]
      /\ UNCHANGED <<completed, exc, period, txn, granted, cleared>>
  BY DEF RequestWaiver
<1>2. \A b \in Approvals : approval'[b] = IF b = a THEN row ELSE approval[b]
  BY <1>1 DEF IInv, TypeOK
<1>3. a \notin granted
  BY <1>1 DEF IInv, GrantSound
<1>4. Steady
  BY <1>1, <1>2 DEF Steady
<1>5. TypeOK'
  BY <1>1 DEF IInv, TypeOK, ApprovalRow, Decisions
<1>6. GrantSound' /\ MakerIsNotChecker'
  BY <1>1, <1>2, <1>3 DEF IInv, TypeOK, GrantSound, MakerIsNotChecker
<1>7. WaiverSound' /\ ClearSound'
  BY <1>1, <1>2, <1>3 DEF IInv, TypeOK, WaiverSound, ClearSound, ExcRow
<1>8. ReconcileSound'
  BY <1>1 DEF IInv, ReconcileSound
<1>9. TxnSound'
  BY <1>1, <1>4, TxnStays DEF TxnSound
<1>10. PeriodSound'
  BY <1>1, <1>4, ClearStays DEF IInv, PeriodSound
<1> QED
  BY <1>5, <1>6, <1>7, <1>8, <1>9, <1>10 DEF IInv

\* A decision, also one that overwrites another, is by the right person.
LEMMA CommitDecideInv ==
    ASSUME IInv, NEW s \in Sessions, CommitDecide(s)
    PROVE  IInv'
<1> DEFINE t == txn[s]
           a == t.approval
           row == [approval[a] EXCEPT !.status = t.to, !.checker = t.user]
<1>1. /\ t.route = "decide" /\ Goto(s, Idle)
      /\ granted' = IF t.to = "approved" THEN granted \cup {a} ELSE granted
      /\ UNCHANGED <<completed, exc, period, cleared>>
  BY DEF CommitDecide
<1>2. a \in Approvals /\ t.user \in Users /\ t.to \in Decisions
  BY <1>1, TxnShape DEF IInv, TypeOK
<1>3. /\ approval[a].status # "absent"
      /\ IF t.to = "cancelled" THEN approval[a].maker = t.user
                               ELSE approval[a].maker # t.user
  BY <1>1 DEF IInv, TxnSound, DecideSound
<1>4. approval[a] \in ApprovalRow
  BY <1>2 DEF IInv, TypeOK
<1>5. approval' = [approval EXCEPT ![a] = row]
  BY <1>2 DEF CommitDecide, IInv, TypeOK
<1>6. /\ row \in ApprovalRow /\ row.status = t.to /\ row.checker = t.user
      /\ row.of = approval[a].of /\ row.maker = approval[a].maker
  BY <1>2, <1>4 DEF ApprovalRow, Decisions
<1> HIDE DEF row, a
<1>7. \A b \in Approvals : approval'[b] = IF b = a THEN row ELSE approval[b]
  BY <1>2, <1>5 DEF IInv, TypeOK
<1>8. approval' \in [Approvals -> ApprovalRow]
  BY <1>2, <1>5, <1>6 DEF IInv, TypeOK
<1>9. granted \subseteq granted' /\ granted' \subseteq granted \cup {a} /\ granted \subseteq Approvals
  BY <1>1 DEF IInv, TypeOK
<1>10. Steady
  BY <1>1, <1>2, <1>3, <1>6, <1>7, <1>9 DEF Steady, Decisions
<1>11. txn' \in [Sessions -> Txn] /\ ReconcileSound' /\ TxnSound'
  BY <1>1, <1>10, EndTxn
<1>12. TypeOK'
  BY <1>1, <1>2, <1>8, <1>9, <1>11 DEF IInv, TypeOK
<1>13. GrantSound'
  BY <1>1, <1>2, <1>6, <1>7, <1>9 DEF IInv, GrantSound, Decisions
<1>14. MakerIsNotChecker'
  BY <1>2, <1>3, <1>6, <1>7, ClosingAssumption DEF IInv, MakerIsNotChecker, Decisions
<1>15. WaiverSound' /\ ClearSound'
  BY <1>1, <1>6, <1>7, <1>9 DEF IInv, TypeOK, WaiverSound, ClearSound
<1>16. PeriodSound'
  BY <1>1, <1>10, ClearStays DEF IInv, PeriodSound
<1> QED
  BY <1>11, <1>12, <1>13, <1>14, <1>15, <1>16 DEF IInv

\* The row an exception becomes when changed columns are written over it.
LEMMA FlushedRow ==
    ASSUME NEW row \in ExcRow, NEW seen \in ExcRow, NEW new \in ExcRow
    PROVE  LET f == Flushed(row, seen, new) IN
           /\ f \in ExcRow
           /\ f.status = IF new.status # seen.status THEN new.status ELSE row.status
           /\ f.waivedBy = IF new.waivedBy # seen.waivedBy THEN new.waivedBy ELSE row.waivedBy
           /\ f.waiver = IF new.waiver # seen.waiver THEN new.waiver ELSE row.waiver
  BY DEF Flushed, ExcRow

\* An exception assembled from the columns of several requests is still sound.
LEMMA CommitExceptionInv ==
    ASSUME IInv, NEW s \in Sessions, CommitException(s)
    PROVE  IInv'
<1> DEFINE t == txn[s]
           x == t.exc
           row == Flushed(exc[x], t.seen, t.new)
<1>1. /\ t.route = "exception" /\ Goto(s, Idle)
      /\ exc' = [exc EXCEPT ![x] = row]
      /\ cleared' = IF row.status \in {"resolved", "waived"}
                    THEN cleared \cup {x} ELSE cleared
      /\ UNCHANGED <<completed, approval, period, granted>>
  BY DEF CommitException
<1>2. x \in Exceptions /\ t.seen \in ExcRow /\ t.new \in ExcRow
  BY <1>1, TxnShape DEF IInv, TypeOK
<1>3. /\ exc[x].status # "absent"
      /\ t.seen.waiver # None => exc[x].waiver # None
      /\ t.seen.waivedBy # None => exc[x].waivedBy # None
      /\ \/ /\ t.new.status = "waived" /\ t.new.waivedBy # None
            /\ t.new.waiver \in granted /\ approval[t.new.waiver].of = x
         \/ /\ t.new.status \in {"investigating", "resolved"}
            /\ t.new.waiver = t.seen.waiver /\ t.new.waivedBy = t.seen.waivedBy
  BY <1>1 DEF IInv, TxnSound, ExceptionSound
<1>4. exc[x] \in ExcRow
  BY <1>2 DEF IInv, TypeOK
<1>5. /\ row \in ExcRow
      /\ row.status = IF t.new.status # t.seen.status THEN t.new.status ELSE exc[x].status
      /\ row.waivedBy = IF t.new.waivedBy # t.seen.waivedBy
                        THEN t.new.waivedBy ELSE exc[x].waivedBy
      /\ row.waiver = IF t.new.waiver # t.seen.waiver THEN t.new.waiver ELSE exc[x].waiver
  BY <1>2, <1>4, FlushedRow
<1>6. None \notin granted
  BY ClosingAssumption DEF IInv, TypeOK
<1> HIDE DEF row
<1>7. \A e \in Exceptions : exc'[e] = IF e = x THEN row ELSE exc[e]
  BY <1>1, <1>2 DEF IInv, TypeOK
<1>8. /\ exc[x].waiver # None => row.waiver # None
      /\ exc[x].waivedBy # None => row.waivedBy # None
  BY <1>3, <1>5, <1>6
<1>9. /\ row.waiver # None => row.waiver \in granted /\ approval[row.waiver].of = x
      /\ row.status = "waived" => row.waiver # None /\ row.waivedBy # None
  <2>1. /\ exc[x].waiver # None => exc[x].waiver \in granted /\ approval[exc[x].waiver].of = x
        /\ exc[x].status = "waived" => exc[x].waiver # None /\ exc[x].waivedBy # None
    BY <1>2 DEF IInv, WaiverSound
  <2>2. row.waiver # None => row.waiver \in granted /\ approval[row.waiver].of = x
    BY <1>3, <1>5, <2>1
  <2>3. ASSUME row.status = "waived" PROVE row.waiver # None /\ row.waivedBy # None
    BY <1>3, <1>5, <1>6, <2>1, <2>3
  <2> QED
    BY <2>2, <2>3
<1>10. row.status # "absent"
  BY <1>3, <1>5
<1>11. Steady
  BY <1>1, <1>2, <1>3, <1>7, <1>8, <1>10 DEF Steady
<1>12. txn' \in [Sessions -> Txn] /\ ReconcileSound' /\ TxnSound'
  BY <1>1, <1>11, EndTxn
<1>13. TypeOK'
  BY <1>1, <1>2, <1>5, <1>12 DEF IInv, TypeOK
<1>14. GrantSound' /\ MakerIsNotChecker'
  BY <1>1 DEF IInv, GrantSound, MakerIsNotChecker
<1>15. WaiverSound' /\ ClearSound'
  BY <1>1, <1>2, <1>7, <1>9 DEF IInv, WaiverSound, ClearSound
<1>16. PeriodSound'
  BY <1>1, <1>11, ClearStays DEF IInv, PeriodSound
<1> QED
  BY <1>12, <1>13, <1>14, <1>15, <1>16 DEF IInv

\* A committed close leaves a closed period that was gated.
LEMMA CommitCloseInv ==
    ASSUME IInv, NEW s \in Sessions, CommitClose(s)
    PROVE  IInv'
<1> DEFINE t == txn[s]
<1>1. /\ t.route = "closing" /\ Goto(s, Idle)
      /\ period' = [status |-> "closed", by |-> t.user, run |-> t.run]
      /\ UNCHANGED <<completed, exc, approval, granted, cleared>>
  BY DEF CommitClose
<1>2. t.user \in Users /\ t.run \in Runs
  BY <1>1, TxnShape DEF IInv, TypeOK
<1>3. t.run \in completed /\ \A e \in {t.run} \X Issues : Clear(e)
  BY <1>1 DEF IInv, TxnSound, CloseSound
<1>4. Steady
  BY <1>1 DEF Steady
<1>5. txn' \in [Sessions -> Txn] /\ ReconcileSound' /\ TxnSound'
  BY <1>1, <1>4, EndTxn
<1>6. TypeOK'
  BY <1>1, <1>2, <1>5 DEF IInv, TypeOK, PeriodRow
<1>7. GrantSound' /\ MakerIsNotChecker' /\ WaiverSound' /\ ClearSound'
  BY <1>1 DEF IInv, GrantSound, MakerIsNotChecker, WaiverSound, ClearSound
<1> HIDE DEF t
<1>8. PeriodSound'
  BY <1>1, <1>3 DEF PeriodSound, Clear
<1> QED
  BY <1>5, <1>6, <1>7, <1>8 DEF IInv

\* The invariant is inductive: every step of every request keeps it.
LEMMA NextInv == IInv /\ [Next]_vars => IInv'
<1> SUFFICES ASSUME IInv, [Next]_vars PROVE IInv'
  OBVIOUS
<1>1. CASE UNCHANGED vars
  BY <1>1 DEF vars, IInv, TypeOK, GrantSound, WaiverSound, ClearSound, MakerIsNotChecker,
              ReconcileSound, TxnSound, DecideSound, ExceptionSound, CloseSound, Clear,
              PeriodSound
<1>2. ASSUME NEW u \in Users, NEW e \in Exceptions, NEW a \in Approvals,
             RequestWaiver(u, e, a)
      PROVE  IInv'
  BY <1>2, RequestWaiverInv
<1>3. ASSUME NEW s \in Sessions, NEW u \in Users, BeginStep(s, u) PROVE IInv'
  BY <1>3, BeginStepInv
<1>4. ASSUME NEW s \in Sessions, CommitStep(s) PROVE IInv'
  BY <1>4, CommitReconcileInv, CommitDecideInv, CommitExceptionInv, CloseReadsInv,
     CommitCloseInv, RollbackInv
  DEF CommitStep
<1> QED
  BY <1>1, <1>2, <1>3, <1>4 DEF Next

\* The inductive invariant holds in every reachable state of period closing.
THEOREM Invariance == Spec => []IInv
  BY InitInv, NextInv, PTL DEF Spec

\* Every reachable state is well typed.
THEOREM TypeCorrect == Spec => []TypeOK
<1>1. IInv => TypeOK
  BY DEF IInv
<1> QED
  BY <1>1, Invariance, PTL

\* Separation of duties: nobody decides their own request, for any number of
\* overlapping decisions.
THEOREM SeparationOfDuties == Spec => []MakerIsNotChecker
<1>1. IInv => MakerIsNotChecker
  BY DEF IInv
<1> QED
  BY <1>1, Invariance, PTL

\* A waived exception carries a waiver that was granted for it.
THEOREM WaiversGranted == Spec => []WaivedWasGranted
<1>1. IInv => WaivedWasGranted
  BY DEF IInv, WaiverSound, WaivedWasGranted
<1> QED
  BY <1>1, Invariance, PTL

\* A period is closed only over a completed run whose material exceptions were
\* resolved, waived or had a granted waiver.
THEOREM CloseGateHolds == Spec => []ClosedRunWasClear
<1>1. IInv => ClosedRunWasClear
  BY DEF IInv, PeriodSound, Clear, ClosedRunWasClear
<1> QED
  BY <1>1, Invariance, PTL
=============================================================================
