------------------------- MODULE CostIngestionProofs -------------------------
(***************************************************************************)
(* Proofs about CostIngestion for any files, any number of requests and     *)
(* sweep workers, any connectors and any number of losses: ingest_csv       *)
(* implements the ledger of ADR 0008, and nothing half-ingested is left.    *)
(***************************************************************************)
EXTENDS CostIngestion, TLAPS, FiniteSetTheorems, SequenceTheorems, WellFoundedInduction

Items == [file : Files \cup {None}, conn : Connectors \cup {None}, listed : Months \cup {None}]

AllAccounts == UNION {{Lines[f][i].acct : i \in Ledger!Charges(f)} : f \in Files}

BillRow == [amount : Amounts, file : Files] \cup {None}

Work ==
    [pc : {"idle", "select", "claim", "parse", "discover", "read", "write", "commit", "evidence"},
     todo : Seq(Items), known : {"absent", "failed", "parsed"}, idx : SUBSET AllAccounts,
     left : SUBSET AllRefs, seen : BillRow, changed : SUBSET AllRefs]

LockIds == {"file", "account", "bill"} \X (Files \cup AllRefs \cup AllAccounts)

\* The committed rows and what is outside the transactions.
RowsTyped ==
    /\ file \in [Files -> {"absent", "failed", "parsed"}]
    /\ broken \subseteq Files
    /\ charged \in [Keys -> Nat]
    /\ aside \subseteq Files \X Nat
    /\ accounts \subseteq AllAccounts
    /\ bill \in [AllRefs -> BillRow]
    /\ conn \in [Connectors -> [state : {"absent", "on", "off"}, due : BOOLEAN,
                                last : Files \cup {None}]]
    /\ month \in Months
    /\ losses \in 0..MaxLosses

WorkTyped == work \in [Workers -> Work] /\ held \in [Workers -> SUBSET LockIds]

\* A row is written by one transaction at a time.
LocksApart == \A v, w \in Workers : v # w => held[v] \cap held[w] = {}

\* Where a transaction is in its list of files, and that it begins each afresh.
ItemSound(w) ==
    /\ work[w].pc # "idle" => work[w].todo # <<>>
    /\ work[w].pc \notin {"idle", "select"} => Current(w) \in Files
    /\ work[w].pc = "discover" => Undiscovered(Current(w), work[w].idx) # {}
    /\ work[w].pc \in {"idle", "select", "claim", "parse"} => work[w].idx = {}
    /\ work[w].pc \in {"idle", "select", "claim", "parse", "discover"} => work[w].changed = {}
    /\ held[w] \subseteq
         {"file", "account", "bill"} \X (Files \cup AllRefs \cup accounts \cup work[w].idx)

\* From its claim on, a transaction holds the row of a file that is not parsed.
ClaimSound(w) ==
    /\ work[w].pc = "claim" => work[w].known # "parsed"
    /\ work[w].pc \in {"parse", "discover", "read", "write", "commit"} =>
         Row("file", Current(w)) \in held[w] /\ file[Current(w)] # "parsed"

\* What a transaction has done before it may commit: every account discovered, and
\* every total either its own or there already.
TotalsSound(w) ==
    work[w].pc \in {"read", "write", "commit"} =>
        /\ Undiscovered(Current(w), work[w].idx) = {}
        /\ work[w].changed \subseteq Refs(Current(w)) /\ work[w].left \subseteq Refs(Current(w))
        /\ \A r \in Refs(Current(w)) \ work[w].left : r \in work[w].changed \/ bill[r] # None
        /\ work[w].pc = "write" =>
             /\ work[w].left # {}
             /\ work[w].seen # None => bill[NextRef(Current(w), work[w].left)] # None
        /\ work[w].pc = "commit" => work[w].left = {}

\* What a connector is about to record is committed.
EvidenceDue(w) ==
    work[w].pc = "evidence" =>
        file[Current(w)] = "parsed" /\ Head(work[w].todo).conn \in Connectors

WorkerSound(w) == ItemSound(w) /\ ClaimSound(w) /\ TotalsSound(w) /\ EvidenceDue(w)

TotalsParsed ==
    \A r \in AllRefs : bill[r] # None =>
        /\ file[bill[r].file] = "parsed" /\ r \in Refs(bill[r].file)
        /\ \E f \in Files : file[f] = "parsed" /\ r \in Refs(f) /\ bill[r].amount = Total(f, r)

ConnectorsParsed == \A c \in Connectors : conn[c].last # None => file[conn[c].last] = "parsed"

IInv ==
    /\ RowsTyped /\ WorkTyped /\ LocksApart
    /\ TotalsParsed /\ ConnectorsParsed /\ NothingVanishes
    /\ \A w \in Workers : WorkerSound(w)

----------------------------------------------------------------------------
(* What a file says.                                                        *)

\* A set of naturals has a first element.
LEMMA FirstOfIndices ==
    ASSUME NEW S \in SUBSET Nat, S # {}
    PROVE  First(S) \in S /\ \A j \in S : First(S) <= j
<1>1. PICK i \in S : \A j \in S : ~(<<j, i>> \in OpToRel(<, Nat))
  BY NatLessThanWellFounded, WFMin
<1>2. \A j \in S : i <= j
  <2> SUFFICES ASSUME NEW j \in S, j < i PROVE FALSE
    OBVIOUS
  <2> QED
    BY <1>1 DEF OpToRel
<1> QED
  BY <1>2 DEF First

LEMMA LinesAreIndexed ==
    ASSUME NEW f \in Files
    PROVE  /\ DOMAIN Lines[f] = 1..Len(Lines[f]) /\ Len(Lines[f]) \in Nat
           /\ Ledger!Charges(f) \subseteq DOMAIN Lines[f]
           /\ Ledger!Canonical(f) \subseteq Ledger!Charges(f)
           /\ Ledger!Quarantined(f) \subseteq DOMAIN Lines[f]
  BY IngestAssumption, LenProperties
  DEF Ledger!Charges, Ledger!Canonical, Ledger!Quarantined

LEMMA RefsOfFile ==
    ASSUME NEW f \in Files
    PROVE  Refs(f) \subseteq AllRefs
  BY DEF AllRefs

\* The next total to write is one that is left.
LEMMA NextRefIsLeft ==
    ASSUME NEW f \in Files, NEW left \in SUBSET Refs(f), left # {}
    PROVE  NextRef(f, left) \in left
<1> DEFINE naming == {i \in Ledger!Charges(f) : Lines[f][i].acct \in left}
<1>1. CASE Payer[f] \in left
  BY <1>1 DEF NextRef
<1>2. CASE Payer[f] \notin left
  <2>1. naming # {} /\ naming \in SUBSET Nat
    BY <1>2, LinesAreIndexed DEF Refs
  <2>2. First(naming) \in naming
    BY <2>1, FirstOfIndices
  <2>3. NextRef(f, left) = Lines[f][First(naming)].acct
    BY <1>2 DEF NextRef
  <2> QED
    BY <2>2, <2>3
<1> QED
  BY <1>1, <1>2

\* The account discovered next is one the file names, and new to the index.
LEMMA FirstAccountIsNew ==
    ASSUME NEW f \in Files, NEW idx, Undiscovered(f, idx) # {}
    PROVE  FirstAccount(f, idx) \in AllAccounts /\ FirstAccount(f, idx) \notin idx
<1>1. Undiscovered(f, idx) \in SUBSET Nat /\ Undiscovered(f, idx) \subseteq Ledger!Charges(f)
  BY LinesAreIndexed DEF Undiscovered
<1>2. First(Undiscovered(f, idx)) \in Undiscovered(f, idx)
  BY <1>1, FirstOfIndices
<1> DEFINE i == First(Undiscovered(f, idx))
<1>3. i \in Ledger!Charges(f) /\ Lines[f][i].acct \notin idx
  BY <1>1, <1>2 DEF Undiscovered
<1>4. Lines[f][i].acct \in AllAccounts
  BY <1>3 DEF AllAccounts
<1> QED
  BY <1>3, <1>4 DEF FirstAccount

\* Posting a file adds natural numbers of charges.
LEMMA WithChargesTyped ==
    ASSUME NEW f \in Files, NEW ledger \in [Keys -> Nat]
    PROVE  Ledger!WithCharges(f, ledger) \in [Keys -> Nat]
<1>0. \A S : Ledger!Cardinality(S) = Cardinality(S)
  BY DEF Ledger!Cardinality, Cardinality
<1>1. ASSUME NEW k \in Keys
      PROVE  Cardinality({i \in Ledger!Canonical(f) : Lines[f][i].key = k}) \in Nat
  <2>1. IsFiniteSet(DOMAIN Lines[f])
    BY LinesAreIndexed, FS_Interval
  <2>2. {i \in Ledger!Canonical(f) : Lines[f][i].key = k} \subseteq DOMAIN Lines[f]
    BY LinesAreIndexed
  <2> QED
    BY <2>1, <2>2, FS_Subset, FS_CardinalityType
<1> QED
  BY <1>0, <1>1 DEF Ledger!WithCharges

----------------------------------------------------------------------------
(* What a step of one worker leaves alone.                                  *)

\* Before any file arrives the invariant holds.
LEMMA InitInv == Init => IInv
<1> SUFFICES ASSUME Init PROVE IInv
  OBVIOUS
<1>1. Idle \in Work
  BY DEF Idle, Work, BillRow
<1>2. RowsTyped
  BY IngestAssumption DEF Init, RowsTyped, BillRow
<1>3. WorkTyped /\ LocksApart
  BY <1>1 DEF Init, WorkTyped, LocksApart
<1>4. TotalsParsed /\ ConnectorsParsed /\ NothingVanishes
  BY DEF Init, TotalsParsed, ConnectorsParsed, NothingVanishes
<1>5. ASSUME NEW w \in Workers PROVE WorkerSound(w)
  BY <1>5 DEF Init, Idle, WorkerSound, ItemSound, ClaimSound, TotalsSound, EvidenceDue
<1> QED
  BY <1>2, <1>3, <1>4, <1>5 DEF IInv

\* What others may rely on while worker w takes a step.
Steady(w) ==
    /\ \A v \in Workers \ {w} : work'[v] = work[v] /\ held'[v] = held[v]
    /\ \A f \in Files : /\ file[f] = "parsed" => file'[f] = "parsed"
                        /\ file'[f] = "parsed" => file[f] = "parsed" \/ Row("file", f) \in held[w]
    /\ accounts \subseteq accounts'
    /\ \A r \in AllRefs : bill[r] # None => bill'[r] # None

\* A transaction relies on nothing that another one changes without its lock.
LEMMA OthersStay ==
    ASSUME IInv, NEW w \in Workers, Steady(w), NEW v \in Workers \ {w}
    PROVE  WorkerSound(v)'
<1>1. WorkerSound(v) /\ work'[v] = work[v] /\ held'[v] = held[v]
  BY DEF IInv, Steady
<1>2. Current(v)' = Current(v)
  BY <1>1 DEF Current
<1>3. ItemSound(v)'
  BY <1>1, <1>2 DEF WorkerSound, ItemSound, Steady
<1>4. ClaimSound(v)'
  <2>1. held[v] \cap held[w] = {}
    BY DEF IInv, LocksApart
  <2> QED
    BY <1>1, <1>2, <2>1 DEF WorkerSound, ItemSound, ClaimSound, Steady
<1>5. TotalsSound(v)'
  <2> SUFFICES ASSUME work[v].pc \in {"read", "write", "commit"} PROVE TotalsSound(v)'
    BY <1>1 DEF TotalsSound
  <2>1. TotalsSound(v) /\ Current(v) \in Files /\ Refs(Current(v)) \subseteq AllRefs
    BY <1>1, RefsOfFile DEF WorkerSound, ItemSound
  <2>2. work[v].pc = "write" => NextRef(Current(v), work[v].left) \in AllRefs
    BY <2>1, NextRefIsLeft DEF TotalsSound
  <2> QED
    BY <1>1, <1>2, <2>1, <2>2 DEF TotalsSound, Steady
<1>6. EvidenceDue(v)'
  BY <1>1, <1>2 DEF WorkerSound, ItemSound, EvidenceDue, Steady
<1> QED
  BY <1>3, <1>4, <1>5, <1>6 DEF WorkerSound

\* A step of one worker keeps the invariant when it keeps its own part of it.
LEMMA WorkerStepInv ==
    ASSUME IInv, NEW w \in Workers, Steady(w),
           NEW item \in Work, work' = [work EXCEPT ![w] = item],
           NEW locks \in SUBSET LockIds, held' = [held EXCEPT ![w] = locks],
           \A v \in Workers \ {w} : locks \cap held[v] = {},
           WorkerSound(w)', RowsTyped', TotalsParsed', ConnectorsParsed', NothingVanishes'
    PROVE  IInv'
<1>1. WorkTyped'
  BY DEF IInv, WorkTyped
<1>2. \A v \in Workers : held'[v] = IF v = w THEN locks ELSE held[v]
  BY DEF IInv, WorkTyped
<1>3. LocksApart'
  BY <1>2 DEF IInv, LocksApart
<1>4. \A v \in Workers : WorkerSound(v)'
  BY OthersStay
<1> QED
  BY <1>1, <1>3, <1>4 DEF IInv

\* A step that commits nothing.
LEMMA QuietStepInv ==
    ASSUME IInv, NEW w \in Workers, UNCHANGED <<committed, broken, month>>,
           NEW item \in Work, work' = [work EXCEPT ![w] = item],
           NEW locks \in SUBSET LockIds, held' = [held EXCEPT ![w] = locks],
           \A v \in Workers \ {w} : locks \cap held[v] = {},
           losses' \in 0..MaxLosses, UNCHANGED conn, WorkerSound(w)'
    PROVE  IInv'
<1>1. UNCHANGED <<file, charged, aside, accounts, bill, broken, month, conn>>
  BY DEF committed
<1>2. Steady(w)
  BY <1>1 DEF Steady, IInv, WorkTyped
<1>3. RowsTyped'
  BY <1>1 DEF IInv, RowsTyped
<1>4. TotalsParsed' /\ ConnectorsParsed' /\ NothingVanishes'
  BY <1>1 DEF IInv, TotalsParsed, ConnectorsParsed, NothingVanishes
<1> QED
  BY <1>2, <1>3, <1>4, WorkerStepInv

\* A worker that is done with a file, or with all of them, knows nothing.
LEMMA FreshSound ==
    ASSUME NEW w \in Workers, work'[w].pc \in {"idle", "select"}, work'[w].idx = {},
           work'[w].changed = {}, work'[w].pc = "select" => work'[w].todo # <<>>,
           held'[w] = {}
    PROVE  WorkerSound(w)'
  BY DEF WorkerSound, ItemSound, ClaimSound, TotalsSound, EvidenceDue

\* The rest of the caller's list, with the locks released.
LEMMA EndItemSound ==
    ASSUME IInv, NEW w \in Workers, work[w].pc # "idle", EndItem(w)
    PROVE  /\ \E item \in Work : work' = [work EXCEPT ![w] = item]
           /\ held' = [held EXCEPT ![w] = {}] /\ {} \in SUBSET LockIds
           /\ WorkerSound(w)'
<1> DEFINE rest == Tail(work[w].todo)
           item == IF rest = <<>> THEN Idle ELSE [Idle EXCEPT !.pc = "select", !.todo = rest]
<1>1. work[w] \in Work /\ work[w].todo # <<>>
  BY DEF IInv, WorkTyped, WorkerSound, ItemSound
<1>2. rest \in Seq(Items)
  BY <1>1, HeadTailProperties DEF Work
<1>3. Idle \in Work
  BY DEF Idle, Work, BillRow
<1>4. /\ item \in Work /\ item.pc \in {"idle", "select"} /\ item.idx = {} /\ item.changed = {}
      /\ item.pc = "select" => item.todo # <<>>
  BY <1>2, <1>3 DEF Idle, Work
<1>5. work' = [work EXCEPT ![w] = item] /\ held' = [held EXCEPT ![w] = {}]
  BY DEF EndItem
<1> HIDE DEF item
<1>6. work'[w] = item /\ held'[w] = {}
  BY <1>5 DEF IInv, WorkTyped
<1> QED
  BY <1>4, <1>5, <1>6, FreshSound

\* A transaction that is rolled back leaves nothing.
LEMMA AbortInv ==
    ASSUME IInv, NEW w \in Workers, Abort(w), UNCHANGED <<broken, conn, month>>,
           losses' \in 0..MaxLosses
    PROVE  IInv'
<1>1. Idle \in Work /\ Idle.pc = "idle" /\ Idle.idx = {} /\ Idle.changed = {}
  BY DEF Idle, Work, BillRow
<1>2. work' = [work EXCEPT ![w] = Idle] /\ held' = [held EXCEPT ![w] = {}] /\ UNCHANGED committed
  BY DEF Abort
<1>3. work'[w] = Idle /\ held'[w] = {}
  BY <1>2 DEF IInv, WorkTyped
<1>4. WorkerSound(w)'
  BY <1>1, <1>3, FreshSound
<1> QED
  BY <1>1, <1>2, <1>4, QuietStepInv

----------------------------------------------------------------------------
(* Callers.                                                                 *)

\* A caller's list of files is one or more items.
LEMMA StartInv ==
    ASSUME IInv, NEW w \in Workers, NEW items \in Seq(Items) \ {<<>>}, Start(w, items)
    PROVE  IInv'
<1>1. work[w].pc = "idle" /\ UNCHANGED <<committed, broken, conn, month, held, losses>>
  BY DEF Start
<1>2. work[w] \in Work /\ held[w] \in SUBSET LockIds /\ WorkerSound(w)
  BY DEF IInv, WorkTyped
<1>3. PICK item \in Work : /\ item = [work[w] EXCEPT !.pc = "select", !.todo = items]
                           /\ item.pc = "select" /\ item.todo = items /\ item.idx = work[w].idx
                           /\ item.changed = work[w].changed
  <2> DEFINE i == [work[w] EXCEPT !.pc = "select", !.todo = items]
  <2>1. /\ i \in Work /\ i.pc = "select" /\ i.todo = items
        /\ i.idx = work[w].idx /\ i.changed = work[w].changed
    BY <1>2 DEF Work
  <2> QED
    BY <2>1
<1>4. work' = [work EXCEPT ![w] = item]
  BY <1>3 DEF Start
<1>5. work'[w] = item /\ held' = [held EXCEPT ![w] = held[w]] /\ held'[w] = held[w]
  BY <1>1, <1>4 DEF IInv, WorkTyped
<1>6. WorkerSound(w)'
  BY <1>1, <1>2, <1>3, <1>5
  DEF WorkerSound, ItemSound, ClaimSound, TotalsSound, EvidenceDue, committed
<1>7. \A v \in Workers \ {w} : held[w] \cap held[v] = {}
  BY DEF IInv, LocksApart
<1>8. losses' \in 0..MaxLosses
  BY <1>1 DEF IInv, RowsTyped
<1> QED
  BY <1>1, <1>2, <1>4, <1>5, <1>6, <1>7, <1>8, QuietStepInv

\* Requests name files; a sweep lists each due connector once.
LEMMA CallerInv ==
    ASSUME IInv, NEW w \in Workers,
           Upload(w) \/ LoadSynthetic(w) \/ RunConnectorNow(w) \/ RunDueConnectors(w)
    PROVE  IInv'
<1>1. CASE Upload(w)
  <2>1. PICK f \in Files : Start(w, <<Item(f, None, None)>>)
    BY <1>1 DEF Upload
  <2>2. <<Item(f, None, None)>> \in Seq(Items) \ {<<>>}
    BY DEF Item, Items
  <2> QED
    BY <2>1, <2>2, StartInv
<1>2. CASE LoadSynthetic(w)
  <2>1. PICK fs \in Loads : Start(w, [i \in DOMAIN fs |-> Item(fs[i], None, None)])
    BY <1>2 DEF LoadSynthetic
  <2>2. fs \in Seq(Files) /\ fs # <<>>
    BY IngestAssumption
  <2>3. DOMAIN fs = 1..Len(fs) /\ Len(fs) \in Nat \ {0}
    BY <2>2, LenProperties, EmptySeq
  <2>4. [i \in DOMAIN fs |-> Item(fs[i], None, None)] \in Seq(Items) \ {<<>>}
    <3>1. \A i \in 1..Len(fs) : Item(fs[i], None, None) \in Items
      BY <2>2, <2>3 DEF Item, Items
    <3> QED
      BY <2>3, <3>1
  <2> QED
    BY <2>1, <2>4, StartInv
<1>3. CASE RunConnectorNow(w)
  <2>1. PICK c \in Connectors, m \in Months :
          Fixture[c][m] # None /\ Start(w, <<Item(Fixture[c][m], c, None)>>)
    BY <1>3 DEF RunConnectorNow
  <2>2. <<Item(Fixture[c][m], c, None)>> \in Seq(Items) \ {<<>>}
    BY IngestAssumption DEF Item, Items
  <2> QED
    BY <2>1, <2>2, StartInv
<1>4. CASE RunDueConnectors(w)
  <2>1. PICK order \in SetToSeqs(Due) :
          Start(w, [i \in DOMAIN order |-> Item(Fixture[order[i]][month], order[i], month)])
    BY <1>4 DEF RunDueConnectors
  <2>2. IsFiniteSet(Due) /\ Due # {} /\ Due \subseteq Connectors
    BY <1>4, IngestAssumption, FS_Subset DEF RunDueConnectors, Due
  <2>3. Cardinality(Due) \in Nat /\ Cardinality(Due) # 0
    BY <2>2, FS_CardinalityType, FS_EmptySet
  <2>4. order \in [1..Cardinality(Due) -> Due]
    BY DEF SetToSeqs
  <2>5. \A i \in 1..Cardinality(Due) : Item(Fixture[order[i]][month], order[i], month) \in Items
    <3>1. month \in Months
      BY DEF IInv, RowsTyped
    <3>2. \A c \in Connectors : Fixture[c][month] \in Files \cup {None}
      BY <3>1, IngestAssumption
    <3>3. \A i \in 1..Cardinality(Due) : order[i] \in Connectors
      BY <2>2, <2>4
    <3> QED
      BY <3>1, <3>2, <3>3 DEF Item, Items
  <2>6. [i \in DOMAIN order |-> Item(Fixture[order[i]][month], order[i], month)]
          \in Seq(Items) \ {<<>>}
    BY <2>3, <2>4, <2>5
  <2> QED
    BY <2>1, <2>6, StartInv
<1> QED
  BY <1>1, <1>2, <1>3, <1>4

\* A worker stays sound while the rows it depends on stay.
LEMMA SoundStays ==
    ASSUME NEW w \in Workers, WorkerSound(w), UNCHANGED <<work, held, file, accounts, bill>>
    PROVE  WorkerSound(w)'
<1>1. ItemSound(w)'
  BY DEF WorkerSound, ItemSound, Current
<1>2. ClaimSound(w)' /\ EvidenceDue(w)'
  BY DEF WorkerSound, ClaimSound, EvidenceDue, Current
<1>3. TotalsSound(w)'
  BY DEF WorkerSound, TotalsSound, Current
<1> QED
  BY <1>1, <1>2, <1>3 DEF WorkerSound

\* Connectors and the calendar do not touch what a file left behind.
LEMMA OutsideInv ==
    ASSUME IInv, \/ \E c \in Connectors : CreateConnector(c) \/ ToggleConnector(c)
                 \/ NextMonth \/ Deploy
    PROVE  IInv'
<1>1. UNCHANGED <<file, charged, aside, accounts, bill, losses>>
  BY DEF CreateConnector, ToggleConnector, NextMonth, Deploy, committed
<1>2. \/ UNCHANGED <<work, held>>
      \/ work' = [w \in Workers |-> Idle] /\ held' = [w \in Workers |-> {}]
  BY DEF CreateConnector, ToggleConnector, NextMonth, Deploy
<1>3. /\ broken' \in {broken, {}} /\ month' \in Months
      /\ conn' \in [Connectors -> [state : {"absent", "on", "off"}, due : BOOLEAN,
                                   last : Files \cup {None}]]
      /\ \A c \in Connectors : conn'[c].last = conn[c].last
  <2>1. CASE \E c \in Connectors : CreateConnector(c) \/ ToggleConnector(c)
    BY <2>1 DEF CreateConnector, ToggleConnector, IInv, RowsTyped
  <2>2. CASE NextMonth
    BY <2>2 DEF NextMonth, IInv, RowsTyped
  <2>3. CASE Deploy
    BY <2>3 DEF Deploy, IInv, RowsTyped
  <2> QED
    BY <2>1, <2>2, <2>3
<1>4. RowsTyped' /\ TotalsParsed' /\ ConnectorsParsed' /\ NothingVanishes'
  BY <1>1, <1>3 DEF IInv, RowsTyped, TotalsParsed, ConnectorsParsed, NothingVanishes
<1>5. CASE UNCHANGED <<work, held>>
  <2>1. WorkTyped' /\ LocksApart'
    BY <1>5 DEF IInv, WorkTyped, LocksApart
  <2>2. \A w \in Workers : WorkerSound(w)'
    BY <1>1, <1>5, SoundStays DEF IInv
  <2> QED
    BY <1>4, <2>1, <2>2 DEF IInv
<1>6. CASE work' = [w \in Workers |-> Idle] /\ held' = [w \in Workers |-> {}]
  <2>1. Idle \in Work /\ Idle.pc = "idle" /\ Idle.idx = {} /\ Idle.changed = {}
    BY DEF Idle, Work, BillRow
  <2>2. WorkTyped' /\ LocksApart'
    BY <1>6, <2>1 DEF WorkTyped, LocksApart
  <2>3. \A w \in Workers : WorkerSound(w)'
    BY <1>6, <2>1, FreshSound
  <2> QED
    BY <1>4, <2>2, <2>3 DEF IInv
<1> QED
  BY <1>2, <1>5, <1>6

----------------------------------------------------------------------------
(* ingest_csv.                                                              *)

\* A step that ends the item and commits nothing.
LEMMA QuietEndInv ==
    ASSUME IInv, NEW w \in Workers, work[w].pc # "idle", EndItem(w),
           UNCHANGED <<committed, broken, conn, month, losses>>
    PROVE  IInv'
<1>1. PICK item \in Work : work' = [work EXCEPT ![w] = item]
  BY EndItemSound
<1>2. held' = [held EXCEPT ![w] = {}] /\ WorkerSound(w)' /\ {} \in SUBSET LockIds
  BY EndItemSound
<1>3. losses' \in 0..MaxLosses
  BY DEF IInv, RowsTyped
<1> QED
  BY <1>1, <1>2, <1>3, QuietStepInv

\* A worker goes on within its item, its locks as given.
LEMMA QuietGoInv ==
    ASSUME IInv, NEW w \in Workers, NEW item \in Work, work' = [work EXCEPT ![w] = item],
           UNCHANGED <<committed, broken, conn, month, losses>>,
           UNCHANGED held \/ (Free(w) /\ Hold(w) /\ Wanted(w) \subseteq LockIds),
           WorkerSound(w)'
    PROVE  IInv'
<1>1. held \in [Workers -> SUBSET LockIds] /\ losses' \in 0..MaxLosses
  BY DEF IInv, WorkTyped, RowsTyped
<1>2. \A v \in Workers \ {w} : held[w] \cap held[v] = {}
  BY DEF IInv, LocksApart
<1>3. CASE UNCHANGED held
  <2>1. held' = [held EXCEPT ![w] = held[w]] /\ held[w] \in SUBSET LockIds
    BY <1>1, <1>3
  <2> DEFINE locks == held[w]
  <2>2. locks \in SUBSET LockIds /\ held' = [held EXCEPT ![w] = locks]
        /\ \A v \in Workers \ {w} : locks \cap held[v] = {}
    BY <1>2, <2>1
  <2> HIDE DEF locks
  <2> QED
    BY <1>1, <2>2, QuietStepInv
<1>4. CASE Free(w) /\ Hold(w) /\ Wanted(w) \subseteq LockIds
  <2>1. held' = [held EXCEPT ![w] = held[w] \cup Wanted(w)]
    BY <1>1, <1>4 DEF Hold
  <2>2. \A v \in Workers \ {w} : (held[w] \cup Wanted(w)) \cap held[v] = {}
    <3>1. \A v \in Workers \ {w} : Wanted(w) \cap held[v] = {}
      BY <1>4 DEF Free, Blocks
    <3> QED
      BY <1>2, <3>1
  <2>3. held[w] \cup Wanted(w) \in SUBSET LockIds
    BY <1>1, <1>4
  <2> QED
    BY <1>1, <2>1, <2>2, <2>3, QuietStepInv
<1> QED
  BY <1>3, <1>4

\* What a worker knows of its item.
LEMMA ItemTyped ==
    ASSUME IInv, NEW w \in Workers, work[w].pc # "idle"
    PROVE  /\ work[w] \in Work /\ held[w] \in SUBSET LockIds /\ WorkerSound(w)
           /\ Head(work[w].todo) \in Items /\ Current(w) \in Files \cup {None}
           /\ Head(work[w].todo).conn \in Connectors \cup {None}
<1>1. work[w] \in Work /\ held[w] \in SUBSET LockIds /\ WorkerSound(w) /\ work[w].todo # <<>>
  BY DEF IInv, WorkTyped, WorkerSound, ItemSound
<1>2. Head(work[w].todo) \in Items
  BY <1>1, HeadTailProperties DEF Work
<1> QED
  BY <1>1, <1>2 DEF Items, Current

LEMMA SelectInv ==
    ASSUME IInv, NEW w \in Workers, Select(w)
    PROVE  IInv'
<1>1. /\ work[w].pc = "select" /\ Current(w) # None
      /\ UNCHANGED <<committed, broken, conn, month, losses>>
  BY DEF Select
<1>2. /\ work[w] \in Work /\ WorkerSound(w) /\ Current(w) \in Files
      /\ Head(work[w].todo).conn \in Connectors \cup {None}
  BY <1>1, ItemTyped
<1>3. losses' \in 0..MaxLosses
  BY <1>1 DEF IInv, RowsTyped
<1>4. CASE EndItem(w) \/ Abort(w)
  BY <1>1, <1>3, <1>4, QuietEndInv, AbortInv
<1>5. CASE /\ file[Current(w)] = "parsed" /\ Head(work[w].todo).conn # None
           /\ work' = [work EXCEPT ![w].pc = "evidence"] /\ UNCHANGED held
  <2> DEFINE item == [work[w] EXCEPT !.pc = "evidence"]
  <2>1. item \in Work /\ work' = [work EXCEPT ![w] = item]
    BY <1>2, <1>5 DEF Work
  <2>2. work'[w] = item /\ Current(w)' = Current(w)
    BY <1>2, <2>1 DEF IInv, WorkTyped, Work, Current
  <2>3. WorkerSound(w)'
    BY <1>1, <1>2, <1>5, <2>2
    DEF Work, WorkerSound, ItemSound, ClaimSound, TotalsSound, EvidenceDue, committed
  <2> QED
    BY <1>1, <1>5, <2>1, <2>3, QuietGoInv
<1>6. CASE /\ file[Current(w)] # "parsed"
           /\ work' = [work EXCEPT ![w].pc = "claim", ![w].known = file[Current(w)]]
           /\ UNCHANGED held
  <2> DEFINE item == [work[w] EXCEPT !.pc = "claim", !.known = file[Current(w)]]
  <2>1. item \in Work /\ work' = [work EXCEPT ![w] = item]
    BY <1>2, <1>6 DEF IInv, RowsTyped, WorkTyped, Work
  <2>2. work'[w] = item /\ Current(w)' = Current(w)
    BY <1>2, <2>1 DEF IInv, WorkTyped, Work, Current
  <2>3. /\ work'[w].pc = "claim" /\ work'[w].known = file[Current(w)]
        /\ work'[w].todo = work[w].todo /\ work'[w].idx = work[w].idx
        /\ work'[w].changed = work[w].changed
    BY <1>2, <2>2 DEF Work
  <2>4. WorkerSound(w)'
    BY <1>1, <1>2, <1>6, <2>2, <2>3
    DEF WorkerSound, ItemSound, ClaimSound, TotalsSound, EvidenceDue, committed
  <2> QED
    BY <1>1, <1>6, <2>1, <2>4, QuietGoInv
<1> QED
  BY <1>4, <1>5, <1>6 DEF Select

\* The claim is granted only for a file that is still as it was read.
LEMMA ClaimInv ==
    ASSUME IInv, NEW w \in Workers, Claim(w)
    PROVE  IInv'
<1>1. /\ work[w].pc = "claim" /\ Free(w)
      /\ UNCHANGED <<committed, broken, conn, month, losses>>
  BY DEF Claim
<1>2. work[w] \in Work /\ WorkerSound(w) /\ Current(w) \in Files
  BY <1>1, ItemTyped DEF WorkerSound, ItemSound
<1>3. losses' \in 0..MaxLosses
  BY <1>1 DEF IInv, RowsTyped
<1>4. CASE Abort(w)
  BY <1>1, <1>3, <1>4, AbortInv
<1>5. CASE /\ file[Current(w)] = work[w].known
           /\ work' = [work EXCEPT ![w].pc = "parse"] /\ Hold(w)
  <2> DEFINE item == [work[w] EXCEPT !.pc = "parse"]
  <2>1. item \in Work /\ work' = [work EXCEPT ![w] = item]
    BY <1>2, <1>5 DEF Work
  <2>2. work'[w] = item /\ Current(w)' = Current(w)
    BY <1>2, <2>1 DEF IInv, WorkTyped, Work, Current
  <2>3. Wanted(w) = {Row("file", Current(w))} /\ held'[w] = held[w] \cup Wanted(w)
    BY <1>1, <1>5 DEF Wanted, Hold, IInv, WorkTyped
  <2>4. Wanted(w) \subseteq LockIds
    BY <1>2, <2>3 DEF LockIds, Row
  <2>5. WorkerSound(w)'
    BY <1>1, <1>2, <1>5, <2>2, <2>3
    DEF Work, WorkerSound, ItemSound, ClaimSound, TotalsSound, EvidenceDue, committed, Row
  <2> QED
    BY <1>1, <1>5, <2>1, <2>4, <2>5, QuietGoInv
<1> QED
  BY <1>4, <1>5 DEF Claim


\* A failed parse marks a file that was not parsed, and nothing else.
LEMMA ParseFailsInv ==
    ASSUME IInv, NEW w \in Workers, ParseFails(w)
    PROVE  IInv'
<1> DEFINE f == Current(w)
<1>1. /\ work[w].pc = "parse" /\ file' = [file EXCEPT ![f] = "failed"]
      /\ work' = [work EXCEPT ![w] = Idle] /\ held' = [held EXCEPT ![w] = {}]
      /\ UNCHANGED <<charged, aside, accounts, bill, broken, conn, month, losses>>
  BY DEF ParseFails
<1>2. f \in Files /\ file[f] # "parsed"
  BY <1>1, ItemTyped DEF WorkerSound, ItemSound, ClaimSound
<1> HIDE DEF f
<1>3. \A g \in Files : file'[g] = IF g = f THEN "failed" ELSE file[g]
  BY <1>1, <1>2 DEF IInv, RowsTyped
<1>4. \A g \in Files : file'[g] = "parsed" <=> file[g] = "parsed"
  BY <1>2, <1>3
<1>5. Idle \in Work /\ Idle.pc = "idle" /\ Idle.idx = {} /\ Idle.changed = {}
  BY DEF Idle, Work, BillRow
<1>6. WorkerSound(w)'
  <2>1. work'[w] = Idle /\ held'[w] = {}
    BY <1>1 DEF IInv, WorkTyped
  <2> QED
    BY <1>5, <2>1, FreshSound
<1>7. Steady(w)
  BY <1>1, <1>4 DEF Steady, IInv, WorkTyped
<1>8. RowsTyped'
  BY <1>1, <1>2 DEF IInv, RowsTyped
<1>9. NothingVanishes'
  BY <1>1, <1>4 DEF IInv, NothingVanishes
<1>10. TotalsParsed' /\ ConnectorsParsed'
  BY <1>1, <1>4, IngestAssumption
  DEF IInv, RowsTyped, BillRow, TotalsParsed, ConnectorsParsed
<1> QED
  BY <1>1, <1>5, <1>6, <1>7, <1>8, <1>9, <1>10, WorkerStepInv

\* The index of a transaction grows until no charge names an account outside it.
LEMMA IndexedInv ==
    ASSUME IInv, NEW w \in Workers, work[w].pc \in {"parse", "discover"},
           NEW idx \in SUBSET AllAccounts, Indexed(w, idx),
           work[w].idx \subseteq idx \cup accounts,
           UNCHANGED <<committed, broken, conn, month, losses>>,
           \/ UNCHANGED held
           \/ Free(w) /\ Hold(w) /\ Wanted(w) \subseteq {"account"} \X idx
    PROVE  IInv'
<1> DEFINE pc == IF Undiscovered(Current(w), idx) = {} THEN "read" ELSE "discover"
           item == [work[w] EXCEPT !.pc = pc, !.idx = idx, !.left = Refs(Current(w))]
<1>1. work[w] \in Work /\ WorkerSound(w) /\ Current(w) \in Files
  BY ItemTyped DEF WorkerSound, ItemSound
<1>2. Refs(Current(w)) \in SUBSET AllRefs
  BY <1>1, RefsOfFile
<1>3. work' = [work EXCEPT ![w] = item]
  BY DEF Indexed
<1>4. /\ item \in Work /\ item.pc = pc /\ item.idx = idx /\ item.left = Refs(Current(w))
      /\ item.todo = work[w].todo /\ item.changed = work[w].changed
  BY <1>1, <1>2 DEF Work
<1> HIDE DEF item
<1>5. work'[w] = item /\ Current(w)' = Current(w)
  BY <1>3, <1>4 DEF IInv, WorkTyped, Current
<1>6. held'[w] \subseteq held[w] \cup Wanted(w) /\ held[w] \subseteq held'[w]
  BY DEF Hold, IInv, WorkTyped
<1>7. UNCHANGED held \/ held'[w] \subseteq held[w] \cup ({"account"} \X idx)
  BY <1>6
<1>8. ItemSound(w)'
  <2>1. held[w] \subseteq {"file", "account", "bill"} \X (Files \cup AllRefs \cup accounts \cup idx)
    BY <1>1 DEF WorkerSound, ItemSound
  <2>2. held'[w] \subseteq
          {"file", "account", "bill"} \X (Files \cup AllRefs \cup accounts \cup idx)
    BY <1>7, <2>1
  <2>3. work[w].todo # <<>> /\ work[w].changed = {}
    BY <1>1 DEF WorkerSound, ItemSound
  <2> QED
    BY <1>1, <1>4, <1>5, <2>2, <2>3 DEF ItemSound, committed
<1>9. ClaimSound(w)' /\ EvidenceDue(w)'
  BY <1>1, <1>4, <1>5, <1>6 DEF WorkerSound, ClaimSound, EvidenceDue, committed
<1>10. TotalsSound(w)'
  <2>1. work[w].changed = {}
    BY <1>1 DEF WorkerSound, ItemSound
  <2> QED
    BY <1>4, <1>5, <2>1 DEF TotalsSound
<1>11. Wanted(w) \subseteq {"account"} \X idx => Wanted(w) \subseteq LockIds
  BY DEF LockIds
<1> QED
  BY <1>3, <1>4, <1>8, <1>9, <1>10, <1>11, QuietGoInv DEF WorkerSound

LEMMA ParseInv ==
    ASSUME IInv, NEW w \in Workers, Parse(w)
    PROVE  IInv'
<1>1. /\ work[w].pc = "parse" /\ Indexed(w, accounts)
      /\ UNCHANGED <<committed, broken, conn, month, held, losses>>
  BY DEF Parse
<1>2. accounts \in SUBSET AllAccounts /\ work[w].idx \subseteq accounts \cup accounts
  BY <1>1, ItemTyped DEF IInv, RowsTyped, WorkerSound, ItemSound
<1> QED
  BY <1>1, <1>2, IndexedInv

LEMMA DiscoverInv ==
    ASSUME IInv, NEW w \in Workers, Discover(w)
    PROVE  IInv'
<1> DEFINE a == FirstAccount(Current(w), work[w].idx)
<1>0. work[w].pc = "discover"
  BY DEF Discover
<1>1. /\ Free(w) /\ UNCHANGED <<committed, broken, conn, month, losses>>
      /\ IF a \in accounts THEN Abort(w) ELSE Indexed(w, work[w].idx \cup {a}) /\ Hold(w)
  BY DEF Discover
<1>2. /\ work[w] \in Work /\ Current(w) \in Files /\ losses' \in 0..MaxLosses
      /\ Undiscovered(Current(w), work[w].idx) # {}
  BY <1>0, <1>1, ItemTyped DEF WorkerSound, ItemSound, IInv, RowsTyped
<1>3. a \in AllAccounts
  BY <1>2, FirstAccountIsNew
<1>4. Wanted(w) = {Row("account", a)}
  BY <1>0 DEF Wanted
<1> HIDE DEF a
<1>5. /\ work[w].idx \cup {a} \in SUBSET AllAccounts
      /\ work[w].idx \subseteq (work[w].idx \cup {a}) \cup accounts
      /\ Wanted(w) \subseteq {"account"} \X (work[w].idx \cup {a})
  BY <1>2, <1>3, <1>4 DEF Work, Row
<1>6. CASE Abort(w)
  BY <1>1, <1>2, <1>6, AbortInv
<1>7. CASE Indexed(w, work[w].idx \cup {a}) /\ Hold(w)
  BY <1>0, <1>1, <1>5, <1>7, IndexedInv
<1> QED
  BY <1>1, <1>6, <1>7

LEMMA ReadTotalInv ==
    ASSUME IInv, NEW w \in Workers, ReadTotal(w)
    PROVE  IInv'
<1> DEFINE r == NextRef(Current(w), work[w].left)
           item == [work[w] EXCEPT !.pc = "write", !.seen = bill[r]]
<1>1. /\ work[w].pc = "read" /\ work[w].left # {} /\ work' = [work EXCEPT ![w] = item]
      /\ UNCHANGED <<committed, broken, conn, month, held, losses>>
  BY DEF ReadTotal
<1>2. work[w] \in Work /\ WorkerSound(w) /\ Current(w) \in Files
  BY <1>1, ItemTyped DEF WorkerSound, ItemSound
<1>3. r \in AllRefs
  BY <1>1, <1>2, NextRefIsLeft, RefsOfFile DEF WorkerSound, TotalsSound
<1> HIDE DEF r
<1>4. bill[r] \in BillRow
  BY <1>3 DEF IInv, RowsTyped
<1>5. /\ item \in Work /\ item.pc = "write" /\ item.seen = bill[r] /\ item.todo = work[w].todo
      /\ item.idx = work[w].idx /\ item.left = work[w].left /\ item.changed = work[w].changed
  BY <1>2, <1>4 DEF Work
<1> HIDE DEF item
<1>6. work'[w] = item /\ Current(w)' = Current(w)
  BY <1>1, <1>5 DEF IInv, WorkTyped, Current
<1>7. WorkerSound(w)'
  BY <1>1, <1>2, <1>5, <1>6
  DEF r, WorkerSound, ItemSound, ClaimSound, TotalsSound, EvidenceDue, committed
<1> QED
  BY <1>1, <1>5, <1>7, QuietGoInv

\* A total that is there already and differs in nothing needs no write of its own.
LEMMA WriteTotalInv ==
    ASSUME IInv, NEW w \in Workers, WriteTotal(w)
    PROVE  IInv'
<1> DEFINE r == NextRef(Current(w), work[w].left)
           changed == IF work[w].seen = None THEN work[w].changed \cup {r}
                      ELSE IF work[w].seen.amount # Total(Current(w), r)
                           THEN work[w].changed \cup {r} ELSE work[w].changed
           pc == IF work[w].left = {r} THEN "commit" ELSE "read"
           item == [work[w] EXCEPT !.pc = pc, !.left = work[w].left \ {r}, !.changed = changed]
<1>1. /\ work[w].pc = "write" /\ Free(w)
      /\ UNCHANGED <<committed, broken, conn, month, losses>>
      /\ Abort(w) \/ (Hold(w) /\ work' = [work EXCEPT ![w] = item])
  BY DEF WriteTotal
<1>2. work[w] \in Work /\ WorkerSound(w) /\ Current(w) \in Files /\ losses' \in 0..MaxLosses
  BY <1>1, ItemTyped DEF WorkerSound, ItemSound, IInv, RowsTyped
<1>3. /\ r \in work[w].left /\ work[w].left \subseteq Refs(Current(w))
      /\ work[w].seen # None => bill[r] # None
      /\ Undiscovered(Current(w), work[w].idx) = {} /\ work[w].changed \subseteq Refs(Current(w))
      /\ \A q \in Refs(Current(w)) \ work[w].left : q \in work[w].changed \/ bill[q] # None
  BY <1>1, <1>2, NextRefIsLeft DEF WorkerSound, TotalsSound
<1>4. r \in AllRefs /\ r \in Refs(Current(w))
  BY <1>2, <1>3, RefsOfFile
<1>5. /\ changed \in SUBSET AllRefs /\ changed \subseteq Refs(Current(w))
      /\ work[w].changed \subseteq changed
      /\ r \in changed \/ bill[r] # None
  BY <1>2, <1>3, <1>4 DEF Work
<1>6. Wanted(w) = {Row("bill", r)}
  BY <1>1 DEF Wanted
<1> HIDE DEF r, changed
<1>7. /\ item \in Work /\ item.pc = pc /\ item.left = work[w].left \ {r}
      /\ item.changed = changed /\ item.todo = work[w].todo /\ item.idx = work[w].idx
  BY <1>2, <1>5 DEF Work
<1> HIDE DEF item
<1>8. CASE Abort(w)
  BY <1>1, <1>2, <1>8, AbortInv
<1>9. CASE Hold(w) /\ work' = [work EXCEPT ![w] = item]
  <2>1. work'[w] = item /\ Current(w)' = Current(w)
    BY <1>7, <1>9 DEF IInv, WorkTyped, Current
  <2>2. held'[w] = held[w] \cup {Row("bill", r)}
    BY <1>6, <1>9 DEF Hold, IInv, WorkTyped
  <2>3. ItemSound(w)'
    BY <1>1, <1>2, <1>4, <1>7, <2>1, <2>2 DEF WorkerSound, ItemSound, committed, Row
  <2>4. ClaimSound(w)' /\ EvidenceDue(w)'
    BY <1>1, <1>2, <1>7, <2>1, <2>2 DEF WorkerSound, ClaimSound, EvidenceDue, committed
  <2>5. TotalsSound(w)'
    BY <1>1, <1>3, <1>5, <1>7, <2>1 DEF TotalsSound, committed
  <2>6. Wanted(w) \subseteq LockIds
    BY <1>4, <1>6 DEF LockIds, Row
  <2> QED
    BY <1>1, <1>7, <1>9, <2>3, <2>4, <2>5, <2>6, QuietGoInv DEF WorkerSound
<1> QED
  BY <1>1, <1>8, <1>9

\* What a commit leaves of a bill total: the amount is one that a parsed file states.
LEMMA CommitIngestInv ==
    ASSUME IInv, NEW w \in Workers, CommitIngest(w)
    PROVE  IInv'
<1> DEFINE f == Current(w)
           changed == work[w].changed
           row(r) == CASE r \in changed -> [amount |-> Total(f, r), file |-> f]
                       [] r \in Refs(f) \ changed -> [bill[r] EXCEPT !.file = f]
                       [] OTHER -> bill[r]
<1>1. /\ work[w].pc = "commit" /\ file' = [file EXCEPT ![f] = "parsed"]
      /\ charged' = Ledger!WithCharges(f, charged)
      /\ aside' = aside \cup ({f} \X Ledger!Quarantined(f))
      /\ accounts' = accounts \cup work[w].idx
      /\ bill' = [r \in AllRefs |-> row(r)]
      /\ UNCHANGED <<broken, conn, month, losses>>
  BY DEF CommitIngest
<1>2. /\ work[w] \in Work /\ WorkerSound(w) /\ f \in Files /\ Refs(f) \subseteq AllRefs
      /\ Head(work[w].todo).conn \in Connectors \cup {None}
  BY <1>1, ItemTyped, RefsOfFile DEF WorkerSound, ItemSound
<1>3. /\ Undiscovered(f, work[w].idx) = {} /\ changed \subseteq Refs(f)
      /\ \A r \in Refs(f) \ changed : bill[r] # None
      /\ Row("file", f) \in held[w] /\ work[w].idx \subseteq AllAccounts
  BY <1>1, <1>2 DEF WorkerSound, TotalsSound, ClaimSound, Work
<1> HIDE DEF f, changed, row
<1>4. \A g \in Files : file'[g] = IF g = f THEN "parsed" ELSE file[g]
  BY <1>1, <1>2 DEF IInv, RowsTyped
<1>5. ASSUME NEW r \in AllRefs
      PROVE  /\ row(r) \in BillRow
             /\ r \in changed => row(r).file = f /\ row(r).amount = Total(f, r)
             /\ r \in Refs(f) \ changed => row(r).file = f /\ row(r).amount = bill[r].amount
             /\ r \in Refs(f) => row(r) # None
             /\ r \notin Refs(f) => row(r) = bill[r]
  <2>1. bill[r] \in BillRow /\ Total(f, r) \in Amounts
    BY <1>2 DEF IInv, RowsTyped, Amounts
  <2>2. None \notin [amount : Amounts, file : Files]
    BY IngestAssumption
  <2>3. CASE r \in changed
    BY <1>2, <1>3, <2>1, <2>2, <2>3 DEF row, BillRow
  <2>4. CASE r \in Refs(f) \ changed
    BY <1>2, <1>3, <2>1, <2>2, <2>4 DEF row, BillRow
  <2>5. CASE r \notin Refs(f)
    BY <1>3, <2>1, <2>5 DEF row
  <2> QED
    BY <2>3, <2>4, <2>5
<1>6. /\ \A r \in AllRefs : bill'[r] = row(r) /\ (bill[r] # None => bill'[r] # None)
      /\ \A r \in Refs(f) : bill'[r] # None
  BY <1>1, <1>2, <1>5
<1>7. RowsTyped'
  <2>1. charged' \in [Keys -> Nat]
    BY <1>1, <1>2, WithChargesTyped DEF IInv, RowsTyped
  <2>2. aside' \subseteq Files \X Nat
    BY <1>1, <1>2, LinesAreIndexed DEF IInv, RowsTyped
  <2>3. file' \in [Files -> {"absent", "failed", "parsed"}]
    BY <1>1 DEF IInv, RowsTyped
  <2>4. bill' \in [AllRefs -> BillRow]
    BY <1>1, <1>5
  <2> QED
    BY <1>1, <1>3, <2>1, <2>2, <2>3, <2>4 DEF IInv, RowsTyped
<1>8. TotalsParsed'
  <2> SUFFICES ASSUME NEW r \in AllRefs, bill'[r] # None
               PROVE  /\ file'[bill'[r].file] = "parsed" /\ r \in Refs(bill'[r].file)
                      /\ \E g \in Files : /\ file'[g] = "parsed" /\ r \in Refs(g)
                                         /\ bill'[r].amount = Total(g, r)
    BY DEF TotalsParsed
  <2>1. CASE r \in changed
    BY <1>2, <1>3, <1>4, <1>5, <1>6, <2>1
  <2>2. CASE r \in Refs(f) \ changed
    <3>1. PICK g \in Files : /\ file[g] = "parsed" /\ r \in Refs(g)
                             /\ bill[r].amount = Total(g, r)
      BY <1>3, <2>2 DEF IInv, TotalsParsed
    <3>2. file'[g] = "parsed" /\ file'[f] = "parsed"
      BY <1>2, <1>4, <3>1
    <3> QED
      BY <1>5, <1>6, <2>2, <3>1, <3>2
  <2>3. CASE r \notin Refs(f)
    <3>1. bill'[r] = bill[r] /\ bill[r] # None
      BY <1>5, <1>6, <2>3
    <3>2. bill[r] \in [amount : Amounts, file : Files]
      BY <3>1 DEF IInv, RowsTyped, BillRow
    <3>3. /\ file[bill[r].file] = "parsed" /\ r \in Refs(bill[r].file)
          /\ \E g \in Files : /\ file[g] = "parsed" /\ r \in Refs(g)
                             /\ bill[r].amount = Total(g, r)
      BY <3>1 DEF IInv, TotalsParsed
    <3> QED
      BY <1>4, <3>1, <3>2, <3>3
  <2> QED
    BY <1>3, <2>1, <2>2, <2>3
<1>9. ConnectorsParsed'
  BY <1>1, <1>4 DEF IInv, RowsTyped, ConnectorsParsed
<1>10. NothingVanishes'
  <2> SUFFICES ASSUME NEW g \in Files, file'[g] = "parsed"
               PROVE  /\ \A i \in Ledger!Canonical(g) : Lines[g][i].acct \in accounts' \cup {None}
                      /\ \A r \in Refs(g) : bill'[r] # None
    BY DEF NothingVanishes
  <2>1. CASE g = f
    <3>1. \A i \in Ledger!Canonical(f) : Lines[f][i].acct \in work[w].idx \cup {None}
      BY <1>3 DEF Undiscovered
    <3> QED
      BY <1>1, <1>6, <2>1, <3>1
  <2>2. CASE g # f
    BY <1>1, <1>4, <1>6, <2>2, RefsOfFile DEF IInv, NothingVanishes
  <2> QED
    BY <2>1, <2>2
<1>11. \E item \in Work : /\ work' = [work EXCEPT ![w] = item]
                           /\ held' = [held EXCEPT ![w] = {}] /\ WorkerSound(w)'
  <2>1. CASE /\ Head(work[w].todo).conn # None
             /\ work' = [work EXCEPT ![w].pc = "evidence"] /\ held' = [held EXCEPT ![w] = {}]
    <3> DEFINE item == [work[w] EXCEPT !.pc = "evidence"]
    <3>1. /\ work' = [work EXCEPT ![w] = item]
          /\ item \in Work /\ item.pc = "evidence" /\ item.todo = work[w].todo
      BY <1>2, <2>1 DEF Work
    <3> HIDE DEF item
    <3>2. work'[w] = item /\ held'[w] = {} /\ Current(w)' = f
      BY <2>1, <3>1 DEF IInv, WorkTyped, Current, f
    <3>3. WorkerSound(w)'
      BY <1>1, <1>2, <1>4, <2>1, <3>1, <3>2
      DEF WorkerSound, ItemSound, ClaimSound, TotalsSound, EvidenceDue
    <3> QED
      BY <2>1, <3>1, <3>3
  <2>2. CASE EndItem(w)
    BY <1>1, <2>2, EndItemSound
  <2> QED
    BY <2>1, <2>2 DEF CommitIngest
<1>12. Steady(w)
  BY <1>1, <1>3, <1>4, <1>6, <1>11 DEF Steady, IInv, WorkTyped
<1>13. {} \in SUBSET LockIds
  OBVIOUS
<1> QED
  BY <1>7, <1>8, <1>9, <1>10, <1>11, <1>12, <1>13, WorkerStepInv

\* What a connector records is the file it has just ingested.
LEMMA RecordInv ==
    ASSUME IInv, NEW w \in Workers, RecordEvidence(w) \/ NoFixture(w)
    PROVE  IInv'
<1> DEFINE item == Head(work[w].todo)
<1>1. /\ work[w].pc \in {"evidence", "select"} /\ EndItem(w)
      /\ UNCHANGED <<committed, broken, month, losses>>
  BY DEF RecordEvidence, NoFixture
<1>2. item.conn \in Connectors \cup {None} /\ WorkerSound(w)
  BY <1>1, ItemTyped
<1>3. UNCHANGED <<file, charged, aside, accounts, bill>>
  BY <1>1 DEF committed
<1>4. /\ conn' \in [Connectors -> [state : {"absent", "on", "off"}, due : BOOLEAN,
                                   last : Files \cup {None}]]
      /\ \A c \in Connectors : conn'[c].last # None => file[conn'[c].last] = "parsed"
  <2>1. CASE RecordEvidence(w)
    <3>1. Current(w) \in Files /\ file[Current(w)] = "parsed"
      BY <1>2, <2>1 DEF RecordEvidence, WorkerSound, ItemSound, EvidenceDue
    <3>2. conn' = [conn EXCEPT ![item.conn].last = Current(w), ![item.conn].due = StillDue(item)]
      BY <2>1 DEF RecordEvidence, Current
    <3>3. StillDue(item) \in BOOLEAN
      BY DEF StillDue
    <3>4. item.conn \in Connectors
      BY <1>2, <2>1 DEF RecordEvidence, WorkerSound, EvidenceDue
    <3> HIDE DEF item
    <3>5. conn \in [Connectors -> [state : {"absent", "on", "off"}, due : BOOLEAN,
                                  last : Files \cup {None}]]
      BY DEF IInv, RowsTyped
    <3>6. \A c \in Connectors : conn'[c].last = IF c = item.conn THEN Current(w) ELSE conn[c].last
      BY <3>2, <3>4, <3>5
    <3>7. \A c \in Connectors : conn[c].last # None => file[conn[c].last] = "parsed"
      BY DEF IInv, ConnectorsParsed
    <3>8. conn' \in [Connectors -> [state : {"absent", "on", "off"}, due : BOOLEAN,
                                   last : Files \cup {None}]]
      BY <3>1, <3>2, <3>3, <3>4, <3>5
    <3> QED
      BY <3>1, <3>6, <3>7, <3>8
  <2>2. CASE NoFixture(w)
    <3>1. conn' = [conn EXCEPT ![item.conn].due = StillDue(item)] /\ StillDue(item) \in BOOLEAN
      BY <2>2 DEF NoFixture, StillDue
    <3> HIDE DEF item
    <3>2. conn \in [Connectors -> [state : {"absent", "on", "off"}, due : BOOLEAN,
                                  last : Files \cup {None}]]
      BY DEF IInv, RowsTyped
    <3>3. /\ conn' \in [Connectors -> [state : {"absent", "on", "off"}, due : BOOLEAN,
                                      last : Files \cup {None}]]
          /\ \A c \in Connectors : conn'[c].last = conn[c].last
      BY <3>1, <3>2
    <3> QED
      BY <3>3 DEF IInv, ConnectorsParsed
  <2> QED
    BY <2>1, <2>2
<1>5. RowsTyped' /\ TotalsParsed' /\ ConnectorsParsed' /\ NothingVanishes'
  BY <1>1, <1>3, <1>4
  DEF IInv, RowsTyped, TotalsParsed, ConnectorsParsed, NothingVanishes
<1>6. PICK next \in Work : work' = [work EXCEPT ![w] = next]
  BY <1>1, EndItemSound
<1>7. held' = [held EXCEPT ![w] = {}] /\ WorkerSound(w)' /\ {} \in SUBSET LockIds
  BY <1>1, EndItemSound
<1>8. Steady(w)
  BY <1>3, <1>6, <1>7 DEF Steady, IInv, WorkTyped
<1> QED
  BY <1>5, <1>6, <1>7, <1>8, WorkerStepInv

----------------------------------------------------------------------------
LEMMA NextInv == IInv /\ [Next]_vars => IInv'
<1> SUFFICES ASSUME IInv, [Next]_vars PROVE IInv'
  OBVIOUS
<1>1. ASSUME NEW w \in Requests, Upload(w) \/ LoadSynthetic(w) \/ RunConnectorNow(w) PROVE IInv'
  BY <1>1, CallerInv DEF Workers
<1>2. ASSUME NEW w \in Sweepers, RunDueConnectors(w) PROVE IInv'
  BY <1>2, CallerInv DEF Workers
<1>3. CASE (\E c \in Connectors : CreateConnector(c) \/ ToggleConnector(c)) \/ NextMonth \/ Deploy
  BY <1>3, OutsideInv
<1>4. ASSUME NEW w \in Workers, IngestStep(w) PROVE IInv'
  BY <1>4, SelectInv, ClaimInv, ParseFailsInv, ParseInv, DiscoverInv, ReadTotalInv,
     WriteTotalInv, CommitIngestInv, RecordInv DEF IngestStep
<1>5. ASSUME NEW w \in Workers, Victim(w) \/ Lose(w) PROVE IInv'
  <2>1. /\ Abort(w) /\ UNCHANGED <<broken, conn, month>>
        /\ UNCHANGED losses \/ (losses < MaxLosses /\ losses' = losses + 1)
    BY <1>5 DEF Victim, Lose
  <2>2. losses' \in 0..MaxLosses
    BY <2>1, IngestAssumption DEF IInv, RowsTyped
  <2> QED
    BY <2>1, <2>2, AbortInv
<1>6. CASE UNCHANGED vars
  <2>1. /\ RowsTyped' /\ WorkTyped' /\ LocksApart'
        /\ TotalsParsed' /\ ConnectorsParsed' /\ NothingVanishes'
    BY <1>6 DEF vars, IInv, RowsTyped, WorkTyped, LocksApart, TotalsParsed, ConnectorsParsed,
                NothingVanishes
  <2>2. \A w \in Workers : WorkerSound(w)'
    BY <1>6, SoundStays DEF vars, committed, IInv
  <2> QED
    BY <2>1, <2>2 DEF IInv
<1> QED
  BY <1>1, <1>2, <1>3, <1>4, <1>5, <1>6 DEF Next

\* The inductive invariant holds throughout.
THEOREM IngestSound == Spec => []IInv
  BY InitInv, NextInv, PTL DEF Spec

\* A bill total and a connector's evidence name parsed files, whatever failed, was
\* lost or lost a race on the way: nothing of a refused ingest is left behind.
THEOREM EvidenceNamesParsedFiles == Spec => []EvidenceIsParsed
<1>1. IInv => TypeOK
  <2> SUFFICES ASSUME IInv PROVE TypeOK
    OBVIOUS
  <2>1. ASSUME NEW w \in Workers
        PROVE  held[w] \subseteq {"file", "account", "bill"} \X (Files \cup accounts
                        \cup AllRefs \cup UNION {work[v].idx : v \in Workers})
    BY DEF IInv, WorkerSound, ItemSound
  <2> QED
    BY <2>1 DEF IInv, RowsTyped, WorkTyped, BillRow, TypeOK
<1>2. IInv => EvidenceIsParsed
  BY <1>1 DEF IInv, TotalsParsed, ConnectorsParsed, EvidenceIsParsed
<1> QED
  BY <1>2, IngestSound, PTL

\* Of a parsed file nothing is missing: its accounts are on the worklist, and every
\* total it states has a row, whichever transactions ran beside it.
THEOREM NothingIsLeftOut == Spec => []NothingVanishes
<1>1. IInv => NothingVanishes
  BY DEF IInv
<1> QED
  BY <1>1, IngestSound, PTL

----------------------------------------------------------------------------
(* The refinement of the ledger.                                            *)

Posted == {f \in Files : file[f] = "parsed"}

\* Only the commit of an ingest posts, and it posts a file for the first time.
LEMMA PostingStep ==
    ASSUME IInv, [Next]_vars
    PROVE  [Ledger!Next]_<<Posted, charged, aside>>
<1>1. CASE UNCHANGED <<file, charged, aside>>
  BY <1>1 DEF Posted
<1>2. ASSUME NEW w \in Workers, CommitIngest(w) PROVE Ledger!Next
  <2>1. PICK f \in Files : f = Current(w) /\ file[f] # "parsed"
    BY <1>2, ItemTyped DEF CommitIngest, WorkerSound, ItemSound, ClaimSound
  <2>2. \A g \in Files : file'[g] = IF g = f THEN "parsed" ELSE file[g]
    BY <1>2, <2>1 DEF CommitIngest, IInv, RowsTyped
  <2>3. {g \in Files : file'[g] = "parsed"} = {g \in Files : file[g] = "parsed"} \cup {f}
    BY <2>1, <2>2
  <2>4. f \notin {g \in Files : file[g] = "parsed"}
    BY <2>1
  <2>5. /\ charged' = Ledger!WithCharges(f, charged)
        /\ aside' = aside \cup ({f} \X Ledger!Quarantined(f))
    BY <1>2, <2>1 DEF CommitIngest
  <2>6. Ledger!Post(f)
    BY <2>3, <2>4, <2>5 DEF Ledger!Post
  <2> QED
    BY <2>6 DEF Ledger!Next
<1>3. ASSUME NEW w \in Workers, ParseFails(w) PROVE UNCHANGED <<Posted, charged, aside>>
  <2>1. Current(w) \in Files /\ file[Current(w)] # "parsed"
    BY <1>3, ItemTyped DEF ParseFails, WorkerSound, ItemSound, ClaimSound
  <2>2. \A g \in Files : file'[g] = IF g = Current(w) THEN "failed" ELSE file[g]
    BY <1>3, <2>1 DEF ParseFails, IInv, RowsTyped
  <2> QED
    BY <1>3, <2>1, <2>2 DEF ParseFails, Posted
<1>4. ASSUME NEW w \in Workers, IngestStep(w), ~CommitIngest(w), ~ParseFails(w)
      PROVE  UNCHANGED <<file, charged, aside>>
  BY <1>4 DEF IngestStep, Select, Claim, Parse, Discover, ReadTotal, WriteTotal,
              RecordEvidence, NoFixture, committed
<1>5. ASSUME NEW w \in Workers, Victim(w) \/ Lose(w) PROVE UNCHANGED <<file, charged, aside>>
  BY <1>5 DEF Victim, Lose, Abort, committed
<1>6. ASSUME NEW w \in Workers,
             Upload(w) \/ LoadSynthetic(w) \/ RunConnectorNow(w) \/ RunDueConnectors(w)
      PROVE  UNCHANGED <<file, charged, aside>>
  BY <1>6 DEF Upload, LoadSynthetic, RunConnectorNow, RunDueConnectors, Start, committed
<1>7. ASSUME (\E c \in Connectors : CreateConnector(c) \/ ToggleConnector(c)) \/ NextMonth \/ Deploy
      PROVE  UNCHANGED <<file, charged, aside>>
  BY <1>7 DEF CreateConnector, ToggleConnector, NextMonth, Deploy, committed
<1> QED
  BY <1>1, <1>2, <1>3, <1>4, <1>5, <1>6, <1>7 DEF Next, Workers, vars

\* ADR 0008: the transactions of ingest_csv implement the ledger, in which a file is
\* posted in one step, with all its charges and rows put aside, and never again.
THEOREM IngestPostsAtOnceAndOnce == Spec => PostedAtOnceAndOnce
<1>1. Init => Ledger!Init
  BY DEF Init, Ledger!Init
<1>2. IInv /\ [Next]_vars => [Ledger!Next]_<<Posted, charged, aside>>
  BY PostingStep
<1> QED
  BY <1>1, <1>2, IngestSound, PTL DEF Spec, PostedAtOnceAndOnce, Ledger!Spec, Posted
=============================================================================
