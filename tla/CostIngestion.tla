---------------------------- MODULE CostIngestion ----------------------------
(***************************************************************************)
(* Billing files become charges: uploads, the synthetic loads, connector    *)
(* runs and the connector sweep all call ingest_csv, each in a transaction  *)
(* of its own (READ COMMITTED, rows locked by INSERT and UPDATE until the   *)
(* commit).  A transaction reads with plain SELECTs and writes later; only  *)
(* the unique constraints on the file row, on (file, row number), on the    *)
(* account and on the bill total order the writers.                         *)
(***************************************************************************)
EXTENDS Naturals, FiniteSets, Sequences, SequencesExt, Functions

CONSTANTS
    Requests,    \* HTTP requests being served
    Sweepers,    \* workers running the connector sweep
    Files, Lines, Keys,
    Payer,       \* Payer[f]: the payer account named by f
    Unreadable,  \* files in which no row names a billing period
    Unparsed,    \* files on which the first release's adapter raises
    Connectors, Months,
    Fixture,     \* Fixture[c][m]: the file of connector c for month m, None if there is none
    Loads,       \* the file lists a synthetic load may ingest
    MaxLosses,   \* processes or database sessions lost in a behaviour
    None

VARIABLES
    file,      \* file[f]: committed raw_billing_files.status, "absent" if no row
    broken,    \* files on which the deployed adapter raises
    charged,   \* charged[k]: canonical_cost_records with dedupe_key k
    aside,     \* quarantined_records
    accounts,  \* external ids with a cloud_accounts row
    bill,      \* bill[r]: the provider_bill_totals row of ref r, None if absent
    conn,      \* provider_connectors
    month,     \* the month the sweep ingests
    work,      \* work[w]: where w is in ingest_csv and what it has read
    held,      \* held[w]: rows written and not yet committed by w
    losses

vars == <<file, broken, charged, aside, accounts, bill, conn, month, work, held, losses>>
committed == <<file, charged, aside, accounts, bill>>

Workers == Requests \cup Sweepers

Ledger == INSTANCE ChargeLedger WITH posted <- {f \in Files : file[f] = "parsed"}

-----------------------------------------------------------------------------
(* What a file says.                                                        *)

\* Enrolment rows have no linked account and roll up under the payer.
AccountKey(f, i) == IF Lines[f][i].acct = None THEN Payer[f] ELSE Lines[f][i].acct

\* The bill total rows f states: of the payer and of the accounts charged.
Refs(f) == {Payer[f]} \cup ({Lines[f][i].acct : i \in Ledger!Charges(f)} \ {None})

AllRefs == UNION {Refs(f) : f \in Files}

\* The first of some rows of a file.
First(indices) == CHOOSE i \in indices : \A j \in indices : i <= j

\* They are written in the order of the file, the payer first.
NextRef(f, left) ==
    IF Payer[f] \in left THEN Payer[f]
    ELSE Lines[f][First({i \in Ledger!Charges(f) : Lines[f][i].acct \in left})].acct

\* The provider's own summary wins over the sum of the rows, the last one if the
\* file has several; the sums include the rows later put aside as duplicates.
Total(f, r) ==
    LET of(S) == SumFunctionOnSet([i \in DOMAIN Lines[f] |-> Lines[f][i].amount], S)
        summary == {i \in DOMAIN Lines[f] : Lines[f][i].kind = "summary"}
    IN  CASE r = Payer[f] /\ summary # {} -> Lines[f][Max(summary)].amount
          [] r = Payer[f] /\ summary = {} -> of(Ledger!Charges(f))
          [] OTHER -> of({i \in Ledger!Charges(f) : AccountKey(f, i) = r})

\* Rows whose account is not among idx: the first of them is discovered next.
Undiscovered(f, idx) == {i \in Ledger!Canonical(f) : Lines[f][i].acct \notin idx \cup {None}}

FirstAccount(f, idx) == Lines[f][First(Undiscovered(f, idx))].acct

\* The amounts a bill total may state.
Amounts == {Total(f, r) : f \in Files, r \in AllRefs}

ASSUME IngestAssumption ==
    /\ IsFiniteSet(Connectors)
    /\ \A f \in Files : Lines[f] \in Seq(ToSet(Lines[f]))
    /\ Unparsed \subseteq Files
    /\ Months \subseteq Nat
    /\ Fixture \in [Connectors -> [Months -> Files \cup {None}]]
    /\ Loads \subseteq Seq(Files) \ {<<>>}
    /\ MaxLosses \in Nat
    /\ None \notin Files
    /\ None \notin [amount : Amounts, file : Files]

-----------------------------------------------------------------------------
(* Rows, locks and the state of a worker.                                   *)

Row(table, id) == <<table, id>>

Idle == [pc |-> "idle", todo |-> <<>>, known |-> "absent", idx |-> {},
         left |-> {}, seen |-> None, changed |-> {}]

Current(w) == Head(work[w].todo).file

\* The row the next statement of w writes.
Wanted(w) ==
    CASE work[w].pc = "claim"    -> {Row("file", Current(w))}
      [] work[w].pc = "discover" -> {Row("account", FirstAccount(Current(w), work[w].idx))}
      [] work[w].pc = "write"    -> {Row("bill", NextRef(Current(w), work[w].left))}
      [] OTHER                   -> {}

Blocks(v, w) == v # w /\ Wanted(w) \cap held[v] # {}
Free(w) == \A v \in Workers : ~Blocks(v, w)
Hold(w) == held' = [held EXCEPT ![w] = @ \cup Wanted(w)]

\* The exception reaches the caller: the transaction and what the caller had
\* still to do, a load's other months or a sweep's other connectors, are gone.
Abort(w) ==
    /\ work' = [work EXCEPT ![w] = Idle]
    /\ held' = [held EXCEPT ![w] = {}]
    /\ UNCHANGED committed

Init ==
    /\ file = [f \in Files |-> "absent"]
    /\ broken = Unparsed
    /\ charged = [k \in Keys |-> 0]
    /\ aside = {}
    /\ accounts = {}
    /\ bill = [r \in AllRefs |-> None]
    /\ conn = [c \in Connectors |-> [state |-> "absent", due |-> FALSE, last |-> None]]
    /\ month \in {m \in Months : \A n \in Months : m <= n}
    /\ work = [w \in Workers |-> Idle]
    /\ held = [w \in Workers |-> {}]
    /\ losses = 0

-----------------------------------------------------------------------------
(* Callers.                                                                 *)

Start(w, items) ==
    /\ work[w].pc = "idle"
    /\ work' = [work EXCEPT ![w].pc = "select", ![w].todo = items]
    /\ UNCHANGED <<committed, broken, conn, month, held, losses>>

\* listed: the month in which a sweep read the list, None outside a sweep.
Item(f, c, listed) == [file |-> f, conn |-> c, listed |-> listed]

Upload(w) == \E f \in Files : Start(w, <<Item(f, None, None)>>)

LoadSynthetic(w) == \E fs \in Loads : Start(w, [i \in DOMAIN fs |-> Item(fs[i], None, None)])

RunConnectorNow(w) ==
    \E c \in Connectors, m \in Months :
        /\ conn[c].state # "absent"
        /\ Fixture[c][m] # None
        /\ Start(w, <<Item(Fixture[c][m], c, None)>>)

\* The due connectors are listed once, in the order of next_due_at.
Due == {c \in Connectors : conn[c].state = "on" /\ conn[c].due}

RunDueConnectors(w) ==
    /\ Due # {}
    /\ \E order \in SetToSeqs(Due) :
        Start(w, [i \in DOMAIN order |-> Item(Fixture[order[i]][month], order[i], month)])

\* The rest of the caller's list, after a commit.
EndItem(w) ==
    LET rest == Tail(work[w].todo)
    IN  /\ work' = [work EXCEPT ![w] = IF rest = <<>> THEN Idle
                                       ELSE [Idle EXCEPT !.pc = "select", !.todo = rest]]
        /\ held' = [held EXCEPT ![w] = {}]

\* The first next_due_at may be the current minute.
CreateConnector(c) ==
    /\ conn[c].state = "absent"
    /\ \E due \in BOOLEAN : conn' = [conn EXCEPT ![c].state = "on", ![c].due = due]
    /\ UNCHANGED <<committed, broken, month, work, held, losses>>

ToggleConnector(c) ==
    /\ conn[c].state # "absent"
    /\ conn' = [conn EXCEPT ![c].state = IF @ = "on" THEN "off" ELSE "on"]
    /\ UNCHANGED <<committed, broken, month, work, held, losses>>

\* next_due_at of every connector passes in the course of a month.
NextMonth ==
    /\ month + 1 \in Months
    /\ month' = month + 1
    /\ conn' = [c \in Connectors |-> [conn[c] EXCEPT !.due = conn[c].state # "absent"]]
    /\ UNCHANGED <<committed, broken, work, held, losses>>

-----------------------------------------------------------------------------
(* ingest_csv, statement by statement.                                      *)

\* Bytes that are parsed already are skipped: a connector still records them.
Select(w) ==
    /\ work[w].pc = "select"
    /\ Current(w) # None
    /\ UNCHANGED <<committed, broken, conn, month, losses>>
    /\ \/ /\ file[Current(w)] = "parsed"
          /\ \/ /\ Head(work[w].todo).conn # None
                /\ work' = [work EXCEPT ![w].pc = "evidence"]
                /\ UNCHANGED held
             \/ /\ Head(work[w].todo).conn = None
                /\ EndItem(w)
       \/ /\ file[Current(w)] # "parsed" /\ Current(w) \in Unreadable
          /\ Abort(w)
       \/ /\ file[Current(w)] # "parsed" /\ Current(w) \notin Unreadable
          /\ work' = [work EXCEPT ![w].pc = "claim", ![w].known = file[Current(w)]]
          /\ UNCHANGED held

\* Fault: the unique constraints on the file row and its records are missing.
ClaimUnchecked(w) ==
    /\ work[w].pc = "claim" /\ Free(w)
    /\ work' = [work EXCEPT ![w].pc = "parse"]
    /\ Hold(w)
    /\ UNCHANGED <<committed, broken, conn, month, losses>>

\* The INSERT of the file row, or the UPDATE of a failed one, waits for an
\* uncommitted writer.  It, or the INSERT of the first raw record, violates a
\* unique constraint when that writer committed the file.
Claim(w) ==
    /\ work[w].pc = "claim" /\ Free(w)
    /\ UNCHANGED <<committed, broken, conn, month, losses>>
    /\ \/ /\ file[Current(w)] = work[w].known
          /\ work' = [work EXCEPT ![w].pc = "parse"]
          /\ Hold(w)
       \/ /\ file[Current(w)] # work[w].known
          /\ Abort(w)

\* Fault: the adapter's exception is recorded but not raised.
ParseSwallows(w) ==
    /\ work[w].pc = "parse" /\ Current(w) \in broken
    /\ file' = [file EXCEPT ![Current(w)] = "failed"]
    /\ work' = [work EXCEPT ![w] = IF Head(@.todo).conn = None THEN Idle
                                   ELSE [@ EXCEPT !.pc = "evidence"]]
    /\ held' = [held EXCEPT ![w] = {}]
    /\ UNCHANGED <<charged, aside, accounts, bill, broken, conn, month, losses>>

\* The adapter raised: the file row alone is committed, as failed.
ParseFails(w) ==
    /\ work[w].pc = "parse" /\ Current(w) \in broken
    /\ file' = [file EXCEPT ![Current(w)] = "failed"]
    /\ work' = [work EXCEPT ![w] = Idle]
    /\ held' = [held EXCEPT ![w] = {}]
    /\ UNCHANGED <<charged, aside, accounts, bill, broken, conn, month, losses>>

\* Fault: at most one new account of a file is discovered.
IndexedOnce(w, idx) ==
    work' = [work EXCEPT ![w].pc = IF idx # accounts \/ Undiscovered(Current(w), idx) = {}
                                   THEN "read" ELSE "discover",
                         ![w].idx = idx,
                         ![w].left = Refs(Current(w))]

\* Discovery goes on while a charge names an account outside idx.
Indexed(w, idx) ==
    work' = [work EXCEPT ![w].pc = IF Undiscovered(Current(w), idx) = {} THEN "read" ELSE "discover",
                         ![w].idx = idx,
                         ![w].left = Refs(Current(w))]

\* The account index is read after the parse.
Parse(w) ==
    /\ work[w].pc = "parse" /\ Current(w) \notin broken
    /\ Indexed(w, accounts)
    /\ UNCHANGED <<committed, broken, conn, month, held, losses>>

\* An unknown account is inserted at once; another transaction that inserted
\* it is waited for, and makes this one fail if it commits.
Discover(w) ==
    /\ work[w].pc = "discover" /\ Free(w)
    /\ UNCHANGED <<committed, broken, conn, month, losses>>
    /\ LET a == FirstAccount(Current(w), work[w].idx)
       IN  IF a \in accounts
           THEN Abort(w)
           ELSE Indexed(w, work[w].idx \cup {a}) /\ Hold(w)

ReadTotal(w) ==
    /\ work[w].pc = "read" /\ work[w].left # {}
    /\ work' = [work EXCEPT ![w].pc = "write",
                           ![w].seen = bill[NextRef(Current(w), work[w].left)]]
    /\ UNCHANGED <<committed, broken, conn, month, held, losses>>

\* The UPDATE names the columns that differ from what was read; the evidence
\* always does.
WriteTotal(w) ==
    LET r == NextRef(Current(w), work[w].left)
        amount == Total(Current(w), r)
        seen == work[w].seen
    IN  /\ work[w].pc = "write" /\ Free(w)
        /\ UNCHANGED <<committed, broken, conn, month, losses>>
        /\ IF seen = None /\ bill[r] # None
           THEN Abort(w)
           ELSE /\ Hold(w)
                /\ work' = [work EXCEPT
                     ![w].pc = IF work[w].left = {r} THEN "commit" ELSE "read",
                     ![w].left = @ \ {r},
                     ![w].changed = IF seen = None THEN @ \cup {r}
                                    ELSE IF seen.amount # amount THEN @ \cup {r} ELSE @]

\* Everything becomes visible: charges, rows put aside, accounts and totals.
CommitIngest(w) ==
    LET f == Current(w)
    IN  /\ work[w].pc = "commit"
        /\ file' = [file EXCEPT ![f] = "parsed"]
        /\ charged' = Ledger!WithCharges(f, charged)
        /\ aside' = aside \cup ({f} \X Ledger!Quarantined(f))
        /\ accounts' = accounts \cup work[w].idx
        /\ bill' = [r \in AllRefs |->
                      CASE r \in work[w].changed -> [amount |-> Total(f, r), file |-> f]
                        [] r \in Refs(f) \ work[w].changed -> [bill[r] EXCEPT !.file = f]
                        [] OTHER -> bill[r]]
        /\ UNCHANGED <<broken, conn, month, losses>>
        /\ \/ /\ Head(work[w].todo).conn # None
              /\ work' = [work EXCEPT ![w].pc = "evidence"]
              /\ held' = [held EXCEPT ![w] = {}]
           \/ /\ Head(work[w].todo).conn = None
              /\ EndItem(w)

-----------------------------------------------------------------------------
(* A connector records what it ingested in a second transaction.            *)

\* next_due_at is the first one after the sweep began, or after now.
StillDue(item) == item.listed \notin {None, month}

RecordEvidence(w) ==
    LET item == Head(work[w].todo)
    IN
    /\ work[w].pc = "evidence"
    /\ conn' = [conn EXCEPT ![item.conn].last = item.file,
                            ![item.conn].due = StillDue(item)]
    /\ EndItem(w)
    /\ UNCHANGED <<committed, broken, month, losses>>

\* The sweep advances a connector that has no file for the month.
NoFixture(w) ==
    /\ work[w].pc = "select" /\ Current(w) = None
    /\ conn' = [conn EXCEPT ![Head(work[w].todo).conn].due = StillDue(Head(work[w].todo))]
    /\ EndItem(w)
    /\ UNCHANGED <<committed, broken, month, losses>>

-----------------------------------------------------------------------------
(* Failures.                                                                *)

\* PostgreSQL ends a cycle of waiting transactions by failing one of them.
Deadlocked(w) ==
    \E S \in SUBSET Workers :
        /\ w \in S
        /\ \A v \in S : (\E u \in S : Blocks(u, v)) /\ (\E u \in S : Blocks(v, u))

Victim(w) ==
    /\ Deadlocked(w)
    /\ Abort(w)
    /\ UNCHANGED <<broken, conn, month, losses>>

Lose(w) ==
    /\ work[w].pc # "idle"
    /\ losses < MaxLosses
    /\ losses' = losses + 1
    /\ Abort(w)
    /\ UNCHANGED <<broken, conn, month>>

\* A release that can parse what the last one could not; it ends what ran.
Deploy ==
    /\ broken # {}
    /\ broken' = {}
    /\ work' = [w \in Workers |-> Idle]
    /\ held' = [w \in Workers |-> {}]
    /\ UNCHANGED <<committed, conn, month, losses>>

IngestStep(w) ==
    \/ Select(w) \/ Claim(w) \/ ParseFails(w) \/ Parse(w) \/ Discover(w)
    \/ ReadTotal(w) \/ WriteTotal(w) \/ CommitIngest(w)
    \/ RecordEvidence(w) \/ NoFixture(w)

Next ==
    \/ \E w \in Requests : Upload(w) \/ LoadSynthetic(w) \/ RunConnectorNow(w)
    \/ \E w \in Sweepers : RunDueConnectors(w)
    \/ \E c \in Connectors : CreateConnector(c) \/ ToggleConnector(c)
    \/ NextMonth
    \/ \E w \in Workers : IngestStep(w) \/ Victim(w) \/ Lose(w)
    \/ Deploy

Spec == Init /\ [][Next]_vars

-----------------------------------------------------------------------------
(* Properties.                                                              *)

TypeOK ==
    /\ file \in [Files -> {"absent", "failed", "parsed"}]
    /\ broken \subseteq Files
    /\ charged \in [Keys -> Nat]
    /\ aside \subseteq Files \X Nat
    /\ bill \in [AllRefs -> [amount : Amounts, file : Files] \cup {None}]
    /\ conn \in [Connectors -> [state : {"absent", "on", "off"}, due : BOOLEAN,
                                last : Files \cup {None}]]
    /\ month \in Months
    /\ held \in [Workers -> SUBSET ({"file", "account", "bill"} \X (Files \cup accounts
                                   \cup AllRefs \cup UNION {work[w].idx : w \in Workers}))]
    /\ losses \in 0..MaxLosses

\* Whatever the interleaving, the losses and the retries, a file is posted in
\* one step with all its charges, and once (ADR 0008, ingest_service.py).
PostedAtOnceAndOnce == Ledger!Spec

\* Invoicing must never double-charge (ADR 0008): whatever files arrive, a
\* semantic identity is charged once.
NeverDoubleCharged == \A k \in Keys : charged[k] <= 1

\* A bill total names a parsed file that states a total for it, its amount is
\* what some parsed file states, and a connector's evidence is a parsed file:
\* nothing a failed, lost or refused ingest wrote is left behind.
EvidenceIsParsed ==
    /\ TypeOK
    /\ \A r \in AllRefs : bill[r] # None =>
          /\ file[bill[r].file] = "parsed" /\ r \in Refs(bill[r].file)
          /\ \E f \in Files : /\ file[f] = "parsed" /\ r \in Refs(f)
                              /\ bill[r].amount = Total(f, r)
    /\ \A c \in Connectors : conn[c].last # None => file[conn[c].last] = "parsed"

\* Every account a posted charge names is on the allocation worklist, and every
\* total the file states has a row.
NothingVanishes ==
    \A f \in Files : file[f] = "parsed" =>
        /\ \A i \in Ledger!Canonical(f) : Lines[f][i].acct \in accounts \cup {None}
        /\ \A r \in Refs(f) : bill[r] # None
=============================================================================
