# Cloud PartnerOps: TLA+ models of the billing core

Cloud PartnerOps (`src/apps/api`, FastAPI + SQLAlchemy + PostgreSQL + Celery) turns
provider billing data into priced runs, invoices, reconciliations and period closes.
Every HTTP request and every Celery task works in READ COMMITTED transactions of its own.
Almost no row is locked and no row carries a version: the code reads, decides, and writes
later. These modules model that: a request is several steps, each reading its own snapshot,
and the commit writes what was decided, usually the changed columns only, onto whatever the
rows have become.

## 1. Inventory

| Component | Code (`src/apps/api/app`) | State it keeps | Operations | Hard behaviour | Status |
|---|---|---|---|---|---|
| Ingestion | `services/ingest_service.py`, `ingestion/*`, `api/v1/billing.py` | files, cost records, quarantine, accounts, bill totals | `ingest_csv` and its callers | overlapping files, a failed parse, deadlock, retry | partly, proved |
| Connectors | `services/connectors.py`, `api/v1/integrations.py` | connectors, evidence | create, toggle, run now, due sweep | two transactions per run | modelled, proved |
| Pricing engine | `engine/rules.py`, `engine/money.py`, `services/pricing_service.py` | none (pure) | aggregation, rules, minimum and cap, rounding | order of rules, signs, rounding | partly, proved |
| Contracts, rules | `api/v1/contracts.py` | contract and rule versions, bindings | draft, bind, publish, activate | two publishes, stale approval | partly, proved |
| Pricing runs | `services/pricing_service.py` | `pricing_runs` | `run_pricing` | run number = max + 1 without a lock; supersession | modelled, proved |
| Invoice build | `services/invoice_service.py` | `invoices`, `invoice_sequences` | `build_invoice_from_run` | first sequence row; stale run; failed build | modelled, proved |
| Invoice lifecycle | `services/invoice_lifecycle.py`, `api/v1/extras.py`, `api/v1/ops.py`, DB trigger | status of `invoices`, `billing_notes`, `disputes` | transition, dispute, resolve, draft and issue note | stale status writes | partly, proved |
| Webhook outbox | `services/webhooks.py`, `api/v1/integrations.py` | endpoints, `webhook_deliveries` | create, `queue_event`, `deliver_due`, test send | overlapping sweeps, one commit per batch, retries | partly, proved |
| Task dispatch | `tasks/*` | broker queues | beat, routes, late ack | lost workers, unserved queues, wrong names | modelled, proved |
| Approvals | `api/v1/approvals.py`, `services/approvals_service.py` | `approvals` | request, decide | two decisions at once | partly, in PeriodClosing and ContractRules |
| Reconciliation | `services/reconciliation_service.py` | runs, exceptions | run, resolve, waive | column-wise writes | partly, in PeriodClosing |
| Period closing | `api/v1/ops.py` | `period_closes` | `close_period` | gate read in several snapshots | modelled, proved |
| Scheduled reports | `services/schedules.py`, `api/v1/reports.py`, mail transport | schedules, report jobs, objects, mails | create, toggle, due sweep, flush | overlapping sweeps, a store outside the transaction | partly, proved |
| Budgets, anomalies, recommendations, governance | `services/alerts.py`, `anomaly.py`, `recommendations.py`, `governance.py`, `api/v1/finops.py` | findings, exceptions, alert episodes | nightly and manual passes, decisions | a pass writes over decisions made since it read | partly, proved |
| Accounts, sessions | `services/auth_service.py`, `api/v1/auth.py`, `users.py`, `admin.py`, `api/deps.py` | users, sessions, API tokens | login, lockout, disable, prune | a slow login overtaken by a lock or a disable | partly, proved |
| Authorisation | `services/authz.py`, RLS | role tables | `can` | | roles of two modules only |
| Synthetic data, assistant, documents, storage, portal, customers, benefits, branding, administration, web console | `services/*`, `api/v1/*`, `apps/web` | rows | create, read, update | section 6 | not modelled |

How they interact: connectors and uploads call `ingest_csv`, which leaves cost records and bill
totals; `POST /pricing/runs` prices the records of a period with the rule versions the contract
pins and leaves a completed run; `POST /invoices` reads that run and leaves a `calculated`
invoice; transitions issue it and queue an `invoice.issued` event in the webhook outbox in the
same commit; disputes and notes move its status; reconciliation compares invoices with bill
totals and leaves exceptions; an approval lets a second user waive one, or a rule version be
published; the close reads reconciliation and waivers. Nightly passes turn cost records into
findings and alerts. Celery beat starts the sweeps over schedules, connectors and the outbox.

The properties that make each part correct, and the line where each can go wrong, are the
`hazards` of `PROJECT.json`.

## 2. Modules

    ChargeLedger <--- implemented by --- CostIngestion
    RuleEngine <--- EXTENDS --- ContractRules
    RunHistory <--- implemented by --- PricingRuns <--- EXTENDS --- InvoiceBuild
    InvoiceLifecycle (tables) <--- EXTENDS --- InvoiceBook
    WebhookDelivery   TaskDispatch   PeriodClosing
    ReportSchedules   FinopsPasses   AccountAccess
    Permissions (used by MCInvoiceBook and MCPeriodClosing)

`MC*` modules define the values of operator constants for TLC, the other runs take the module
itself; `*Proofs` hold theorems. Definitions whose comment starts with *Fault* are plausible bugs
of the definition that follows; put in its place, each makes TLC refute a property, which shows
that the property depends on the code and not on the shape of the model.

**ChargeLedger** is what ADR 0008 promises: all the charges of a file are posted together, once,
and a rejected row is put aside.

**CostIngestion** is `ingest_csv` statement by statement, called by uploads, synthetic loads,
"run now" and the connector sweep. `work[w]` is the transaction of worker `w`, `held[w]` the rows
it has written and therefore locked; a statement that needs a row of another transaction waits,
an insert that finds the row committed is refused (`Claim`, `Discover`), and `Victim` is what
PostgreSQL's deadlock detection ends; each is an `Abort`, a rollback. `broken` are files the
deployed adapter raises on; `Deploy` is the release that parses them. The connector writes what
it ingested (`RecordEvidence`) in a second transaction.

**RuleEngine** is `_aggregate`, `sort_rules`, `apply_rules` and `invoice_level_adjustments` as
functions of integer amounts; `Cent` is the number of engine units in a cent, so rounding to an
invoice line loses something. Every dimension of a filter must match (`Matches`), the pricing
basis is one of the code's four, and support and tax become items at cost beside the
subtotal (`AtCost`). The loops of the code are recursive functions of how many members of
the list they have taken, and a sorted list is the one whose n-th member has n - 1 before it; both
can be proved about. **ContractRules** puts it under versions of contracts and rules
that requests bind, approve, publish and activate concurrently. A contract version may be created
with any status and any bindings, ids of no version included (`AddVersion`); a run takes the pins
that name a version, whatever its status, and without any all published rules (`Pinned`,
`Collected`). `run` is the snapshot and result
of a run (the rule list, the records, the slices and what they come to), which reads committed rows only and is therefore taken between two requests.

**RunHistory** is what a reader of a customer's pricing history is promised: runs recorded
one at a time, each with the next number, a completed one superseding the current one.

**PricingRuns** is `run_pricing` in steps. `pc[q]` is the position of request `q`;
`ReadTop` and `ReadPrevious` are its two SELECTs; `Insert`/`InsertConflict` the flush
against the unique index, which waits while another session holds the number uncommitted;
`Complete` and `Fail` the two commits; `Lose` a rollback. `run` holds committed rows only.

**InvoiceBuild** adds `build_invoice_from_run`. `holder` is the session with the sequence
row locked (or inserted, uncommitted); `nextValue = 0` says that there is no row yet.
`InvoiceNext` interleaves builds with the pricing requests, so a run may be superseded
while it is being invoiced.

**InvoiceBook** gives every route a `Begin` (reads, whitelist, permission) and a `Commit`
(trigger, write). `txn[s]` is what the request in slot `s` read and will write. Who
triggered the pricing run is left out: no route looks at it.
`Can(u, p)` stands for `principal.can`; the run gives it the tables of `authz.py`
(**Permissions**) for two roles. `InvoiceLifecycle` holds the transition table and the trigger.

**WebhookDelivery**: `copy[w]` is the ORM session of sweep `w`; `Written` is what its commit
makes of a row, column by column; `LoseSweep` loses the POSTs' outcomes. `BeginTest` queues
a row and sweeps it in one transaction. An endpoint is created if its host resolves to public
addresses at that moment (`MayPass`, `MayBeRefused`), and the name may resolve otherwise
when a delivery is sent.

**TaskDispatch**: the tables of `tasks/__init__.py` (`SentName`, `QueueOf`, `Registered`) on
Celery's delivery with late acknowledgement. Beat, broker and worker loop are Celery's,
modelled as the application configures them.

**PeriodClosing**: reconciliation, approvals, waivers and the close. `Flushed` writes the
changed columns of an exception onto its current row. `granted` and `cleared` are history
variables: what was once committed as approved, resolved or waived. A close is three
reads (`BeginClose`, `ReadOpen`, `ReadWaivers`) and a commit.

**ReportSchedules**: a sweep takes the time and the due rows once (`BeginSweep`), then serves
them in the order of their `next_run_at` from these copies (`First`, `Rest`): `RowsFail`, or `PutObject` into the store, then the commit of
job, mail and `next_run_at`; `StorageFails` records a failed job instead. A flusher writes the
queued mails to the file (`WriteMails`) and then commits them as sent (`CommitMails`).

**FinopsPasses** follows one row of one of four kinds. A pass opens (its reads), evaluates (what
`Evaluations` gives for the kind) and commits the columns that differ from what it read; a user's
decision does the same. `fact` is what the data shows, changed by ingestion at any time.
`accepted` is a history variable: the months in which a recommendation was accepted.

**AccountAccess**: a login reads the account, verifies the password, then writes counters and
session in one commit; disable, prune, logout and token rotation overlap with it. `req[r]` is
the request, and an admitted request is one past `load_principal`. `misses` is a history
variable: the failed logins committed so far.

## 3. Runs

| Run | Question | Bounds |
|---|---|---|
| `invoice_build` | run numbers and supersession under overlap, refinement of RunHistory; gapless invoice numbers from the first sequence row on, only completed runs invoiced, nobody waits for ever | 3 pricing requests, 2 build sessions (reused), 3 invoices; 119 803 states |
| `invoice_book` | stale status writes against approval, announcement, trigger | 1 invoice, 2 request slots, 2 roles, 1 note, 1 dispute; 74 375 states |
| `webhook_delivery` | truth and finality of outcomes; settling while sweeps are started | 2 deliveries to 2 endpoints, one with a changing name, 2 sweeps, batch 1, MAX_ATTEMPTS 3 as in the code, 1 lost sweep; 229 502 states |
| `task_dispatch` | loss and acknowledgement, served jobs run | 4 entries, 2 workers, 2 ticks each, 1 lost worker; 20 790 states |
| `period_closing` | separation of duties, waivers, gate | 2 users, 2 slots, 2 runs with 1 issue each, 1 approval; 221 175 states up to symmetry |
| `cost_ingestion` | posting all of a file once (refinement of ChargeLedger), totals and evidence of parsed files only, no account lost | 2 overlapping exports of a month, one of them unparseable at first, 1 file without a period, 2 connectors, 1 request, 1 sweeper, 1 lost process; 327 744 states |
| `contract_rules` | publish gate and rules in force under overlap; replay, composition and sums of the engine | 2 contract versions, 6 rule versions of 5 rules, 1 approval, 2 requests, `FewVersions`; 130 528 states up to symmetry |
| `finops_passes` | claims rest on decisions; data reaches the row while passes are started | each of 4 kinds, 2 passes, 1 user, 2 months, 2 alerts, 1 lost pass; 65 764 states |
| `report_schedules` | jobs name stored objects, next runs follow jobs, mails and due schedules are served | 2 schedules of one report, 2 sweeps, 1 flusher, 3 ticks, 1 lost process; 329 393 states |
| `account_access` | locks are earned, disabled stays disabled and out, sessions end | 2 requests, 2 sessions, 2 tokens, threshold 2; 140 410 states |
| `scheduled_jobs`, `double_charge` | statements of the repository's docs the code does not keep (section 5) | as above, smaller where one actor is enough |

Why the bounds are enough: each hazard is a race of two transactions, with more only where
a row is replaced twice (three pricing requests: failed, superseded and current runs) or the
hazard needs a prepared state (a third invoice: the first creates the sequence row, the other two
race for its lock). In `cost_ingestion` the sweeper works through a list of two connectors while
the request uploads either file or loads both, in either order, which is what two transactions
need to deadlock; that a file fails, is lost and is sent again takes one loss and one `Deploy`.
In `contract_rules` one fee has two versions (retired and published); a discount filters by
service, region and tag, and fee and discount, both on the original input, meet on one slice. A
cap, a minimum and a tiered price complete the kinds of rules. The month's records
contain usage, a credit and an account nobody mapped; the amounts do not divide evenly by the
cent. Bindings are three lists: one unsorted, one with an id that names no version, one that pins
a version twice. `FewVersions` has two cases: one version of the contract with two or three of
rules, where bindings, gate and engine are at work, or two of the contract without rules, where
activations overlap. In `report_schedules` both schedules write the
same object in a billing period of two ticks, and the clock may overtake a sweep. In
`account_access` a threshold of 2 is the smallest at which a failure may be lost.
Slots, sessions and sweeps are reused, so the sequences of calls are not bounded by their
number. A batch of one row with two pending deliveries is the full batch that holds a younger
row back. `MaxLosses`, `MaxLostPasses`, `MaxTicks`, `MaxTime`, `MaxMonth` and `MaxAlerts` bound
counters that would grow for ever; they appear in the guards. `posts` is counted up to `MaxAttempts`.
`CHECK_DEADLOCK FALSE`: ids, runs, months and ticks run out, and then the system rests; it is
checked in the two runs whose system never rests.

Fairness. A request that has started goes on (the server schedules it); it is never assumed to
be lost or rolled back, so no liveness property rests on a crash.

* `InvoiceBuild`: a session that waits for a row or index lock gets it in turn, as Postgres
  queues waiters: strong fairness of the lock steps, weak of the others. Pricing has none.
* `WebhookDelivery`: a sweep under way goes on (httpx times out after 8 s). Nothing obliges anyone
  to start one: beat's entry reaches no worker (section 5), which leaves `POST /webhooks/deliver`.
  `EveryDeliverySettles` therefore supposes that somebody keeps sweeping (`SweepsGoOn`).
* `TaskDispatch`: a queue is FIFO, hence strong fairness of taking a message from a consumed
  queue; beat publishes, a worker finishes and acknowledges.
* `ReportSchedules`: beat starts some sweep, and each sweep serves on. The outbox has none: no
  beat entry that is delivered reaches `flush_notifications`.
* `FinopsPasses`: a pass under way evaluates and ends, by its commit or by a conflict. The nightly
  entry of beat waits in a queue nobody consumes, which leaves the manual routes, so
  `FactsAreShown` supposes that passes are started again and again (`PassesGoOn`). Users and data
  are free.
* `AccountAccess`: time passes, the prune runs, an admitted request ends.
* `CostIngestion`, `ContractRules`, `InvoiceBook`, `PeriodClosing` have safety properties only.

## 4. Proofs

All are invariants of the specification for any constants that meet the stated assumptions
(`NoRunAssumption` and the like: NULL is not an id; ids of reconciliation runs are ordered).

* `InvoiceBuildProofs`, of `PricingRuns` and `InvoiceBuild`. The properties of the runs are not
  inductive: why may `Complete` write `top + 1` and supersede `prev`, both read long ago?
  `IInv` adds what a request *knows*: `PricingExtends` (while it prices, its number is the next one
  and its predecessor current) and `PrevIsFresh` (if the number it read is still the highest, so
  is the run it read). `OneAtATime` is what the unique index buys. From these follow
  `NumbersLinear`, `OneCurrentRun`, `ChainUnforked`, and `StepRefines`, one step per action, which
  gives `RunsSpec => ImplementsHistory`. For the builds, `BInv` says that a session has a number
  exactly while it holds the sequence row (`HolderIsNumbered`), and that this number is
  `nextValue`, or 1 when there is no row yet (`NumberIsNext`); the run it read never leaves
  completed or superseded. `BuildsRunPricing` carries what is proved of the runs over to the composition.
* `InvoiceBookProofs`. `IInv` says of every pending request what its read implies now (an
  invoice that was delivered when read is announced and approved for good), so a stale write
  cannot break approval or announcement.
* `PeriodClosingProofs`. `IInv` relates every decision and waiver under way to `granted` and
  `cleared`, and a close under way to the exceptions it has found clear.
* `WebhookDeliveryProofs`. A commit writes statuses and counters computed from rows read before
  other sweeps committed. `RowTrue` holds of any row, committed or in a sweep's hands: it
  counts no attempt that was not made, and a status "sent" or "failed" has its reason.
  POSTs and refusals are never undone, so a row that was true stays true (`RowStaysTrue`) and may be
  written at any later time. `SettledStaysSettled` follows because a commit writes the status
  column of a row only if its sweep has settled it, or queued it itself.
* `CostIngestionProofs`. `WorkerSound` is what `ingest_csv` has done before each statement: from
  its claim on it holds the row of a file that is not parsed (`ClaimSound`, so `LocksApart` makes
  it the only one to post it), every account is discovered, and every total is its own or was there
  already (`TotalsSound`). `PostingStep` maps a commit to the ledger's `Post` and any other
  step, rollbacks included, to a stutter, which gives `Spec => PostedAtOnceAndOnce`.
* `ContractRulesProofs`. `TxSound` says what survives between the reads of a request and its
  commit: a version that was in force when read is published or retired for good, what was
  granted stays granted. The version a publish brings into force is of the rule whose versions it
  retires, so a rule once in force keeps a published version. `GateSound` says that a run without
  pins takes published versions, which gives `HighImpactWasApproved`; nothing is claimed of what a
  version pins, which may be drafts or ids of nothing.
  The second half is about the engine, for every list of rules and records. `RunSound` says that a
  run is what its records, its rules and its policy come to, and that any other step leaves none;
  the properties of a run are then facts about `Aggregated` and `Priced`:
  * `RunsReplay`. `SortedOnce`: when no two different versions tie, two listings of the same versions
    sort to the same list. `InOrderPlaces` shows that a strict order numbers its members,
    `PlacesAre` that the stable order of the code is one, duplicates in a binding included.
  * `OriginalInputComposes`. `OriginalComposes` follows a slice through the rules in their order;
    `SumPermuted` says that a sum does not depend on it.
  * `RunsAddUp`. Every record is in the slice of one key (`SlicesCount`, from `SumByParts`).
    `QuantizedNear` bounds what each mode of rounding can lose, `SumsNear` what a list of rounded
    items can lose, and `LimitedAdjusts` shows that the deltas of minimum and cap lead from the
    subtotal to the total. `LastLimit` says that no rule behind the last limit moves the total.

  The induction theorems of the library cannot be instantiated here. `Prefixes` takes their place:
  the set of the numbers of members taken at which a loop's fact holds has 0 in it and the successor
  of each of its members, hence every number, as there is no smallest one outside.
* `ReportSchedulesProofs`. `SweepsSound` says that a sweep holds an object's key only once the
  object is in the store; `NextRunIsLater` is the arithmetic of `compute_next_run`. Only a
  commit or `RowsFail` moves `next_run_at`, each with the job it counts from, which keeps
  `NextFollowsJob` whatever the order in which overlapping sweeps commit.
* `ScheduledJobsProofs`, of `TaskDispatch`, `AccountAccess` and `FinopsPasses`, which share no
  state. Messages: `RunsCounted` bounds the executions of an entry by its acknowledged and
  finished messages and the lost workers. Accounts: `LockInv` keeps the counter a login has read
  below the failures that were committed; only a login in flight could write a higher one.
  Passes: `WriteBacked` is about the columns a transaction is going to write: an accepted status
  comes with its month, a realised saving with an earlier acceptance, an alert count with an
  alert. Acceptances, expiries and alerts never go away, so the columns may land on whatever the
  row has become.

The assumptions on constants are named in the modules and evaluated by every run. They say what the
program has by construction: NULL is not an id (`NoRunAssumption`, `None \notin ...`), ids of
reconciliation runs are ordered, limits are natural numbers and the lockout threshold, as a billing
period, is not zero (`LimitsAssumption`, `ObjectAssumption`); a file is a finite list of
lines, a load a non-empty one of files, and a connector's fixture is chosen by the month
(`IngestAssumption`); a member of a binding list is a rule version or `None`, and rule versions are
finitely many (`RulesAssumption`); the amounts of rules and records are whole numbers of engine
units, to which `engine()` rounds (`TermsAssumption`, `BillsAssumption`), and a cent is a positive
number of them (`EngineAssumption`); only a schedule has recipients (`MailedAssumption`); a tracked row is of one of the four kinds (`PassAssumption`);
there are finitely many workers (`DispatchAssumption`).

Only model-checked is liveness (`BuildsEnd`, `EveryDeliverySettles`, `ServedJobsRun`, `DueIsServed`,
`FactsAreShown`, `DisabledIsOut`, `SessionsEnd`): fairness and `ENABLED` are beyond the prover. Every
other property of a passing run is proved.

## 5. What the code does not keep

Two statements of the docs are refuted by a run; the others were met while modelling and are
allowed by the models.

* `docs/runbooks/deploy.md:44` lists connectors and FinOps passes among the scheduled jobs; no
  route names a queue for them and the documented worker does not consume Celery's default
  queue. Beat also sends `sweep_integrations`, which is registered as `sweep`, so the sweep of
  `tasks/integrations.py:3` ("Every 5 minutes") never runs (run `scheduled_jobs`).
* `docs/decisions/0008-ingestion-idempotency.md:7` "Invoicing must never double-charge": rows are
  collapsed within a file only, so a corrected export charges its unchanged rows again (run
  `double_charge`). Nor does anything keep a run from being invoiced twice.
* `services/invoice_lifecycle.py:6-7` "maker-checker enforced in the route: approver ≠ last editor
  of the run", and its line 78: the route checks nothing and the branch at lines 79-81 is a `pass`,
  so who priced the run may approve the invoice. `ApprovedBeforeDelivery` says what is left: a holder
  of `invoice.approve` did.
* `services/invoice_lifecycle.py:8-9` "void after issue requires invoice.correct": no voiding is in
  `TRANSITION_PERMISSION`, so it needs none. `docs/invoice-lifecycle.md:15` and `:28` allow
  voiding only before issue; `ALLOWED` and the trigger let an issued invoice be voided, and a
  void decided before the issue may commit after it.
* `docs/billing-engine.md:56` "maker-checker enforced at rule-publish/activation",
  `docs/IMPLEMENTATION_STATUS.md:42` "binding pins published rule versions": drafts may be pinned, an
  activation looks at no rule, and a run of an active version bills with a high-impact draft that
  nobody approved. `HighImpactWasApproved` is about what is published, and runs without pins.
* `docs/rule-precedence.md:57` "Publishing v3 of a rule changes nothing until a new contract version
  binds it": a version whose bindings name nothing takes every published rule of the
  organisation, of other contracts too, against its lines 55-56.
* Invoices. `docs/invoice-lifecycle.md:32` "Transition legality is a whitelist": a dispute on a
  paid invoice and the denial of any dispute move an invoice outside it. A stale
  return to review, approval or voiding writes over what was committed since, the terminal
  `corrected` and `voided` included: the trigger only guards changes away from `issued`, and a stale
  approval replaces the approver of an invoice exported meanwhile. Two overlapping issues announce the
  invoice twice and the second names itself as issuer. A note drafted on a delivered invoice may be
  issued although the invoice was voided meanwhile.
* Approvals and closing. `api/v1/approvals.py:6` "Decisions are immutable once made": not between
  two that overlap; separation of duties still holds, and is proved. `api/v1/ops.py:221` "Blocked
  while ... open/unwaived": not if a reconciliation commits between gate and commit. What does
  hold is `ClosedRunWasClear`.
* Contracts and rules. Two concurrent publishes may leave two published versions of a rule;
  concurrent activations may overlap, and bindings may change on a version activated meanwhile.
  `changes` sets any column of a new contract version unchecked: status, bindings and
  `overlap_approved_by`, which nothing else sets. `run_pricing` does not ask for an active version.
  The estimated impact is never set, so only `high_impact` makes a version need approval.
* Matching. The five dimensions share one set of targets, so a value of one may satisfy another. No
  slice knows its account: an account filter matches nothing. The other dimensions of
  `docs/rule-precedence.md:11-16` are ignored, which widens such a rule to every slice.
* Engine. `docs/billing-engine.md:31` "ordering is total": two versions of one rule that are pinned
  together may tie on all three keys and then keep the order of the list, which is why `RunsReplay`
  supposes `Ranked`. `docs/rule-precedence.md:48` "always sums exactly": items are rounded one by
  one, so they add up to the total only within the bound of `ItemsAddUp`. `up_to` of a tier is the
  width of a band, not its end; the modes `half_even` and `down` fall to half up; the `order` of a
  binding does not enter the sort; a snapshot lacks the applied basis; a `currency_conversion` rule
  fails the run.
* Passes. A nightly pass may write over a decision made since it read, and two passes may send
  the mails of one alert twice.
* Reports. Overlapping sweeps make two jobs and two mails per window (`services/schedules.py:122`
  "idempotent per run window"). A database error in the rows ends the sweep, and a head that fails
  so every time starves those behind it. A sweep with an older `now` may set `next_run_at` back, and
  a schedule re-enabled with a past `next_run_at` runs at once. Mails and audit rows carry no job id
  (it is read before the flush), and a later run of the month overwrites the object whose digest
  an earlier job recorded.
* Connectors. An ingest that raises ends the loop, against the comment at
  `services/connectors.py:265`; a manual run of any period clears the connector's due date.
* Accounts. A login in flight may lift a newer lock and lose failures; one that races a disable
  leaves an open session, which no request is admitted with. Disabling does not revoke API
  tokens; `load_principal` refuses them.

## 6. Left out, and why

* Formats, audit rows, the amounts of invoices and the statistics of the passes: no property is
  about them; what a pass decides is a nondeterministic `fact`.
* The org scope of a caller: one organisation is modelled. Requests bind their subtree, sweeps
  bypass it, and the row level security behind it is the database's.
* The mapping of accounts to customers: `map_cloud_account` racing an ingest, or an exclusion,
  needs families beside accounts. Numbers from `COUNT(*) + 1`: a request that loses is rolled
  back, which the models allow at any time.
* Concurrent role changes, the rate limiter (per process), secret rotation, the credits of
  `allocate_credit` (a lost update), on-demand reports, trial runs of draft rules.
* Synthetic data, assistant, documents and storage, portal, customers, branding, administration:
  generators, reads and single-row routes. The web console is a client.
* `PeriodClosing` takes the statement per exception in `ReadWaivers` and the two reads of
  `mark_waived` as one step each. In `InvoiceBook` a repeated approval writes `approved_by` again,
  where the ORM would skip an unchanged column; no property tells the two apart.

## 7. Plan

1. `AccountMapping`: families of accounts under mapping, exclusion and ingestion, composed with
   `CostIngestion`.
2. `Numbering`: numbers from `COUNT(*) + 1` under overlap; role changes beside `AccountAccess`.
