# A TLA+ verification of tiger-tradehub

tiger-tradehub trades US equities on a Tiger Brokers PAPER account. It has two
planes that share no process and, by design, no credentials:

* the **execution plane** (`tradehub/`): a FastAPI service in front of the
  broker, an MCP server and a Telegram bot that call it, a deterministic
  autonomous runner, and a runtime for proposals a person approved;
* the **research plane** (`tradehub_research/`): point-in-time evidence,
  screening, a committee of language models behind a deterministic router, a
  portfolio engine that writes trade proposals, and the daily jobs that keep the
  data fresh and learn from outcomes.

This directory holds TLA+ models of the parts whose correctness depends on the
order in which things happen, the TLC configurations that check them on small
instances, and proofs, checked by TLAPS, of the properties that matter most.

## 1. Inventory

State, operations and interactions of each component; in parentheses the modules
that model it.

### Execution plane

| component | state | operations | what makes it hard |
|---|---|---|---|
| confirmation lifecycle, `app.py`, `audit.py` (`Confirmation`, `OrderAuthority`) | the SQLite table `confirmations`: state, claim time, two leases, reserved and recorded order | preview, submit, reconcile, operator resolution | handlers overlap and die; a stale claim is stolen from a handler that may be slow, not dead; the broker may accept an order whose request failed, or later |
| broker gateway, `tiger_gateway.py` (`Confirmation`) | none | create_order (reserves a number), place_order, get_order | an answer may be lost |
| autonomous runner, `autonomy/runner.py` (`PaperAutonomy`) | inbox and processed directories, append-only ledger | one run over the inbox | runs may overlap or die anywhere; the exporter refills the inbox |
| daily budget, `autonomy/budgets.py` (`PaperAutonomy`) | the table `budget_charge` | daily_usage, charge | two transactions |
| kill switch, `autonomy/kill_switch.py` (`PaperAutonomy`) | one file | set, clear, read | engaged at any moment |
| approved-proposal runtime, `phase4_runtime.py`, `phase4_execution.py` (`Phase4`) | the row of `phase4_execution_link` | preview, affirm, reconcile a proposal | every call is several transactions around HTTP requests; calls of several MCP processes overlap |
| reconciliation job, `ops/reconcile.py` (`Decisions`, its handoff only) | history.jsonl, latest.json, the PAPER handoff file | one run a day | files are written one after another |
| policy, models, config, clients | none | pure checks and forwarding | - |

### Research plane

| component | state | operations | what makes it hard |
|---|---|---|---|
| committee router and store, `committee/routing.py`, `store.py`, `api.py` (`CommitteeRun`) | eight append-only tables per run | create, status and work issuance, submit an attempt | requests of a thread pool overlap; reads happen before the transaction begins; recovery after a crash |
| committee scoring and comparison (`CommitteeRun`, effect only) | score snapshots, comparison reports | compare, score | decimal arithmetic (not modelled) |
| assessments, `committee/assessment.py`, `worker_contract.py` (`Assessment`) | none | assemble and validate a model's answer, read a rejection | the worker, the service and the model each answer for a part of one payload |
| committee worker, `ops/committee_worker.py` (`CommitteeWorker`) | a JSON state file, a lock file | one bounded invocation | state read before the lock; provider backoff; a newer cycle in the middle of a drive; attempts that cost and retries that must not |
| refresh runs, `ops/refresh_runs.py` (`RefreshRun`) | the session's row and one row per symbol outcome | open, finish, snapshot | a newer run takes the row over while the older one is still fetching |
| daily refresh, `ops/daily_refresh.py`, `ops/symbol_capacity.py` (`RefreshRun`) | attempt ledger, retired symbols, the month's symbol reservations | one invocation: active phase, plan, rotation, close | overlapping and dying invocations; a request budget under a symbol ceiling, shared by ready and cooling symbols |
| data freshness, `ops/data_freshness.py`, driven by `ops/health_watch.py` (`Freshness`) | the remediation checkpoint: run and symbol rows | audit, remediate | killed and resumed anywhere; retry limits over all passes; decisions of the refresh that may since have been withdrawn |
| downstream guard, `ops/downstream_guard.py` (`Freshness`) | quarantine records | sync after each audit | must release as surely as it holds |
| decision pipeline and finalizer, `ops/decision_pipeline.py` (`Decisions`; `PaperAutonomy` from the inbox on) | decision epochs, authority records, envelopes | build, finalize, export | three callers with moments of their own, repeated every five minutes; dies between commit and export |
| portfolio engine and budget, `portfolio/` (`PortfolioRules`, `PortfolioEngine`) | observations, transitions, proposals, activity days | one decision run | runs arrive out of the order of their moments; the first writer binds the day; a draft the budget refuses must leave no transition |
| evidence, `evidence.py` (`EvidenceLedger`) | append-only rows with corrections and withdrawals | ingest, read as of a moment | three readers resolve the same correction chains, each in its own way |
| market calendar, `ops/market_calendar.py`, `validation/horizons.py` (`MarketCalendar`) | none | sessions, the one expected, horizons | holidays observed on other days, or in another year |
| forward capture and outcomes, `ops/forward_capture.py`, `ops/outcome_maturation.py` (`ForwardLedger`) | predictions, outcomes | capture, mature | maturation runs overlap; prices come late or are corrected; an outcome is final |
| screening, `screening.py`, `screen_store.py` (`Screening`) | definitions, runs, populations, candidates | run, resume | overlapping and dying processes of several code versions; evidence that arrives late |
| candidate funnel, `funnel.py` (`Funnel`) | none | choose candidates | mandatory names, sectors and controls at the limit of the budget |
| validation engine, `validation/experiments.py`, `holdout.py`, `pipeline.py` (`Experiments`) | regimes, attempts, metrics | draft, seal, measure, one holdout | pipelines overlap and die between transactions, and may never look at the holdout twice |
| snapshots, `snapshot.py`, `validation/snapshot_builder.py` (`Snapshots`) | snapshot registrations, files, frozen datasets | create and recover a snapshot, freeze a dataset | a registration and a file in two stores; recoveries overlap calls in progress; the power fails between two syncs |
| universe, `backfill/universe_sample.py`, `security_bootstrap.py`, `universe.py` (`Cohort`) | securities, memberships and identity events, append-only | freeze and bootstrap a sample, reconcile with it | a correction must never change the past; three readers of one history |
| backfill, `backfill/tiingo_driver.py`, quota and requests of `adapters/` (`Backfill`) | quota events, symbols of the month, attempts | run, smoke | several processes share one quota; a clock read before the transaction; retries after death |
| hunters, evidence packs and views | scores, documents | score, render | mostly numeric, or written once (not modelled) |
| health, status, reports | reports | read everything | none: read only |
| other adapters (a request's ingestion is in `EvidenceLedger`) | caches | fetch | provider formats |
| MCP server, CLI, acceptance packs (not modelled) | none | forward, drive | - |
| deployment (not modelled) | a provenance record | record, verify | - |

**Interactions.** The portfolio engine writes proposals; the decision pipeline
exports them as envelope files with an authority record; the runner reads both,
charges its budget and calls the execution API, which alone talks to the broker.
Approved proposals go another way: an MCP process previews, renders and affirms
one through the same API and writes its execution link into the research
database. The reconciliation job hands account state back to the research plane.
The committee worker polls the committee API for work and posts assessments; the
finalizer turns a decided committee into a decision epoch.

### What makes each component correct

* Confirmation: one token stands for at most one order at the broker, whatever
  is retried, stolen or late; a submitted token is closed for good.
* Runner: one budget charge buys at most one order, the day's caps hold, no
  envelope disappears untried.
* Approved proposals: a fill moves the holding once; a recorded order is real;
  one proposal makes one order.
* Committee: a score needs both neutrals and a resolved review; a model call is
  never issued twice; every run is decided.
* Refresh: only the newest run reports; a symbol that was fetched is not called
  deferred; every stale symbol is accounted for; a budget deferral means that
  the budget was spent.
* Freshness: retries stay within their limits over any number of restarts; only
  a completed run's deferral suppresses a repair, and only while it stands;
  whatever is owed a repair gets a verdict.
* Worker: an attempt is charged only for answers that were refused, a superseded
  cycle is left alone, and what can be driven is.
* Portfolio: the transitions of a security form one chain, whatever order the
  runs come in; an order is earned by evidence of different days; the day's
  budget holds; what waits for a fill has its proposal; no envelope precedes its
  authority.
* Evidence and outcomes: all readers of a correction chain agree; an outcome says
  what its frozen prices say.
* Screening: candidates are the funnel of a complete population, and the funnel
  is fair.
* Validation: a regime's holdout is measured once, sealed, after everything else.
* Snapshots: what is registered is on the disk, whole, and stays so.
* Universe: the past is never rewritten, and after a reconciliation all readers
  name the same securities and tickers.
* Backfill: requests stay within the reserve whoever sends them; a finished run
  has records of every ticker, or a reason.
* Calendar: sessions, expectations and horizons fit each other, every year.

## 2. Plan

The modules in the order of their importance, all written:

1. `OrderAuthority` (abstract), `Confirmation` (detailed, refines it),
   `ConfirmationProofs`.
2. `PaperAutonomy` and `Phase4`, the two ways to an order, with
   `OperationsProofs`.
3. `PortfolioRules`, `PortfolioEngine`, `Decisions`, each extending the one
   before, and `DecisionsProofs`: from scores to envelopes.
4. `CommitteeRun`; `Assessment` and `CommitteeWorker`, which extends it;
   `CommitteeProofs`, about the requests and the worker.
5. `RefreshRun`, and `Freshness`, which extends it and composes the watch with
   the refresh it watches; `FreshnessProofs`, about both.
   `Sums` holds the facts about extremes and sums of finite sets that the proofs
   of several components need.
6. `Screening`, `Funnel` and `Experiments`, with `ScreeningProofs` about the three.
7. `EvidenceLedger`, and `ForwardLedger`, which extends it, with `LedgerProofs`
   about both; `MarketCalendar`.
8. `Snapshots`, `Cohort` and `Backfill`, the stores and the feed under all of
   it; their proofs are in `LedgerProofs`, too.

Section 5 says which properties have no proof, section 7 what is not modelled.

## 3. Modules and how they correspond to the code

The exact lines of every definition are in `PROJECT.json` under `map`. In all
modules one action is one atomic step of the code: a SQLite transaction, a file
operation, or an HTTP exchange. Between two of them the process holds only its
local variables (`job`, `run`, `call`, `req`), other processes run, and it may
stop. Logging, audit events, payload contents and error texts are left out.

**Confirmation.** `row[t]` is the row of token `t`, with `claimed_at` as none,
fresh or stale against `STALE_CLAIM_SECONDS` and `expires_at` as a flag. `job[w]`
is a handler with its program point, lease, order number and what it read.
`sent` and `arrived` are the requests that left and those the broker accepted.
Every `AuditStore` method is an action with the method's WHERE clause as guard;
`ClaimAges` and `Expire` are the clock, `HandlerDies` the crash, `BrokerAccepts`
the broker, at any time after the request left. The migration of older databases
is in `Init` (`Migrated`). `OrderAuthority` is what a caller may rely on, and
`Confirmation!ImplementsAuthority` is its refinement under
`identity = reserved_order_id`.

**PaperAutonomy.** The finalizer's exports (`PublishAuthority`,
`PublishEnvelope`), the runner's loop one operation at a time, midnight and the
kill switch. Validation of an envelope is a nondeterministic refusal, except for
freshness, which bounds how long a proposal can come back: 26 hours, that is the
day of creation or part of the next one. An order is counted under the charge
that paid for it.

**Phase4.** One proposal: its link row, the confirmations minted for it, the
broker's orders and the tool calls in progress. A confirmation is only its
effect here (READY, UNCERTAIN, SUBMITTED); `Confirmation!OneOrderIdentity`
allows an order to be named by its token.

**CommitteeRun.** One run. `log` is `committee_transition` in rowid order;
`issued`, `attempts`, `assessed`, `verdict`, `comparison`, `scored` are the
other tables, reduced to what routes the run. A connection begins its
transaction at its first write, so checks before it are separate from the write
(`Propose` and `InsertTransition`), while the reviewer's acceptance, whose first
statement is an INSERT, is one action. Reads that follow each other with no
write of the request between them are one action. `GET work` ends a `status()`
after the first envelope; `Stop` covers that. The comparison after the second
neutral is done by `submit()` and again by recovery; both are `Recover`,
`Compare`, `Route`.

**RefreshRun.** One market session. `row` is its `refresh_run` row with the
outcomes of `refresh_symbol`, `inv[i]` an invocation of `run_daily_refresh` with
its phase, the symbols it has left and the outcomes it keeps in memory. `bar`
reduces a symbol's last bar to what the code tells apart: none, past the
contract, within the rolling window, of the session. A fetch is two actions,
`Fetch` (reservation, request, ingestion) and `Record` (ledger row, retirement,
outcome). `Plan` is the three functions between the loops, `rotation_candidates`,
`plan_symbol_capacity` and `allocate_rotation`, as operators over one state: the
invocation writes nothing between them. Symbols are numbered worst first, which
is the order of the rotation; the order among cooling symbols (least recently
attempted) is left open. One rolling month passes, so reservations only grow.

**Freshness.** Extends `RefreshRun`, whose steps interleave with the watch's.
`point` and `checkpoint` are the tables of the remediation database, `watch` the
pass with its program point and locals; every `CheckpointStore` method is a
transaction and an action. A pass can die at each point (`PassDies`) and the next
one resumes from the tables alone. Time appears as the backoff that may or may
not have elapsed (`ReadPending`), the 72 hours after which an attempted symbol is
given up (`GiveUp`) and the deadline that ends a pass early (`LeaveQueue`).
`claimed` and `unpaid` are history variables, for properties only.

**Assessment, CommitteeWorker.** `Assessment` is pure: what
`normalize_claims` and `assemble_assessment` make of a model's answer, the checks
of `validate_assessment` in their order, and the worker's reading of the first
that fails as its own defect or the model's. `CommitteeWorker` extends it with
the invocations: an action is what happens between two points where the worker
waits for somebody, the lock, the service, a probe, the artifact server, the
model. `file` is the state file, read before the lock and written at the end;
`service` what the committee service shows of a run, whose inside is
`CommitteeRun`. `late` and `refused` are history variables.

**PortfolioRules, PortfolioEngine, Decisions.** The rules are operators over
whole numbers, with `Ppm` and `Unit` for the code's 10^6, small enough that
every rounding still happens. A run of the engine is one BEGIN IMMEDIATE
transaction, so `Commit` is one action: `Outcome` computes it from the tables
and the snapshot, and an exception anywhere rolls all of it back. Moments are the
callers', in any order. A snapshot is one `build_snapshot` accepts (`Valid`).
Which drafts the budget admits is stated as what the loop of the engine leaves
behind (`Admitted`): a set such that a draft is in it exactly if it fits with
those of the set that come before it. `Decisions` has the callers: the operator
with a snapshot of his own, the research cycle at the present moment, the
finalizer at the epoch of a score set, the last two writing authority records
and then envelopes, one file after the other, and dying in between (`Die`).
`Reconcile` is the PAPER handoff of the reconciliation job, `Execute` the runner
and the broker.

**EvidenceLedger, ForwardLedger.** One security's rows in the order of their
insertion; a moment is a number, two a day, before and after the publication
boundary. The table's constraints are the guards of an insertion. The three
readers are operators: the store's recursive query, the walk of the portfolio
and outcome plane, and the query of the screening loaders. `ForwardLedger` adds
capture, maturation runs one evaluation and one insertion at a time, and the
frozen label builder, which prices the same window again. Predictions are made on
day 0; the cash dividends of the total return are left out.

**MarketCalendar.** Holidays, observed days, sessions, the session expected at a
moment and the horizons, over dates as day numbers. One step is one year.

**Screening, Funnel.** `pipelineRuns`, `results` and `stored` are the tables of
the screening ledger, keyed by what `run_id` hashes; `proc[p]` is a process with
the version of the code it runs. Registration, the beginning of a run, each
population, completion, candidates and flags are transactions of their own.
`Funnel` is `run_funnel` in full, over the stored results.

**Experiments.** One evaluation regime and the pipelines that measure it.
`attempt` is `experiment_attempt`, each row with its status and the number of its
metrics; the unique indexes and the trigger that guards the seal are `Refuses`. A
pipeline is a list of jobs, each opened, measured horizon by horizon and closed in
transactions of their own; sealing and the search for an earlier holdout are two
more. A measurement may raise, a pipeline may die, and the CLI may seal by hand.
What a variant scores is left out.

**Snapshots.** `version` is `snapshot_version`, `placed` the file at each
destination with what of it has reached the disk, `call[c]` a call of
`create_snapshot` with its temporary file, or inside `_recover_pending` with the
rows it has settled in its transaction (`LookForFile`, `SettleRow`). Copying,
syncing, moving, syncing the directory and publishing the row are actions, because
`CallDies` and `PowerFails` may come between any two; a power failure keeps what
was synced and may keep the rest or not (`AfterOutage`). A content is the number of writes
the database has seen, and stands for its hash. `overlapped` and `lost` are history.

**Cohort.** `identity` and `member` are the append-only rows of each security in
the order of their insertion, stamped with the second their call began. The
readers are operators: `pit_valid` with the chain of supersessions (`PitValid`,
`UniverseAt`), the newest event (`TickerAt`), and the canonical tickers of the
current rows (`ActiveUniverse`). `boot[b]` is a call of the bootstrap or of the
reconciliation; where the code computes from rows it read in an earlier
connection, the call keeps what it read. `Refused` is the triggers' refusal.

**Backfill.** `request` and `symbol` are the shared quota tables, `stored` the
records of each ticker, `attempted` the attempt ledger, `driver[d]` a run with its
queue. `ReadClock`, `Acquire` and `SendRequest` are three actions: the stamp is
taken before the transaction, and the request leaves after it. `sent` is history:
when a request really left. The answers are those `classify_error` tells apart.

**MC modules.** A run of TLC often covers several parts that share nothing: the
MC module then has a variable `part` that a behaviour chooses at the start, and
the other parts rest. `MCOperations` has the runner and the tool calls,
`MCDecisions` the decisions, snapshots, cohort
and backfill, `MCCommittee` the requests and the worker, `MCResearch` refresh, screening,
funnel and experiments, `MCData` watch, evidence, forward records and calendar, `MCLive` the
parts with a liveness property. `MCAnswers`, `MCRecords` and `MCMarkets` hold
constants only.

## 4. Runs

| run | what it shows | bounds |
|---|---|---|
| `confirmation_safety` | leases are exclusive and fence stolen handlers; one order identity per token; what is submitted is at the broker and stays so; the refinement | 2 tokens, 2 handlers, 3 leases, 2 order numbers, dry run on and off |
| `confirmation_live` | an uncertain token is decided | 1 token, 2 handlers |
| `confirmation_stolen` | finding: a preserved stolen submission becomes retryable | 1 token, 2 handlers |
| `operations` | every envelope is accounted for: one order per charge, nothing archived untried; the day's budgets hold while no two runs overlap; no fill counts twice, a recorded order is real; one proposal, one order, and no fill taken back, while no two calls overlap | runner: 2 proposals, 2 runners, 2 days, budgets of 2 and 2; calls: 2 calls, 2 tokens, SELL 2 of a holding of 1 |
| `paperautonomy_again` | finding: a proposal is ordered on two days | 1 runner, no faults |
| `phase4_open` | finding: an open order can be reconciled only once | 1 call |
| `decisions` | the day's budget, one chain per security, earned orders, transitions and proposals together, authority before envelope; what is registered is whole; the past of the universe stands, and a reconciliation aligns it; requests stay within the reserve, and a backfill accounts for its tickers | decisions: 2 securities, 2 research cycles, 3 moments in days of 2, six starting ledgers; snapshots: 2 calls, 2 writes; cohort: 2 calls, 2 securities, 4 samples that rename, replace or repeat one, 2 seconds; backfill: 2 drivers, 3 tickers of which 1 is a duplicate, 2 records an answer, reserves of 1 an hour and 2 a day, 1 symbol a month, 2 tries, 3 ticks |
| `committee` | scores follow reviews, calls are issued once, acceptances are whole; attempts are earned, superseded cycles left alone | requests: 2 requests, 2 providers; worker: 2 runs, 2 cycles, six answers, 3 model calls, 1 correction, 2 attempts, disturbed anywhere |
| `research` | the record is the newest run's, fetched is not deferred, stale symbols are accounted for; candidates are the funnel of a complete population; the funnel is fair; the holdout is the last word on its regime | refresh: 3 symbols, 1 of them active, 2 invocations, budget 1, ceiling 2; screening: 2 processes, 2 screens, 3 versions, evidence late once; funnel: every market of 4 securities of 8 kinds, budget 3, 1 control; experiments: 2 pipelines of 2 baselines, a removal, a gate and 2 walks, 2 horizons, coverages of 500 and 600 days |
| `data` | retries are bounded, only a standing deferral of a completed run suppresses a repair; readers agree; outcomes say what their frozen prices say; the calendar holds | watch: 2 symbols, 2 invocations, budget 1, ceiling 1, 2 tries per pass, 1 in total, killed anywhere; evidence: six batches, 5 moments; forward: batches of their own, 2 maturation runs, horizon 1, sessions 1, 2 and 6, 5 moments; calendar: 2015 to 2045 |
| `live` | transitions chain and exhaustion is earned with one request at a time; every run is decided; every actionable run is driven to its end; what is owed a repair is decided, and a fresh symbol leaves the quarantine | 1 request; worker: 2 runs of 1 cycle; watch: 2 symbols, 1 of them active, 1 invocation, 1 try per pass, 2 in total |
| `evidence_withdrawn` | finding: a withdrawal stays invisible to the screens | six batches, 5 moments |

**Why the bounds are enough to be interesting.** Two handlers are one that is
stolen from and one that steals, and either may start again while the other is
still out; two tokens compete for order numbers; leases are one more than the
handlers that can hold them at once, so "fresh" never runs dry. Two days are the
longest life of a proposal. Two tokens are one uncertain order and its
replacement; a quantity of 2 has a partial fill; a holding below the quantity
makes the sale's floor bind. Two providers are the fewest that independence
allows. Three symbols with a ceiling of two and a budget of one give every kind
of deferral: one symbol is refused for capacity, and of the admitted ones one is
fetched and one deferred, whether it is ready or cooling. In the safety run of
the watch the total of one is below the tries of a pass, so the total is what
stops it; in the liveness run it takes two passes to spend the total. Two cycles
give one that is superseded in the middle of a drive. The six ledgers each aim
at one kind of decision; three moments in days of two give two runs of one day
and a later day, in every order. Two snapshots are one left by a death, or
still in progress, and one that recovers it. Two calls over two seconds give one
that corrects what the other wrote in the same second or in an earlier one. A
symbol ceiling below the tickers refuses one; reserves below the tries of two
drivers make every limit bind. Two screening processes are one that dies and
one that resumes it, with the same code or another. Four securities fill a
budget of three in every way. Attempts are bounded by the code, the number of
passes and kills is not bounded at all. Symbols are never interchangeable,
invocations, calls of the bootstrap and drivers are. `MCFreshness` starts with every symbol past the contract and
one of them cooling. The proofs below remove the bounds for the safety
properties they cover.

`CHECK_DEADLOCK FALSE` is set where the system may stop: all tokens closed, all
days over, or (committee, Phase 4) nothing left that anyone asks for.

**Fairness.** `Confirmation!FairSpec`: a claim ages, reconciliation of an
uncertain token is requested again and again (an operator or a client retries on
the 409 and 502 answers), a handler that is not dead goes on, and infinitely
many lookups answer. `MCLive!LiveSpec` carries the conditions of three parts,
which never mix. Committee (as `CommitteeRun!FairSpec`): the run is polled and
its open work answered again and again (the worker's timer), a request in
progress goes on, and requests stop short only finitely often. Worker (as
`CommitteeWorker!FairWorkerSpec`): its timer starts an invocation again and
again and a started one goes on; backoff elapses; and a probe, the artifact
server, the model and the service, asked again and again, answer now and then.
Watch (as `Freshness!Fairness`): it is run again and again (its timer); now and
then no symbol is in backoff (the longest is shorter than the days the timer
goes on), a pass reaches its next symbol before its deadline, and the provider
answers with something other than a refusal for quota. Kills are off there: a
watch that is killed in every pass decides nothing. Nothing else assumes any.

## 5. Proofs

All theorems hold for every value of the constants, under the modules' named
assumptions only: a missing value is none of the values, sets of numbers are
sets of numbers, the symbols of a refresh are finitely many, limits are natural
numbers, securities are finitely many and ordered as numbers, the registered
policy is one `validate_spec` accepts (`PolicyAssumption`), and a starting
ledger is one earlier runs may have left: chains of their rows dated before the
first moment, whose waiting rows have their proposals and whose proposals have their
rows, with natural notionals and days before the first (`SeedAssumption`); that
batches are sequences of records with a moment or none (`LedgerAssumption`), that a
bar's session is a day (`ForwardAssumption`), that ranks and the funnel's limits
are numbers (`FunnelAssumption`), that the samples of a cohort are sequences of
different rows (`CohortAssumption`), that drivers and tickers are finitely many and an hour is
no longer than a day (`BackfillAssumption`). The worker's
theorems have theirs as a hypothesis, `WorkerConstants`: runs and cycles are numbers,
and Absent is no invocation. TLC evaluates all of them in the runs.

* `ConfirmationProofs`. The inductive invariant relates every handler's point to
  its row: a handler that holds the current lease sees the row in the state its
  point needs; an order number held by a handler is the row's or is fresh; a
  request out at the broker carries the row's reserved number, which is never
  reset once something was sent. From it: `TypeCorrect`, `RowAuthority`,
  `NumberIsDurable`, `OrderIdentity`, `RecordedOrderIsReal`, `BackedOrders`, the action
  properties `SubmittedForGood` and `StolenIsFenced`, and `Refinement`.
* `OperationsProofs`, for the two ways to an order. A run past its charge holds a
  charge nobody else holds: two runs of one day are never both between the charge
  of a proposal and its order. From it `ChargedOnce`; `ArchivedWasTried` from the
  ledger preceding the rename; together `EnvelopesAccounted`. What a call of the proposal runtime read at its
  start (`snap`) agrees with the world up to growth: the broker's fills only grow,
  and holding and applied fill of the snapshot belong together. From it
  `AppliedOnce`, `AppliedIsReal`, `RecordedOrderIsReal`, `LinkStaysReal`.
  What is claimed for one actor at a time needs invariants of its own, over
  `OperationsSpec`, which remembers whether two ever overlapped. `AloneInv`: what
  `daily_usage` found is still true when `charge` writes, since nobody else is
  active, and one more charge adds its notional to the day's sum (`UsedAdd`); from
  it `BudgetHoldsAlone`. `LoneInv`: what a lone call read is still the row, and an
  order not yet consumed belongs to the approval the row was previewed for; from it
  `OneOrderAlone` and `AppliedNeverShrinksAlone`.
* `CommitteeProofs`, the requests. What a request read may be stale when it writes, but the
  tables only grow (`Grows`), so whatever it concluded in favour of a score is
  still true (`PointOK`), and every transition in the log is borne out by the
  tables (`RowOK`). The slots of work and attempts do the rest: a request that
  finds its slot free holds the role's only open work. From it `ScoreIsReviewed`,
  `CallsAreFenced`, `AcceptedWhole`, `Independence`, `SoundAcceptance`, for any
  number of requests. What is claimed of requests that do not overlap has that as a
  hypothesis (`Alone`: all but one are idle, always), and an invariant of its own
  (`Lonely`): the state a request read is the state it writes to, and a role that
  exhausts the run had failed in all its attempts, since the calls of a run are spent
  only when every role has made its own (`ExhaustedRole`). From it `SoundAlone`.
  The worker. From the moment an invocation has its work the answers
  refused are the tries it made (`Counts`), so when it gives up correcting it has
  the price of an attempt: `EarnedAttempts`. Only the holder of the lock drives, it
  begins with a run only while its cycle is the newest, and nobody begins another
  run of that cycle later (`Course`), so at most the run being driven when the
  successor came moves on: `SupersededLeft`. Both for any number of invocations
  (TLC has one, and two runs), any bounds, answers and cycles.
* `FreshnessProofs`, the refresh. Only the owner closes the record, and is done by then, so a
  closed record agrees with what its owner knew (`OneMoves`). What an invocation
  knows keeps its own account (`AccountOK`): it defers nothing before the plan,
  the plan defers only what the active phase left alone, and the rotation goes
  only through what the plan did not defer. From it `NewestReports` and
  `TriedIsNotDeferred` (a part of `StaleIsAccounted`), for any number of
  invocations, any universe and limits.
  `StaleAccounted` needs more (`StaleInv`): bars only move forward, and only an
  active symbol ever gets its first one, so a symbol that is stale in the end was
  stale when the plan was made; what the rotation has fetched and what it has left
  are the plan's own, and the plan's allocation spends the budget before it defers
  (`AllocationSpends`).
  The watch. `WatchInv` is, symbol by symbol, what the pass knows against
  what the tables say (`SymbolOK`), and survives a kill at any point: bars never
  go back, so a repaired symbol is not reopened; a symbol stays PENDING while it is
  being worked on, so the only request not counted is the one in progress. From it
  `EarnedRepairs` and `NothingOverlooked`.
* `ScreeningProofs`. Rows only move forward, so what a process learnt of them
  stays true: that all populations are stored, that the funnel it computed is that
  of the stored ones, that a complete run lacks only its candidates. From it
  `FunnelOfThePopulation`, for any number of processes and versions of the code.
  The funnel: the choice takes, seat by seat, the eligible rows that come first.
  The rows it takes for the remaining seats are those whose place in the order is
  within the seats there are, so a row left out has at least as many rows before it
  as there were seats, and each of those is chosen or barred by the sector cap
  (`ChoiceIsFair`), for every market, budget, cap and quota.
  The experiments. A pipeline that is past its baselines has measured all of them
  completely, and what it holds open is all that is open of its own; a pipeline
  that reaches the holdout found the regime sealed, which nothing undoes. From it
  `OneFinalHoldout`, for any number of pipelines, jobs and horizons.
* `LedgerProofs`. The shape of the ledger is inductive (`Forest`): a row corrects
  an earlier one, no two rows correct the same, and none is published before the
  row it corrects. In such a ledger the rows of a chain that are visible at a
  moment are a beginning of it, and both readers, the recursive query and the walk,
  find the same row of it: the visible one that nothing visible corrects
  (`ReadersAlwaysAgree`, for any batches, in any order, retried or torn). For
  outcomes, what a run cached stays the view of the moment it prices as of, while
  no row is added, and the window it prices lies within the bound: so the frozen
  builder, which sees every row, sees the same bars (`OutcomesAreReproducible`, for
  any calendar, horizons and number of runs).
  The universe. A call appends rows with the second it began (`CohortInv`, `Grown`),
  and no reader as of an earlier second looks at them: `PastAlwaysStands`, an action
  property, for any samples and calls.
  The backfill. `RequestsWithinReserve` is about the requests that left, not about
  the rows, and needs more (`BackfillInv`): a request stamped within the last day has
  its row (`RequestsStored`), a driver stamps a request after the one before has left
  (`DriversReady`), and an insertion keeps the rows of each window within its
  reserve (`ReserveKept`); so of a driver's requests in a window all but the first were
  stamped in it and have rows, for any number of drivers (`RequestsStayWithinReserve`).
  The snapshots. `SnapshotInv` relates what a call has in hand to the disk: a file in
  place was synced before it was moved (`FilesOK`); a recovery publishes
  only rows whose file it found whole (`RecoveriesOK`); a registered row's file is
  there and synced, or was published by a recovery before its directory was
  (`ReadyOK`); and calls that do not overlap find their rows as they left them
  (`AloneOK`). From it `RegisteredStaysWhole`, for any number of calls and writes.
* `DecisionsProofs`. Every decision takes a canonical edge (`DecideMoves`,
  `SettleMoves`), and a run extends only the newest row of a security, at a moment
  after it (`RanMoves`, `CommitChains`); so the rows stay one chain although runs
  arrive out of order (`OneChain`). A waiting row comes with a draft that was
  admitted, and of others none is written (`WaitsForProposal`). The jobs write an
  authority record before the envelope it allows (`AuthorisedEnvelopes`). A run
  reads the day's proposals, admits against what they leave, and appends in one
  transaction, so admission keeps the sums within the limits (`AdmittedWithin`,
  `CommitKeepsMoney`), of a cash that the first writer bound and nobody changes:
  `DayStaysInBudget`. That admission has an answer for every set of drafts is
  `GreedyExists`. A proposal is written with the row that moves its security:
  `ProposalsMoved`, and with `WaitsForProposal` the match of ledger and proposals both
  ways, `LedgerMatches`. That
  moments are the model's rests on the finalizer deciding non-empty score sets
  only (`EpochIsMoment`). What persistence counts is a cadence apart and of
  distinct evidence (`CountedApart`; that the cadence has an answer for every set
  of observations is `SpacedExists`), and all of it was observed after the newest
  row of the ledger, because the state a decision leaves is the one that row
  entered (`EpochCovers`); a later run adds no earlier row, so it stays so
  (`CommitKeepsEvidence`): `EarnedOrders`.
* `Sums`. `MapThenSumSet` takes the elements of a set in an arbitrary order; that
  a sum grows by what is added (`TotalAdd`), and adds up over disjoint sets
  (`TotalUnion`), is proved by the least counterexample of a set of numbers.

Two models changed because a proof failed for a good reason. The arms of a CASE
in `Freshness!Classify` and `ForwardLedger!Evaluate` overlapped: TLC takes the
first that holds, TLA+ leaves the choice open, so nothing could be proved about
them; they are disjoint now. And `PortfolioRules` had left open whether a policy
has finitely many rules with whole priorities, which the choice of the first rule
needs. Others were restated so that they can be reasoned about:
`PortfolioRules!Admitted` is the set that admission leaves, not a recursion over
the drafts; what the cadence and the evidence hash keep of the observations
(`PortfolioEngine!Cadenced`, `Distinct`) are sets, not sorted lists;
`PaperAutonomy!NotionalOf` names the sum over charges; `Funnel` sorts with a
function on the rows; and `ForwardLedger` prices the bodies of the rows a reader
returned, not the rows, so that two planes that read the same bodies price the
same. `FrozenPlaneAgrees` had left out that every row of the frozen plane must be
published by the moment the run prices as of; without it no proof exists, and a
row published later is a counterexample. One property said too much:
`OrdersAreEarned` asked for observations of different days that name the row's own
edge, but a policy may have a cadence of no days, and an exit that cannot sell
everything becomes a trim, which the observations of the exit earn. It now asks for
the cadence, and for the edge that was asked for; the trim that settles into an
exit, which makes no order, is left out of it.

Only model-checked: the liveness properties, which are out of the prover's reach;
`CohortIsAligned` and `CohortIsAccounted`, whose inductive invariants would follow
the calls through every row of a list they work off, and which TLC covers at
instances where all of their cases happen;
`CalendarHolds`, which is arithmetic of concrete dates over thirty years; and what
the rules of `PortfolioRules` and the assessment contract compute for bounded
inputs, as far as no property above depends on it.

## 6. Findings

`PROJECT.json` lists four with the quoted lines; each is shown by a run that
must fail: `confirmation_stolen`, `paperautonomy_again`, `phase4_open`,
`evidence_withdrawn`.

Three properties are claimed for one actor at a time, because overlapping ones
break them; the modules state the full property, and checking it shows the
interleaving:

* `PaperAutonomy!BudgetHolds` fails with two overlapping runners: each reads the
  day's usage before either charges (`budgets.py`, two transactions);
* `Phase4!OneOrderPerApproval` fails with two calls: two previews pass the check
  before either upserts its link;
* `CommitteeRun!TransitionsChain` fails with two requests: `record_transition`
  checks the state in autocommit and inserts later.

What else the translation brought to light, not shown by a run. Of the refresh
and the watch:

* A symbol without any bar is never in the rotation: `rotation_candidates` says
  such symbols sort first, but the universe leaves them out, since
  `symbol_has_evidence` reads the rows they lack.
* `reopen_deferred` says that a verdict must not be undone by a later pass.
  `settle` writes over any disposition, so a later pass with a deferral turns
  UNRESOLVED or EXCLUDED into DEFERRED, and the one after that reopens it.
* A later pass may close an ESCALATED checkpoint as COMPLETED: it counts only the
  symbols that it gave up itself.
* A pass that finds nothing stale ends before the checkpoint is opened, so rows
  left PENDING by a killed pass stay. Where the next pass has something stale, it
  fetches them too, even when they are no target any more.
* `fetch_one` waits out the quota and does not let a refusal reach its callers,
  whose handlers and the status QUOTA_EXHAUSTED are reached with an injected
  fetch only. With the daily quota spent and the hourly one not, the wait returns
  at once and `fetch_one` repeats it.
* A symbol whose failing request is verified, found failed and charged again may
  lose two tries to one request (`RecordFailure`, then `Verify`).

Of the portfolio engine and the decision pipeline:

* TRIM to EXIT may be written by a settlement, without a proposal (engine.py:1173),
  although EXIT is a pending state (types.py:50).
* A scored research cycle may stay undecided for ever: its day is bound to another
  cash, or its epoch is older than the newest row; the comment at
  decision_pipeline.py:727 expects the finalizer to decide it in the end.
* The handoff reports a volume of 0 as KNOWN, so that path never proposes a buy.
* A sized sale that changes nothing raises ProposalError and rolls the whole run
  back, the other securities with it.
* If a run commits and the process dies before its export, and the score set grows
  before the next tick, the proposals of that run are not exported any more.
* `pending_resolution` may answer STILL_PENDING for a snapshot without the
  holding before it checks the snapshot's age (state.py:205); exits for data
  integrity are always stopped by risk; a fractional holding is never sold
  completely; a TRIM or ENTER can settle while its envelope is still out.
* A torn line in the handoff's history stops the decisions that read it.

Of the committee worker:

* `assemble_assessment` leaves contradictory ids out of the top-level citations,
  `validate_assessment` requires them: a defect of the harness is charged to the
  model as a malformed attempt, which committee_worker.py:29 says it is not.
* "cited_evidence_ids contains out-of-pack evidence" is read as the harness's
  defect, so the run is driven again at every tick.
* An answer whose claims are no list, and a model call that outlives its timeout,
  raise through the worker. Probe calls are not in the budget of calls, and a run
  named by the operator is driven whatever its cycle. Of the runs of a cycle only
  the first max_runs * 8 are looked at, so blocked ones may hide the others.

Of screening, evidence and outcomes:

* A process that dies between `complete_run` and `persist_candidates` leaves a
  complete run without candidates; they are repaired only by a run with the same
  inputs. A retry by new code skips populations that are stored without comparing
  them. `begin_run` keeps the snapshot it was first given, which is no part of the
  run's id, so a resumption with another one raises.
* Overlapping maturation runs meet in a unique constraint, which ends the one that
  loses with work left; capture ends the same way on a collision, and may record a
  prediction whose outcome is already known.
* A validation pipeline that dies after its first fold leaves a regime that cannot
  be finished: the fold's row is unique, so every later pipeline stops at it, and
  none gets to the holdout.
* A delisting known by its event and not by its date is OBSERVED live and
  DELISTING in the frozen label. A corrected bar that contradicts another leaves
  its session UNKNOWN for good.

Of snapshots, universe and backfill:

* `_recover_pending` takes any PENDING row for a dead call's. An overlapping call may
  delete the row of one that is still copying: `create_snapshot` then returns an id,
  and `build_validation_snapshot` records a READY dataset, that nobody can open.
  It may also publish a file whose directory entry is not synced yet.
* `pit_valid` looks at all rows, eligible or not: a security that was retired and
  is sampled again never becomes eligible, although security_bootstrap.py:26 says
  that every security of the cohort without an eligible membership gets one. A sample that names a security
  twice gives it two baselines, and `ticker_at` may answer with the one that is not
  canonical until a reconciliation.
* tiingo_driver.py:245 calls the ceiling fatal for the run; the driver records
  CAPACITY and goes on with the next ticker. Line 28 says that permanent failures are
  never fetched again; a later run does. A ticker with some of its records counts as
  done. A smoke run records SUCCESS without storing anything. Only a symbol's first
  request counts for the rolling month, so more symbols than the ceiling may be
  requested within thirty days.

## 7. Not modelled

Read-only parts (health, status, reports, views), the numeric core of the hunters,
of scoring and of the validation statistics, the SEC backfill (whose `.part` file
overlapping downloads share) and the other adapters, the backfill's bound of twelve
hours on a wait, input validation of the HTTP
layer and its authentication, MCP server and CLI, acceptance packs and deployment
scripts, as listed with reasons in `PROJECT.json`. Of the reconciliation job only
the handoff is modelled, not its files. Simultaneous failure of the disk, and
clock changes, are not modelled anywhere.
