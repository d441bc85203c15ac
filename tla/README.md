# Verification of memseek

TLA+ models of memseek, model-checked with TLC on small instances, and theorems about sixteen of the
models, for every value of their constants, checked by TLAPS. Paths are relative to the repository
root. "Database" is PostgreSQL under READ COMMITTED; a worker process runs lanes (asyncio tasks) that
poll the `job` table or sweep the `record` table.

Contents: 1 the system, 2 the modules, 3 the runs, 4 liveness, 5 the proofs, 6 where code and
documentation part, 7 what is not modelled, 8 the plan.

## 1. The system

memseek keeps append-only *records* of *entities*, enriches them (embeddings, annotations), derives
further records from them with models, and projects ready records into a search index. Everything
that has to happen later is a row of the job table or is found by a sweep; there is no broker and no
leader. Workers are interchangeable and may die at any statement.

### Components, their state and how they interact

**Job queue** (`src/memseek/jobs.py`). State: `job` rows with `run_after`, `lease_until`,
`locked_by` (a UUID token for each claim), `attempts`, `done_at`, `dead_at`, `payload`. Operations:
insert, coalescing upsert, claim (with reaping), heartbeat, complete, retry or dead-letter, release
without charge, revive, erasure's kill. Hard: leases that lapse under executors at work, processes
that die during the last attempt, a dead job revived beside a newer one, an order of claims that
starves. Correct when: one owner at a time; nobody's late answer lands; every row ends done or dead;
one active derive job (a *mailbox*) for each (workspace, derivation, entity).

**Workers and lanes** (`src/memseek/worker.py`). State: the claimed job of each task, in memory. An
operation runs beside a heartbeat task, and is cancelled when the heartbeat finds the claim gone.
Hard: what has been done outside the database when the claim is lost.

**Triggers** (`src/memseek/triggers.py`). Conditions over records and the *watermark* (`high_seq` of
the last successful run), evaluated inside every transaction that makes a record ready, commits a run
or erases; and cron schedules, which insert scan jobs that walk the entities page by page. Hard: two
transactions that do not see each other, times of several stimuli merged into one `run_after`, a
worker that dies between two pages. Correct when: a condition that holds of the committed records has
an active job, due in time; a scan reaches everyone it was for.

**Derivation runner and bases** (`src/memseek/derive/runner.py`, `basis.py`, `provenance.py`,
`llm/runtime.py`). A run claims a mailbox, resolves a *basis* (which records it reads), runs its tasks
outside any transaction, and commits: it fences the claim, verifies the basis, inserts the outputs and
the run, completes the job, enqueues a successor and evaluates the triggers. Three bases: `changes`
(rows above the cursor), `corpus` (the whole scope) and `citation_repair` (stale keyed rows). Hard:
everything that moves between resolve and commit, erasure above all; budgets and an audit that several
judgments share; pipelines that feed each other. Correct when: no record is consumed twice or skipped,
no request is lost, no run outlives what it has read, what is cited was read, cascades end.

**Candidates and promotion** (`promote.py`, `derive/candidates.py`). Runs under review write drafts; a
promotion re-emits them if the heads that they expected are still current. Hard: reviews that take
days, replays, erasure of parts. Correct when: no update is lost, none is applied twice.

**Locks** (`src/memseek/locks.py`). Advisory transaction locks: the workspace (shared for all
writers, exclusive for erasure and reindexing), the entity (keyed inserts and commits); plus row
locks on jobs and records. Hard: deadlock, and decisions under less lock than they need.

**Ingest and erasure** (`records.py`, `canonical_records.py`, `erase.py`). A batch is one transaction
and assigns `seq` at insert, before the commit; a row that requires nothing, or is a tombstone, is
ready at once. Erasure takes the workspace lock and deletes the closure over `derived_from`. Hard:
repeated requests, dedupe keys that race, parents that go meanwhile. Correct when: lineage is whole
and answers agree.

**Enrichment** (`enrichment.py`). State: `annotations`, `enrichment_meta`, `enriched_at` of records and
the `_system` run records that audit them. A sweep has no job: it snapshots a unit under row locks,
releases them, asks providers, and finalizes in a second transaction. Correct when: readiness is
announced once, outputs of a run become ready together, every annotation has its audit record, every
row is settled.

**Annotation backfill** (`backfill.py`, the backfill lane of `worker.py`). State: handles and a chain of
jobs. Hard: five transactions for each batch, with a crash, a cancellation or a lapsed lease between
any two; rows that are locked when the sweep passes. Correct when: a live handle has a job, done means
no row left, annotations are written once, every handle ends.

**Projection** (`projections.py`, `reindex.py`, `search/turbopuffer.py`). Jobs that name records and
carry no data; their executors read the rows without a lock and push them to an index outside the
database. Correct when: index and database differ only where something pending will mend it.

**Definitions and the workspace catalog** (`definitions/loader.py`, `definitions/models.py`,
`workspace_catalog.py`, `evolution.py`, `definitions/compat.py`). A catalog is compiled from documents
that name each other, under the bindings of a deployment; a publish replaces it and moves stored
contract hashes. Hard: a document that passes where it is read and cannot be resolved where it is
used; publishes that overlap writers and each other. Correct when: what was accepted resolves; what was
stored under a contract stays readable.

**Re-embedding** (`reembed.py`). Passes stage vectors of another space; a cutover promotes them batch by
batch. Correct when: nothing is discarded and a cutover that is done is whole.

**Search and graph traversal** (`search/engine.py`, `search/pg.py`, `graph.py`). Several statements
without a lock over rows that change. Correct when: every hit fulfilled the rules at a moment of the
request, and no standing row is missed; the report of orphans names the isolated pages.

**Invocations and Computers** (`invocations.py`, `computers.py`, `local_computer.py`,
`cloudflare/computer-runtime`). Durable external calls with a status, a journal and jobs; sessions of
files that programs and agents share. Hard: executors that come late, requests that are repeated,
forks that die half way. Correct when: one executor works, final means final, an answer is the
invocation's own, a fork is complete.

**Claude Code plugin** (`integrations/claude-code/scripts`). Hook processes allocate ordinals under a file
lock, spool envelopes and flush them to a server that may not answer. Correct when: what was spooled
is there until stored, and stored once.

Transport and tooling (API, MCP, SDK, CLI, views, evals) keep no shared state that a schedule could
break; section 7 lists them, `PROJECT.json` has every component with its files.

### How they interact

```
 ingest ──ready hook──► triggers ──upsert──► mailbox job ──claim──► derivation runner ──commit──► records
   │                        ▲                    ▲                                            │
   └─unready─► enrichment ──┘(ready hook)        └── manual, cron, read, successor, erasure ◄──┘
                   │
                   └──ready hook, annotation──► projection jobs ──► executors ──► external index ──► search
 operators: backfill handles ──► backfill jobs ──► enrichment of ready rows;  erase;  reindex;  re-embed
 publish: documents ──► loader ──► workspace catalog ──► every request and lane resolves it anew
 invocations ──► invocation jobs ──► Computers ──► records;   hooks ──► spool ──► ingest
```

Every arrow into the job table is an insert in the transaction that causes it. What happens after a
claim, until the fenced transaction that ends it, is outside any transaction and interleaves with all
the rest; that is what the models look at.

## 2. The modules

| module | models | proofs |
|---|---|---|
| `JobLease` | what the job table promises of one job: exclusive ownership, abstractly | |
| `JobQueue` | `jobs.py`, the enqueueing statements of `triggers.py` and `runner.py`, the claims of `worker.py`; implements `JobLease` | `JobQueueProofs` |
| `Derivation` | one derivation of one entity: records, triggers, mailbox, runs, erasure | `DerivationProofs` |
| `Execution` | what a run does between its basis and its commit: views, tasks, budgets, model calls, audit, lineage | `DerivationProofs` |
| `Cascade` | what the loader accepts of pipelines that feed each other, and how their runs then activate each other | |
| `LockOrder` | the inside of the transactions that `Derivation` takes as steps | `StoresProofs` |
| `TriggerClock` | the one `run_after` that stimuli, settle windows, deadlines and cooldowns share | `TriggerProofs` |
| `CronScan` | cron schedules, buckets and paged scans | `TriggerProofs` |
| `Promotion` | keyed heads, drafts, promotions, roll-backs | `RecordsProofs` |
| `Ingest` | batches with dedupe keys and heads, repeats, erasure, the purge, a publish | `RecordsProofs` |
| `Enrichment` | the sweep: snapshots, finalize, audit | `EnrichmentProofs` |
| `Backfill` | handles, their jobs, the five transactions of a batch | `EnrichmentProofs` |
| `Projection` | versions of one keyed slot, their jobs, the index, reindexing | `StoresProofs` |
| `Catalog` | contracts of stored records under publishes, writers and the migration of hashes | `EvolutionProofs` |
| `Reembed` | vectors under a change of model | `EvolutionProofs` |
| `Definitions`, `ViewDefinitions`, `PipelineDefinitions`, `PackageDefinitions`, `Loader` | the checks of the definition loader family by family, and the load as a machine | |
| `Search` | a request over both engines: candidates, reload, judge, fusion, boost | |
| `Traversal` | walks over edges and the report of orphans | |
| `Invocations` | status, journal, jobs of the turns, executors, a client that follows | `ComputersProofs` |
| `Computers` | sessions of the Cloudflare runtime and of the local provider | `ComputersProofs` |
| `Spool` | the plugin's hooks, spool and server | `StoresProofs` |
| `MC...` | constants, settings and symmetry for TLC; `MCReaders`, `MCPipelines`, `MCAnnotation`, `MCServices`, `MCStores` compose | |

Conventions. Transactions are single steps where a lock serialises them; `LockOrder` is where that is
looked into, and `Catalog`, `Ingest` and `Reembed`, whose transactions share the workspace lock, take
them statement by statement. Executor memory (`work`, `hand`, `runner`, `draft`, `hook`, ...) is what
is read in one transaction and used in another. Modules that need claims have a small copy of the
claim protocol with the properties of `JobQueue` taken as given. Most modules have a variable that is
chosen in `Init` and never changes (`setting`, `target`, `arrival`, `deployment`, `declared`, `pace`,
`plan`, `traffic`, `world`, `undertaking`, `history`, `change`, `session`, `design`, `source`, `spec`,
`atlas`): the declaration or deployment at hand. One run so explores several of them, and a property
can say in which it holds. Operators whose comment starts with "Fault:" are plausible bugs; each
property fails with the one that `PROJECT.json` pairs it with.

### JobQueue

| model | code |
|---|---|
| `status`, `attempts`, `lease`, `lockedBy`, `manual` | `done_at`/`dead_at`, `attempts`, `lease_until`, `locked_by`, the `manual` reason in `payload` |
| `due`, `ahead` | `run_after` is past; which due rows have an earlier one (all that `order by run_after` reads) |
| `job`, `token` | the `ClaimedJob` an executor works on |
| `Enqueue`, `Coalesce`, `Postpone` | `enqueue_derive_tx`: insert, or `on conflict do update` of the mailbox row |
| `Claim`, `ClaimNothing` | `claim_job`, with the reaping of overdue final attempts |
| `Fenced` and the actions that use it | the `where locked_by = token and lease_until >= now` of every transition |
| `LeaseLost`, `Crash`, `LeaseExpires`, `ComesDue` | `_with_heartbeat`, process death, and the clock |
| `RetryDead`, `EraseKills` | `retry_dead_job`, the first statement of `_erase_tx` |

A claim token is a UUID: `FreshToken` is one nobody holds. `Lane[e]` is the kind filter of a task.

### Derivation, Execution, Cascade

`Derivation`: a record is its sequence number; `row[s]` goes none → open → unready → ready → gone.
`open` is an insert that has its `seq` and has not committed, possible only where it holds no entity
lock (unkeyed). `runs` keeps what a surviving run has read (`inputs`) and recorded (`high`). `Resolve`
reads the basis without a lock; `Commit` verifies it, appends the run, completes the job and refills
the mailbox. `asked` is history: the rows a pending manual request must see reflected.

`Execution`: one claimed job packs its rows, reads its views and executes its tasks in order
(`Retrieve`, `Walk`, `Compute`, `RunAgent`, `AskModel`, `AskAnswer`, `AskJudge`). A value has `from` (the
rows whose content went into it, the truth) beside `sources` and `cites` (what the program says of it).
A model call tries the targets of its alias twice each and is corrected once; the judgments of a task
are under way at once and share budget and audit. Templates and JSON Schemas are one verdict each. `IsLoaded`
is what the loader has made sure of: a task names only what has a value before it.

`Cascade`: `Accepted` is the loader's automatic graph with its breakers and depths; the actions are
arrivals, readiness and runs of two pipelines whose outputs are records of the same log.

### TriggerClock, CronScan

`TriggerClock` merges, in the order of the code, what each stimulus does to `run_after`; a run starts,
and ends or fails. `CronScan` keeps scan jobs by (trigger, bucket, page) with their dedupe keys;
`owed` is history: who was to be found when the scan was scheduled.

### LockOrder

One process for each ingest and one executor for each pipeline, each taking its locks one statement
at a time. A trigger is a threshold of ready records above the watermark. What a statement sees is
what is committed plus what its own transaction wrote (`Visible`, `SeenWatermark`). `WaitsFor` is
PostgreSQL's wait-for relation; `Abort` is its deadlock victim.

### Promotion, Ingest

`Promotion`: `rows` are keyed versions in `seq` order, `ledger` the run records with their expected
`heads`; `EraseRow` takes the closure (`ClosedRuns`, `DoomedBy`). `Ingest`: a batch inserts item by item
and waits for an open row with its dedupe key; a repeat finds what the first has stored; `RecordDepth`
bounds chains of parents. `answers` is history.

### Enrichment, Backfill, Projection

`SelectFirst` and `SelectUnit` are the two statements of `_snapshot_required`, which hold row locks in
between; `SelectOptional` is `_snapshot_optional`; `FinalizeRequired` and `FinalizeOptional` are
`_finalize`. Required annotations and readiness are one fact, because every required processor has a
default (`definitions/loader.py:4125`). `lock` are row locks; `hooks` and `audit` are history.

`Backfill`: `Start`, `Select`, `Write`, `Progress`, `EndOfSweep`/`Finish`, `Release` are the transactions of
`_process_annotation_backfill` in order. One job record stands for the chain of jobs of a handle,
because completion and the successor are one transaction. `held` are rows that other lanes have locked.

`Projection`: `opened` is the insert under way, `waiting` a bag of jobs, `leased` the live claims, `dead`
the targets of dead jobs. `work` goes claimed → live → loaded → upserted → pushed. Only `complete_job` is
fenced: pushes are not.

### Catalog, Reembed, Loader

`Catalog`: a record is stored under the contract its request had resolved; publishers plan, rewrite
hashes and commit, one statement each. Three pieces of history serve the property: `unseen`, the rows
written or moved since a publisher planned; `behind`, those of them that its update did not find when it
committed, and rows that arrived later under a replaced contract; and a row's `unjudged`, moved by an
update whose plan had not read it. `Reembed` follows a script of operator commands, each a series of transactions.

`Loader`: the stages of the load in order, each the checks of its family over a source (`Definitions` to
`PackageDefinitions`); afterwards `NothingDangles` asks what the runtime asks of the accepted catalog. What a check
asks of one value alone (patterns, lengths, JSON Schemas) is the field `sound` of its document.

### Search, Traversal

`Search`: `Starts`, then for each source `Asks`, `Proposes`, `Reloads`, `Judges`, then `Combines`, `Boosts`,
`Touches`; rows arrive, become ready, are promoted, erased and projected in between. `ever` and
`always` are history: what fulfilled a source at some, or every, moment. Scores are small numbers.
`Traversal`: paths and citations are two statements; pages are revised and their old edges stay.

### Invocations, Computers, Spool

`Invocations`: `job[n]` is the job of the n-th turn; `runner` is what an executor knows; what it learns is
applied by a transaction that checks the status and not the claim. `Computers`: runs of the runtime go
through fork, cache, context, action, collection; `marked` says that a fork counts as complete.
`Spool`: `pending` and `failed` are the two directories, `file` the session file under its lock.

## 3. The runs

Twelve runs; a behaviour of a composed MC module belongs to one *part*, and the parts that it does not
belong to keep their initial state, so the state spaces add up and each part has its own fairness only.

| run | parts and bounds | properties |
|---|---|---|
| `job_queue` | 3 rows (2 of one mailbox), 2 executors, 2 attempts, 5 tokens | `SoleOwner`, `ImplementsJobLease` |
| `job_queue_live` | 1 derive row, 1 other row, 2 executors with different lanes, 2 attempts | `ManualServed`, `EveryJobSettled` |
| `derivation` (`MCReaders`) | derivation: 3 records, 2 executors, 2 attempts, 5 declarations; loader; search; walk | `ConsumedOnce`, `NeverSkips`, `ManualReflected`; `NothingDangles`; `HitsHold`, `NothingIsMissed`; `OrphansAreIsolated` |
| `derivation_live` (`MCPipelines`) | derivation: 2 records, triggered keyed `changes`; cascade: 7 designs of 2 pipelines | `EveryRecordReflected`; `CascadesEnd` |
| `annotation` (`MCAnnotation`) | sweeps: 3 deployments of 3 records, 1-2 workers, batches of 1; backfill: 5 targets of 1-2 rows, 1-2 handles, 2 executors, 2 attempts | `ReadyOnce`, `EveryRowEnriched`; `DoneMeansDone`, `WriteOnce`, `EveryBackfillEnds` |
| `services` (`MCServices`) | invocations: 4 deployments, 1 reply, 1 revival; promotion: 5 reviews, 1-2 keys, 3-6 rows; triggers: 5 paces, 5 moments; cron: 5 schedules, 1-4 entities; ingest: 3 traffics, 2 clients of 1-2 requests; computers: 8 worlds, 2-3 requests, 2 preserved paths; executions: 9 undertakings over 4 rows, 2 attempts, 1 erasure | `SoleRun`, `FinalIsFinal`; `AppliedOnce`, `NoLostUpdate`; `DeadlineKept`, `RunsWhenSettled`; `WholeScan`; `LineageWhole`, `AnswersAgree`, `RewrittenPagesStay`; `AnswersAreOwn`, `OwnFiles`; `LineageIsTrue`, `AttemptsAreAudited` |
| `stores` (`MCStores`) | locks: 3 ingests, 2 pipelines, thresholds 1 and 2; projection: 5 settings of 2-3 versions; catalog: 1 writer, 2 publishers, 2 rows, 2 publishes; embeddings: 3 scripts over 2-3 rows; spool: 2 messages, 2 hooks | `NoLostStimulus`, `CyclesNeedAnExecutor`; `NoDriftAlone`; `StoredContractsHold`, `MovesKeepMeaning`; `CutoverIsWhole`, `NothingDiscarded`; `StoredOnce` |
| `derivation_gap`, `enrichment_split`, `projection_drift`, `self_feeding`, `lineage_hole` | the smallest that show it | section 6 |

`CHECK_DEADLOCK FALSE` everywhere: bounded inputs run out, and then the system may rest.

Why the bounds are enough to be of use.

- Ownership: a third executor adds no new relation between two claims of one row; two give every pair
  of claim, lapse, late answer and reclaim, and the theorems have no bound. Two attempts are a first
  and a final one, the two cases of retry, reap and barrier.
- Derivation: three records give a cursor with a row below, at and above it, and an insert that commits
  below a cursor that has moved. Cascade: `MaxDepth` 2 lets a pipeline feed itself through another;
  `MaxLog` 13 is never reached, which `CascadesEnd` itself states.
- Loader: one base catalog has a document of every family, and the sources differ from it by one edit
  each, under three bindings, with and without a package, and by pairs of edits of a collection and a
  view: a check that looks at two documents is violated by an edit of either.
- Search: six requests cover the modes, engines, judges, boosts and limits that bite; four rows and two changes
  let a row be replaced, erased or projected late between any two steps, one request at a time.
  Traversal: four places, three revisions, five edges and seven queries, some beyond the limits.
- Annotation: batches of one make every row a page boundary, so two rows give a full page, a short page
  and a sweep that skips and comes back; a public row before a group of two outputs gives the cut
  between batch and group; two workspaces give a barrier.
- Services: each deployment is the least that has its hazard (a zombie, a crash, a reply, a revival;
  two keys of one candidate; a trigger whose deadline its own settle window postpones; two pages and a
  crash in between; opposite dedupe keys; a fork that dies; two targets, a refusal and a time-out).
- Stores: three ingests make a cycle of waits possible that two cannot; three versions give a newest,
  the one it replaces, and the next; two publishes make one overtake the other; a script there and
  back moves every vector twice.

What the properties say is in the comment before each. Several have a condition that names the
deployments in which the code does not give the property (`DoneMeansDone`: no row budget, and locks of
other lanes that do not last through a whole sweep; `NoLostStimulus`: thresholds of one, or keyed
ingests; `NoDriftAlone`: one executor, and rows that all need enrichment or none; `CutoverIsWhole`:
cutovers that are not forced; `RewrittenPagesStay`: no publish; `DeadlineKept`: deadlines that no success
has reached; `OwnFiles`: works that do not overlap; `CascadesEnd`: drivers that the triggers cover); section 6
has the cases.

## 4. Liveness

Fairness is weak unless said otherwise, and only on what the code does by itself:

- executors poll (`run_worker` loops over its lanes) and end what they claim: providers have
  timeouts, and a cancelled operation ends. Crashing is never fair, nor is any request;
- `run_after` and the lease of an owner that is gone pass with the clock;
- enrichment finishes (`Derivation`: `MakeReady`; `Cascade`: `BecomeReady`), which is what
  `EveryRowEnriched` shows of it;
- row locks of other lanes are let go (`Backfill`: `LetGo`), because they belong to transactions;
- `Backfill` assumes strong fairness of the claim of each handle's job: other claims disable it for a
  while, but claims follow `run_after`, which is what `ManualServed` shows of a job in the queue.

`EveryJobSettled` assumes that settle stimuli stop (`BurstsEnd`), because `quiet` and `debounce` may
postpone a job without a manual request for as long as records arrive, and that an operation is not
answered "not ready" for ever (`BarriersLift`). `ManualServed` assumes neither. The steps whose
fairness is stated are those that change something (`WF_moving`, `WF_advancing`): waiting is no
progress. Nothing is assumed of the other modules, whose properties are safety: they say that what is
pending exists, and `JobQueue` that what is pending is served.

## 5. The proofs

TLC checks a small instance; these hold for every value of the constants that satisfies the
assumptions the modules name (which TLC evaluates in every run). Each invariant below was an invariant
of a TLC run before it was proved. Bounds such as `MaxSeq`, `MaxRuns` or `rows` are any numbers.

**`JobQueueProofs`**. Assumed: at least one attempt is allowed, partitions and lanes are of their
types, the null values are no tokens or jobs. `IInv` is

    TypeOK /\ FreshRows /\ TokensDistinct /\ LeaseMatchesToken /\ NoStrandedJob /\ OneMailbox

`TokensDistinct` (no two executors remember the same token) is what sole ownership rests on: two
executors that pass the fence of one job hold the token of its row, hence the same token.
`FreshRows` (a row that was never inserted has used no attempt) is needed where a row becomes active
with the attempts it has. `LeaseMatchesToken` carries `NoStrandedJob`: an unleased row has no token,
so only a transition that checked the attempts released it. From it: `TypeCorrect`, `SoleOwnership`,
`SingleMailbox`, `NothingStranded`, `LeasesAndTokens`; `ManualStays` (an action property); and
`Implementation`, the refinement of `JobLease`, one step lemma for each action.

**`DerivationProofs`**. Assumed: bounds are naturals with at least one attempt; declarations are of their
type. `DerivationInv` has, beside types: an owned job is active and has used an attempt (`OwnerAtWork`); where inserts
are keyed no `seq` is open and none is left out (`NoGaps`); the runs of a `changes` source have
intervals that follow each other (`RunsFollow`); what the cursor of a run covers was read by it or by an earlier run that
survives (`RunsCover`); pending requests name ready rows that no run reflects, and a mailbox
(`AskedHolds`); whoever leaves the mailbox empty has evaluated the triggers (`NothingFires`); and what
a resolved executor remembers is still what the commit will verify, or the verification fails
(`BasisHolds`). `RunsCover` is what needs erasure: an erased record takes the runs that have read it
and all that follow them, so that the runs of a `changes` derivation lose a suffix and never a middle.
From it: `RecordsConsumedOnce`, `CursorNeverSkips`, `RequestsAreReflected`, and `StimuliAreKept` (a
ready record that no run reflects has a job, where inserts hold the entity lock; not of
`citation_repair`, which no arrival triggers).

**`DerivationProofs`**, the execution. Assumed: finitely many rows, and that derivations are loaded (`IsLoaded`).
`ExecutionInv` holds two arguments. Lineage (`LineageHolds`): each value rests on rows that were visible when it
was bound, unless a graph was walked, and may cite only what went into it; visible records only grow, become the parents of
the run, and are all there when it is committed; an erasure takes the runs whose parent it is. Audit
(`FlightHolds`, `AuditHolds`): calls have numbers of their own, the attempts of a call are ordered by target
and try, so a log holds each of its attempts once; whatever ends is audited whole or cut. What the
recursive functions compute (`UsedBy`, `Logs`, `AllRetrieved`) is proved from stages that exist. From it:
`LineageIsKept` and `AuditIsKept`, for any tasks, targets, answers, erasures and retries.

**`StoresProofs`**, the locks. Assumed: finitely many ingests and pipelines, pipelines are numbers (mailboxes are
locked in their order), thresholds are positive. `LockInv`: which locks a process holds at each point
of its program, mailboxes below those it has still to look at (`Own`); a trigger that an ingest evaluated and did
not fire has no reason to fire at its commit (`Judged`); a run that has its entity staged a successor
for what its basis does not cover (`Succeeded`). From it: `StimuliAreNotLost`, and `IngestsNeverDeadlock`,
whose argument is that all ingests of a cycle without executors wait for mailboxes, and the one that
waits for the least of them waits for somebody who is past it.

**`EnrichmentProofs`**, the sweeps. Assumed: finitely many records and workers, the outputs of a run are
in one workspace, what settings are. `IInv` is `TypeOK`, `ArriveTogether` (a run's outputs are inserted
in one transaction) and, for each record, `Announced` and `Audited`: what its readiness says of its
announcements and its annotation of its audit trail. A finalize that lost the race finds the row ready
or annotated and adds nothing. From it: `TypeCorrect`, `AnnouncedOnce`, `AuditTrail`. `SoleWorkerGroups`
(the outputs of a run become ready together, where one worker sweeps) needs `SoleInv` in addition:
only running workers hold row locks, and what a worker carries from the snapshot to the finalize is
`Whole`. With a second worker that fails, and `enrichment_split` shows the consequence. The model has no
row lock of any other lane during a snapshot: the theorem is about sweeps that pass over nothing.

**`EnrichmentProofs`**, the backfill. Assumed: finite bounds, what targets are, and that answers are not
the two marks of an annotation that is missing or failed. `BackfillInv` is types, `HandHolds` (what an
executor knows between two transactions: an empty page of a sweep from the first row that no foreign
lock hides means that no row is left; an executor releases without a successor only what is over),
`JobHolds` (a live handle's job is active or dead), `NobodyElse` and `DoneMeansDone` itself. From it: `DoneIsDone`,
`LiveBackfillsHaveJobs`, `AnnotationsStand` (an action property), with executors that outlive
their leases.

**`ComputersProofs`**, the invocations. Assumed: bounds, and that nobody is no executor. The claim of a job plays no part:
what keeps two executors apart is that the status leaves "running" only with the executor that put it
there, or by a cancellation, after which nothing starts. `InvocationsInv` is types, `WorkIsCurrent`,
`OneAtWork`, `HearsAll` (who works on a running invocation has every reply) and `TurnsFit`. From it:
`SoleExecutor` and `FinalStatusStands` (an action property).

**`RecordsProofs`**, promotion. Assumed: what reviews are. `PromotionInv`: a run goes with any of its rows
(`RowGoesWithRun`, the closure of erasure), has a row of each key, expects heads older than its own rows
and, through a current source, has read exactly those. A promotion that survives so keeps the head of
each key above what its candidate expects, which is stale for ever. From it: `CandidatesApplyOnce` and
`UpdatesAreSeen` (an action property).

**`RecordsProofs`**, ingest. Assumed: what traffic is, and that clients are told from the states of a row.
`IngestInv`: an item cites at most the head of its own page; what is open or alive cites what is alive,
because a writer holds the workspace lock that an erasure takes exclusively (`RowHolds`, `ClientHolds`); an answer
names rows with the items it was asked for (`AnswerHolds`); a dedupe key has one row that is open or alive
(`OneHolder`). `Descendants` is the least set that is closed under citation, as the recursive query of
`_closure` computes it, which makes `LineageSurvives` independent of the depth of lineage. Also from
it: `AnswersAreTrue` and `RewrittenSurvive` (an action property).

**`TriggerProofs`**, the clock. Assumed: what paces are, among it that a pipeline is declared with a trigger or
is pulled by hand alone. `TriggerClockInv`: a mailbox that waits for a settle window alone is due after it
(`SettledMail`), and one that a deadline has asked for is there and due no later (`KeptMail`). Every stimulus is followed
through the triggers in their order, an invariant of the recursion (`Evaluated` is a recursive function, whose
stages are proved to exist by taking the least that does not). From it: `DeadlinesAreKept` and
`SettledRunsStart` (an action property).

**`TriggerProofs`**, cron. Assumed: what schedules are. `CronScanInv`: of the pages of a scan only the last is not
done; what the scan still owes lies beyond its cursor and is there to be found. A page takes the first
candidates in order and one to look ahead, so what it leaves out lies beyond what it takes, and a
page without a next one leaves nothing. From it: `ScansAreWhole`, for any page length and number of entities.

**`ComputersProofs`**, the computers. Assumed: bounds and what deployments are. `ComputersInv`: a task knows its run
(`TaskHolds`), a run has an answer to its own request (`RunHolds`), a cache answers what it is asked; a fork
has what it has copied (`ForkHolds`), and the second of two works that do not overlap finds the first
over (`Follows`). What keeps contexts apart is `SawOwn`: the context of a session only ever becomes that
of a run at work, and, where nothing is lost, no two runs at work have one request (`Sole`); so a run
that has read the context of another does not find its own when it is validated. From it:
`OwnAnswers` and `FilesAreOwn`.

**`StoresProofs`**, the capture. Assumed: times are naturals, at least one event is remembered. `CaptureInv`: the floor of
the session file is above every ordinal anywhere, an ordinal names one envelope in the spool, in memory
and at the server, a key one record; what was answered is stored. From it: `MessagesStoredOnce`, for
any clock.

**`StoresProofs`**, the index. Assumed: finitely many executors, and "no job" is no job. `ProjectionInv`,
where one executor runs that does not outlive its lease and readiness is not mixed (the condition of
`NoDriftAlone`): versions come in order, and what an open insert of a ready row will enqueue has the newest
ready row until it commits, because no sweep has rows to make ready there (`RowsHold`, `OpenHolds`,
`NotMixed`); a job that deletes is about rows that are gone (`JobHolds`); who works has its claim
(`WorkHolds`). On these rests the argument: `Mended` are the entries that are right or wait only for a
newer row's readiness; what the executor has read is `Mended` or another job waits (`LoadHolds`), and what
the index has is `Mended`, or a job waits, or the executor is still going to write it (`IndexHolds`). It
is enough for this that every change of the records asks for the rows whose entry it makes wrong, and
that is what the proof of each of them shows. Bags of jobs have lemmas of their own (`BagAdds`,
`BagTakes`). From it: `IndexFollows`, for any number of versions, jobs and attempts. With mixed
readiness the index does drift (`projection_drift`).

**`EvolutionProofs`**, the catalog. Assumed: the undeclared contract is no contract. `CatalogInv`: a plan holds only
hashes that were judged to keep their meaning (`Judged`), a publisher has row locks on what it moves
and on nothing else (`LocksItsOwn`, `LocksExclude`); its plan speaks of every row that was neither written
nor moved since, and has read its values, and its update has locked what the plan speaks of
(`CoversStored`); and the rows hold (`Holds`). No condition says that publishes, writers or the migration
keep apart: what they do to each other is in `unseen`. The plan asks of every stored hash and not of the
installed contract's alone, which is why a publish judged against a stale catalog is refused where it
would pass rows by, and why the next publish that is accepted catches up with rows that an earlier one
has passed by. From it: `ContractsHold`, and `MovesAreAdditive` (an action property).

**`EvolutionProofs`**, the embeddings. Assumed: a script does not begin with a cutover. `ReembedInv`: a vector is not
staged for the space it is in except as what it is (`KeepsItsOwn`), an embedder is at a row that exists
(`EmbedderHolds`), a page to be staged is of rows of another space (`StagesAnother`), and a row of a
cutover in progress is in the new space or has a vector staged for it (`MovesCovered`). From it: `VectorsAreKept`
(an action property), forced cutovers included, and `CutoversAreWhole`, which says nothing of a forced one,
for it is checked against no rows.

Not provable with the tools at hand, and left to TLC: liveness and whatever needs ENABLED; and
`Loader`, `Search` and `Traversal`, which have recursive operators. The safety properties of every other
module are theorems.

## 6. Where code and documentation part

Five runs are expected to fail; each shows a statement of the documentation, a comment or the decision
log that the code does not keep (`PROJECT.json`, "findings", quotes both sides).

- `derivation_gap`, `NoForgottenRecord`: an unkeyed insert takes its `seq` before it commits and holds no
  entity lock. A `changes` run that reads past it moves the cursor over it (`derive/basis.py:393`); the
  record is ready, no run ever reads it, no job is left. `docs/triggers.md:587-591` promises that no
  stimulus is dropped.
- `enrichment_split`, `GroupAllOrNone`: two workers that snapshot at once split the outputs of a run,
  because both statements skip locked rows (`enrichment.py:214`), and each decides readiness over its
  part. `DECISIONS.md:641-645` says a unit is exactly one run, applied all-or-none.
- `projection_drift`, `NoUnattendedDrift`: a tombstone is inserted while the sweep finalizes the version
  it replaces; neither transaction sees the other, the version's own job may read before the
  tombstone commits, and the index says `is_current` of it for ever. `projections.py:315-320` says the
  rows whose flag may have changed are refreshed.
- `self_feeding`, `NoSelfFeeding`: the loader's graph of automatic activation follows trigger scopes, a
  successor the driver's, which may be wider. A pipeline that reads its own outputs is accepted and
  runs on them without end. `docs/triggers.md:642-644` says chains cannot self-feed.
- `lineage_hole`, `RunsRememberReads`: a graph task hands the edges of its walk to a model and leaves them
  out of what the run remembers (`derive/runner.py:985`), so an erasure of an edge does not reach what
  rests on it. `docs/derivations.md:1001-1003` says the run remembers every record it read.

### Stated in the modules, refuted by TLC, kept in no run

| property | code, and the text it contradicts |
|---|---|
| `NoLockInversion` (`LockOrder`) | a keyed ingest locks the entity, then mailboxes (`records.py:999`); a commit its job, then the entity; `DECISIONS.md:624-626` |
| `NoReinterpretation` (`Catalog`) | hashes from before the split move without a verdict (`compat.py:669`); `docs/changing-definitions.md:104-106` |
| `NoStragglers`, `SpacesPure` (`Reembed`) | rows embedded between a cutover and the edit of the configured space keep the old one, and the model of one space may be edited first (`enrichment.py:1466`, `reembed.py:201`); `docs/changing-definitions.md:606-607`, `definitions/models.py:94` |
| `SurvivesRestarts` (`Invocations`) | after a restart an invocation may be left running with no unfinished job, although attempts are left; `docs/api-surface.md:614` |
| `StreamIsComplete` (`Invocations`) | events between the page and the status are not sent (`api.py:674-700`); `docs/api-surface.md:672-674` |
| `CooldownAlways` (`TriggerClock`) | a successor ignores the cooldown (`runner.py:1321-1377`); `docs/triggers.md:606` |
| `NeverDelayed`, `QuietFollowsArrivals` (`TriggerClock`) | a window delays a job that read, cron or `at` has made due; stimuli other than arrivals of the scope postpone a quiet run; `docs/triggers.md:616`, `:402` |
| `EachTriggerScans` (`CronScan`) | triggers of one processor share a bucket's key (`triggers.py:997`); `docs/triggers.md:472` |
| `Captured` (`Spool`) | a hook that dies between allocating an ordinal and spooling loses its message, unless it is run again; `docs/claude-code-plugin.md:408` |
| `PagesStay` (`Ingest`) | the purge takes pages by the tombstone's collection version, and with it a page that was rewritten after a publish (`erase.py:361`) |
| `RetriesAnswered` (`Ingest`) | the depth of a repeat is computed anew before its dedupe key is looked up, and its version compared, so what is stored may be refused (`records.py:752`, `:825`); `docs/api-surface.md:398-400` |
| `DepthSuffices` (`Cascade`) | off by one where `MaxDepth` is 1 (`definitions/loader.py:4362`, `derive/runner.py:1616`) |
| `ForksInherit`, `NothingOfAnothers`, `QuestionsArePut`, `TasksShare`, `AnsweredOnce`, `ContextHeld` of lossy worlds (`Computers`) | `docs/computers.md:473`; `local_computer.py:431`; `docs/api-surface.md:672`; `docs/computer-cloudflare.md:614`, `:615`, `:419` |
| `PushdownIsBroader`, `CandidatesBounded` (`Search`) | `engine.py:578` against `search/turbopuffer.py:120-140`; `docs/views-search.md:1274` |
| `TruncationIsTold` (`Traversal`) | what one node contributes is cut before paths are counted (`graph.py:107-110`); `docs/views-search.md:655`, `docs/graph-data.md:200` |
| `TasksFailEarly` (`Loader`) | see below |
| `EveryAttemptAudited`, `SourcesAreWhole` (`Execution`) | attempts before a refusal, or cut by a time-out, are not audited (`docs/processors.md:331`); a judge records its templates' rows only (`docs/derivations.md:991`) |

`WalksStand` (`Traversal`), `AttendedWhileUp` (`Invocations`), `LiveHasJob` (`Backfill`), `KeyedNeverForgotten`
(`Derivation`), `NoStrandedJob` (`JobQueue`), `AuditMatches` and `AloneAllOrNone` (`Enrichment`) hold and are in no run; all
but the first two are proved.

### The loader

A definition that the loader accepts may be refused where it is used: an order in a mode that has none
(`engine.py:342-343`), `llm_judge` without the alias `cheap` (`:426-431`), an unknown graph of
`graph_boost` (`:432-436`); search tasks are not validated again after overrides, although the comment
at `definitions/loader.py:4177` speaks of it; `docs/views-search.md:21-23, 156-163` and
`docs/derivations.md:544` promise errors at load. A missing active version is a `KeyError` where
`_load_overrides` (4045) and the package closure (4000-4035) look it up. `ingest` tools of an MCP
interface need no collection of the package, although the docstring at 3584 says a binding cannot
widen it; a closure asks for active versions of what views read in every version (2435-2462); it
demands a processor for each promoted score field of an accumulator. A standalone trigger named
`<derivation>.default` is dropped when a catalog is recompiled, and a catalog without families fails
(`docs/authoring-definitions.md:101`). The lessons collection cannot be bound by an override.

### Met while modelling, and excluded by a condition

- A manual request that coalesces into a `corpus` job whose run is under way is lost: only `changes`
  has a successor (`derive/runner.py:1642`; `docs/triggers.md:587-591`). (`ManualReflected` is about
  `changes`.)
- A `corpus` run with an empty basis records `high_seq` 0 (`runner.py:1905`), while the docstring
  (`:1498-1500`) says it carries the watermark.
- More stale rows than `max_records` are an error of the whole run (`derive/basis.py:539`), so a large
  backlog dies instead of draining (`docs/derivations.md:388-389`).
- Unkeyed ingests that each bring less than an accumulator's threshold do not see each other and may
  all stay below it (`triggers.py:769`). (`NoLostStimulus` has the condition.)
- A row that another lane holds locked during a whole sweep from the first record is passed over, and
  the empty sweep finishes the backfill (`worker.py:1047`; `docs/changing-definitions.md:413-420`).
  (`DoneMeansDone` excludes such locks.)
- A crash, or a lapsed lease, between a batch and `record_progress` repeats the scan without charging
  it, so `max_rows` does not bound what is paid (`worker.py:1039`; `docs/changing-definitions.md:442`).
- A workspace whose catalog does not compile stops the required sweep of all others behind its oldest
  unready row (`enrichment.py:1525-1529`; `worker.py:1153-1158`). (`EveryRowEnriched` has `Broken = {}`.)
- An optional sweep that chose its rows before a backfill was requested finalizes them after
  (`enrichment.py:1353`); the comment at `:302-304` says the backfill owns its target. The annotations
  are right all the same.
- Two projection executors whose leases overlap may push an older load after a newer one
  (`projections.py:612`). (`NoDriftAlone` is about one executor.)
- A windowed snapshot with a write trigger runs again on its own empty runs (`basis.py:432-446`); the scope
  of an `at` condition may ignore own outputs and the deadline does not (`_at_deadline`); the successor
  does not see that of quiet and standalone triggers (`runner.py:1329-1335`, `loader.py:1855`).
  (`CascadesEnd` has `Covered`.)
- A record that is inserted between the plan of a publish and its update, with a value that a newly
  declared property refuses, is moved to the new contract unread; one inserted after the update, by a
  request that resolved its catalog before, stays under the old one and is unreadable until a publish
  brings that contract back (`records.py:846`; `workspace_catalog.py:166-314`). (`unjudged` and `behind`
  of `StoredContractsHold`.)
- Two unkeyed batches with the same dedupe keys in opposite order deadlock, and one is aborted.
- A page of a cron scan that keeps failing ends its scan (`worker.py:624`). A server's 409 quarantines
  an envelope (`memseek_state.py:275-279`). An invocation whose last answer is ambiguous is failed
  although it may have succeeded. An undeclared file does not fail a run of the local provider, it is
  rejected. Edges of `graph` and `traverse` do not count as visible records; an answer that exhausts its
  budget inside a task is retried like any failure. The current page of the report of orphans is the
  newest ready revision, whereas search decides what is current before readiness.

## 7. What is not modelled

In the modelled components: prompts, the text of templates, vectors and scores as real numbers, the
validation of single values, content hashes, secondary `reads` of a basis beside its driver in
`Derivation` (they are in `Promotion` and `Execution`), the poll loop's backoff and the pausing of
lanes, the deletion of old jobs and events, the routing of projections to several index profiles (each
has its own jobs), the PostgreSQL backend of projection (a no-op), an erasure's report, the agent loop
of a Computer and its tools and signatures (one step).

Components left out, with the reason: artifacts (append-only uses; rendering is pure data); MCP
servers, SDK and CLI (transport); catalog graph and views (presentation); the synchronous answer route
and the evidence assessments (read-only); migrations, `prune_definitions` and `rebind_cursor` (operator
commands of one transaction each); harnesses, skill packs and evals (offline tooling). `PROJECT.json`
names for each partly modelled component what is left out of it.

## 8. The plan

Modelled and checked: everything in section 2. Proved: `JobQueue`, `Derivation`, `Execution`, `TriggerClock`,
`CronScan`, `LockOrder`, the sweeps, the backfill, `Ingest`, `Promotion`, `Invocations`, `Computers`,
`Spool`, `Projection`, `Catalog`, `Reembed`.

To come, in this order:

1. Abstract specifications in the manner of `JobLease`: a mailbox (every stimulus is followed by a run
   that begins after it) that `Derivation` implements where inserts are keyed; a store without copies
   that `Spool` implements.
