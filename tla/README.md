# TotalRecall: a verification project

TotalRecall is an HTTP service that generates test code with language models. It
keeps the context small (skills, memories, Jira stories, document chunks), lets
people unlearn memories, learns patterns from source trees, and validates what
the models answer. These modules model its stateful core in TLA+, check small
instances with TLC, and prove the main results with TLAPS for every instance.
Paths below are relative to the repository; `api/…`, `memory/…` and so on are in
`totalrecall/`.

## The system

| Component | State | Operations | Interacts with |
|---|---|---|---|
| Unlearning (`api/routes/memories.py`, `memory/`) | table `memory_tombstones`; in each process a `TombstoneFilter` and a `TTLCache` of searches; the Mem0 backend | DELETE of a memory, search, get, upsert, delete at the backend, start-up preload | the planner and the prompt builder read memories; the stand-alone memory service has a filter and a cache of its own |
| Learning runs (`learning/runner.py`, `scanner.py`, `parser.py`, `api/routes/learning.py`) | source files; tables of runs and discoveries | trigger a run: previous hashes, path mapping, scan, deltas, save, audit | later runs compare with it; its discoveries are reviewed |
| Review and promotion (`learning/promotion.py`, `storage/learning_repo.py`, `api/routes/learning.py`) | status of discoveries, catalogue, audit events | approve, reject, both in bulk | promotion writes catalogue entries |
| Skill governance (`skills/registry.py`, `api/routes/skills.py`) | skills of JSON files, overrides in memory, records in Postgres | promote, deprecate, load overrides, select | the planner and the validator select a skill |
| Rate limiting (`ratelimit/`) | a deque of time stamps per tenant, a lock | `check_and_record` | guards POST /v1/generations |
| Generation (`generation/orchestrator.py`, `testgen/`, `providers/`, `validation/`) | none of its own but the threads of a request; metrics, audit events, context snapshots | one request: reformulate, guard, fetch, plan, generate, guard, refine, normalise, validate, repair, answer, record | all of the above |
| Runtime settings (`config/runtime_*.py`, `api/routes/credentials.py`, the Mem0 adapter) | files in `local-secrets/`, the Mem0 client and its configuration | upsert and delete of a credential, activation of flags, `_get_client` | decide which memory adapter is used, and with which key |
| External feature flags (`config/feature_flags.py`) | the last answer of an HTTP service and its expiry, without a lock | `snapshot`, from any thread | falls back to the configuration |
| Start (`storage/migrations.py`, `storage/pool.py`, `main.py`, `memory/service_app.py`, `docker/entrypoint.sh`, `docker-compose.yml`) | table `schema_migrations`; a pool or none | migrate, create the pool, preload tombstones and overrides, serve | every table above exists only after its migration |
| Self-hosted Mem0 start, external secrets, provider mappings, RAG ingestion, auth, catalogue reads, monitoring, CLI, admin UI | files, tables | | listed in `PROJECT.json` with what is left out and why |

Routes declared with `async def` interleave at every `await`; routes declared
with `def`, and the orchestrator, run in threads of a pool and interleave
anywhere. Nothing but the rate limiter and the search cache takes a lock. A container
may die between two steps, and somebody may start it again; several of them
may start at the same time on one database.

What is hard to get right follows from that: state read before a wait and used
after it (a search result and a deletion, an override and its record, a clock
and a lock, a client and its configuration), pairs of statements of which the
second one fails (approval and promotion, tombstone and audit), files written
without a lock, a cache whose value and expiry are two assignments, answers that
arrive after they were given up, containers that apply one migration twice, and
the table rows that decide what a restart remembers. `PROJECT.json` lists these hazards
at their lines, with the properties that cover them.

## Modules

| Module | Models | Runs | Proofs |
|---|---|---|---|
| `MemoryGovernance` | unlearning in both processes | `memory_deletion`, `memory_plan_after_ack`, `memory_shared_id` | `MemoryGovernanceProofs` |
| `UnlearningPromise` | the promise of a deletion, without filter, cache or crash | property `KeepsPromise` | refinement proved |
| `LearningScan` | a run of learning: previous hashes, path, scan, deltas | `learning_runs` | `LearningProofs` |
| `Learning` | saved runs, reviews, promotion, audit | `learning_review` | `LearningProofs` |
| `DiscoveryLifecycle` | a discovery is decided once, by one reviewer | property `KeepsLifecycle` | refinement proved |
| `SkillGovernance` | overrides, records, selection | `skill_governance` | `SkillGovernanceProofs` |
| `RateLimit` | the sliding window and its lock | `rate_limit` | `RateLimitProofs` |
| `GenerationPipeline` | a generation from request to background tasks | `generation_pipeline`, `generation_repair_lost` | `GenerationPipelineProofs` |
| `GenerationContract` | what clients and auditors may rely on | property `KeepsContract` | refinement proved |
| `RuntimeSettings` | credential and flag files, the Mem0 client | `runtime_settings` | `RuntimeSettingsProofs` |
| `FeatureFlags` | the cache of the external flags | `feature_flags` | `FeatureFlagsProofs` |
| `ServiceStart` | containers that migrate and start on one database | `service_start` | `ServiceStartProofs` |

`MC…` modules give TLC the constants that a `.cfg` cannot write. Definitions
named `Bug…` are the code with a plausible fault; no action uses them, they are
the mutations under which each property is known to fail. Definitions keep the
names of the code where they can, and `map` in `PROJECT.json` gives the lines
each one models.

### MemoryGovernance

A key is a scope (tenant and application) with an entity id. The DELETE route is
four actions, one for each stretch between awaits: `InsertTombstone`,
`AddToFilter`, `RecordAudit`, `InvalidateAndReply`; a statement may also fail
(`InsertFails`, `AuditFails`), with its effect in the table or without it. The table's
primary key is the entity id alone, which `RowsWith` models: a second scope with the
same id gets no row. Readers are threads: `BeginSearch`, `CacheHit` or `CacheMiss`,
`AdapterSearch` (any subset of what the backend holds for the scope),
`FilterEntry` entry by entry, `CacheSet`, then a plan (`SelectMemories`, any
subset, for the token budget) and a get for each planned memory, or the reply of
the service. `Crash`, `Restart` and `RestartWithoutDatabase` give up everything
in memory of one process; start-up without a database goes on with an empty
filter, as `storage/pool.py` does. History variables: `acked`, the deletions
answered with 200, and `excluded`, what a reader must not be given, which is
fixed when it begins.

### LearningScan

A handler reads the hashes of the run that completed last, whatever path that
had scanned (`ReadPrevious`; rows come in no order, and of two rows with one key
one stays), and translates its path by the longest mapping (`Resolve`). `StartScan`
lists the source files and sorts them, `ScanFile` reads one after the other up to
`MaxFiles`, `EndScan` compares each pattern by its stable key, file and name, with
the hashes (`Delta`); `NoDirectory` is a failed report. `StoreReport` is one
transaction and `AuditTrigger` follows; `StoreFails` ends the request, committed or not.
The scan has no await, so while one handler scans no other one moves (`LoopIsFree`);
people edit files at any time (`Edit`). A file is the sequence of patterns that the
parser extracts from it. Its names differ from those of `Learning`, so that one module can
prove things about both.

### Learning

What runs leave to review: `RunLearning` makes a report of any hash, or none, for
each symbol, and `SaveReport` or `SaveFails` stores it; `RunsImplementLearning` proves that
the runs of `LearningScan` are such runs, for a symbol that is a stable key with a hash. A
reviewer's request names a set of discoveries: one of them is the single route, more are
the bulk route.
`Decide` is the conditional update (`status = 'discovered'`), `Promote` the upsert of
one catalogue entry, then the audit; each can raise.

### SkillGovernance

`SetOverride` is the synchronous part of a promote or deprecate request, `Upsert` the
awaited record, which a crash or an error may prevent (`UpsertFails`, with the row or
without it). A process without a database has no repository: `SetUnrecorded` is the
whole request then, answered 200 with an override and no record. `Restart` with a
database turns records into overrides by skill id in the order of `updated_at`; without
one there are no overrides, whatever the table holds. It may find other versions of the
skill files, those in `Deployments`. A generation looks at one skill after the other
(`PlanLook`, `ValidateLook`), as the loop of `select` does in a thread. History
variables: `standing`, the decisions about a skill that no answered request has
replaced, and `since`, what was asked for while a request runs, which is what remains
standing when it is answered; `stale`, an override that a plan had read was set since;
`had`, whether each skill was active, or not, until the scan came to it.

### RateLimit

`ReadClock` is before the lock, `Allow` and `Deny` are the body under it. Time
is counted in ticks, several to a second, because `retry_after` is rounded to
whole seconds. `Lag` is the longest time between reading the clock and the end
of the locked body; `Tick` respects it. `granted` records real times of grants.

### GenerationPipeline

`pc` follows the numbered comments of `generate`. Texts are eight kinds, told
apart by what the guardrail, the normalisers and the validator make of them.
The two fetches are threads of their own: `Await` gives each one its time, and
`Plan` needs `Joined`, because leaving the executor waits for its threads. A
request names a chain of providers, of which the first that is registered is asked
(`Asked`); it yields any text, and "empty" is how the providers report a failed
call. Validation selects a skill and asks up to four validators (`StructureSays`,
`SyntaxSays`, `JavaSays`, `WorkerSays`); the Playwright worker, a process of its own,
may fail in any way (`Outage`). `judged` keeps what was found beside the verdict. A
repair uses the skill of the first validation. `Audit` and
`SaveSnapshot` are the background tasks, in order; one that raises ends them.
`Restart` ends every request in flight.

### RuntimeSettings

`write_text` opens and truncates a file and then writes it, so a secret is two
actions and so is a file of names: an open file may be overwritten by another
thread meanwhile, or unlinked. `Torn` is a file that does not parse, which the
code reads as an empty one. Changes of a request are its sequence of file
operations: saving a credential is `OpenSecret`, `WriteSecret`, `ReadFile`,
`Truncate`, `Put`, and applying a flag is the last three. Readers run
`_get_client`: key, host, comparison with the stored configuration, and two
assignments. `Fails` and `Restart` leave the files as they are.

### FeatureFlags

A call of `snapshot` is `ReadClock`, `Look`, and then either `Use`, which reads the
cache again, or a request that the service answers (`Fetch`) or does not
(`FetchFails`: the configuration is the answer, the cache stays). `StoreCache` and
`StoreExpiry` are two assignments, and threads overtake one another between them.
`Publish` is a change at the service, `Restart` an empty cache. Time is in ticks; a
call takes no longer than `Lag`, which stands for the timeout of the request.

### ServiceStart

A container that migrates goes through `Connect`, `Prepare` and `Create` (what
`create table if not exists` does when two sessions meet), `Read` (the versions,
once), and for each missing file `Sql`, `Insert` and `Commit`. `Sql` waits for whoever
holds the locks of the same file; `Insert` fails on the primary key if the version is
there by then. `AfterMigration` is the entrypoint under `set -e`. A service goes on with
`Boot`, `CreatePool` (no database is no pool, and no error), `Preload` and, in the
API, `LoadOverrides`, which raise if their table is missing. What its routes then answer
is the subject of the modules of the routes. `DatabaseFails` breaks every
connection, `Crash` kills a container, `Stop` removes one, and `Start` respects
`depends_on`. Containers have images of different releases, so different numbers of files.

## What the runs show

| Run | Properties | Bounds |
|---|---|---|
| `memory_deletion` | `AnswersExcludeOwed`: no prompt has a memory whose deletion was answered before the generation began. `AckedGoverned`: 200 means row, audit event and filter. `HiddenStaysHidden`: a filter hides nothing that a restart would show again. `KeepsPromise`. `AckedLeavesCache`: the cache loses a deleted memory for good | one key, one deletion at a time repeated at will, one generation, one client of the service, both processes crash at will |
| `learning_review` | `GrantedIsCatalogued`: an approval that was answered 200 is in force, and in the catalogue if it is promotable. `NothingForgotten`: only a failure loses a promotion, no order of decisions. `AuditIsTruthful`. `KeepsLifecycle`, `ApprovalConcludes` | a run of two symbols, one hash of two promotable, two reviewers with any requests |
| `learning_runs` | `DeltaIsExplained`: every delta is relative to one completed run, the last that the handler could see. `RescanIsQuiet`: the same files again are unchanged, under any name of the directory and when there are more of them than a scan reads | two handlers, three runs, one edit, two files of which a scan reads one, a directory with two names, two patterns of one name |
| `skill_governance` | `DecisionsStand`: what is in force, and what a restart with a database would load, is no decision that an answered request has replaced. `SelectionIsStable`: plan and validation use the first active skill unless one that the plan had read was changed. `SelectionIsWitnessed`: no selection takes a skill that was never active while it went on, nor passes over one that always was | two skills, the first of two versions that are deployed and taken back, three decisions (promote or deprecate the first, deprecate the second), two requests, one generation, three committed records, starts with and without a database |
| `rate_limit` | `WindowLimit`, up to the lag of a thread. `RetryIsHonoured` | two grants in two seconds of two ticks, two threads, ten ticks, four grants, a lag of one tick |
| `generation_pipeline` | `CompletedIsBacked`, `AnswersAreGuarded`, `CallsAreAccounted`, `VerdictIsEarned`, `PlanIsSettled`, `KeepsContract`, `RequestsAreAnswered` | one request of any kind under all settings, with chains of a name that is not registered, of that and a provider, and of two providers |
| `runtime_settings` | `SecretsStand`: requests for other credentials do not disturb one. `SettledAgrees`, `ClientIsCurrent` | two administrators with two requests in all, two values, two readers |
| `feature_flags` | `FlagsAreFresh`: no answer was replaced longer ago than the time to live and two calls. `OutageIsBridged`: flags go back to the configuration only when what was stored before has expired | two threads, a time to live of two ticks, a lag of one, five ticks, two changes |
| `service_start` | `EachOnceInOrder`, `SomebodyFinishes`: containers that race make one another fail, but never all. `ServesOnItsSchema`, `StartsEnd` | three containers: migrate, an app that waits for it, and a wrapper of an older release started by hand; three, three and two files |

Every passing run but `skill_governance` and `rate_limit` checks its module's `TypeOK`
(`ScanTypeOK` in `LearningScan`) as well; for these two it is proved.

Why the bounds are enough: in every module the values of keys, symbols, tenants
and requests meet only in the steps named, two at a time. A property about a
deletion needs one deletion and one reader; two decisions are enough for a race,
and a third reviewer meets what the first left behind; three runs are two that
overlap and one before them; the limiter needs one grant more than the limit,
and another for a removed stamp. Three records are two of requests that overlap and one
that was answered before them, and starts without a database come between any two. A request of the pipeline shares nothing with
another one but the metrics; a request that is not for Playwright stands for a service
without a worker. Two threads are one that fills the cache and one that
sets its expiry. Three containers are two that meet at a file and one that waits
for them. Where a proof exists, it lifts the bounds; the
proofs are about all sizes. `MaxRuns`, `MaxScans`, `MaxEdits`, `MaxUpdates`, `MaxTime`, `MaxGrants`,
`MaxVersion` and `MaxRequests` (of `RuntimeSettings`) are bounds of the models, not of
the code. Deadlock is checked for unlearning, review, skills and start; the other
runs stop when their bounds are used up or their request has ended.

### Where the code differs from what it says

Three runs check one statement of the repository each, and find it violated:

- `memory_plan_after_ack`: the comment at `api/routes/memories.py:76` says the next
  context plan excludes a deleted memory. A search in flight caches it after the
  deletion, and cache hits are not filtered. (The prompt is: `AnswersExcludeOwed`.)
- `memory_shared_id`: `memory/tombstone.py` says the filter is populated from the
  table, but the table has one row for an entity id whatever its scope, so the
  second application's deletion is forgotten by a restart.
- `generation_repair_lost`: the comment at `orchestrator.py:262` says a repair whose
  transport failed keeps the original result. Providers do not raise: they answer
  an empty text, and that replaces the result.

Others are known from the models and have no run of their own:

- `README.md:894` says approval promotes eligible discoveries. An approval whose
  promotion raises stays approved and cannot be repeated.
- `storage/skill_governance_repo.py:3` says records take precedence. Of two overlapping
  requests the last in memory need not be the last in the table; a process that
  started without a database follows the files although there are records.
- `orchestrator.py:88` and `testgen/guardrails/input_guardrail.py:1` say the input
  guardrail stops a request before any LLM calls. A request for test cases has been
  reformulated by then (`orchestrator.py:79-86`), by a call of a provider when an LLM
  is configured for it, whether or not it is rejected next.
- `testgen/guardrails/output_guardrail.py:1` and `orchestrator.py:182` say the output
  guardrail runs on raw LLM text before normalization. The text of a repair is
  normalised and answered without it (`orchestrator.py:250`).
- `orchestrator.py:104` calls the two fetches fail-open and awaits the chunks for ten
  seconds (`orchestrator.py:129`). `PgvectorRagStore.retrieve` connects and queries
  without a timeout, and leaving the executor waits for it: a vector store that does
  not answer holds the request as long as it likes.

The properties that hold say what remains true in these cases:
`AnswersExcludeOwed` under ids of their own, `NothingForgotten` for approvals,
`DecisionsStand` for skills, `CallsAreAccounted` for repairs and rejected requests,
`AnswersAreGuarded` for all but repaired texts, `RequestsAreAnswered` for requests that
the vector store lets go.
`ClientIsCurrent` holds unless a thread entered `_get_client` while another one
was making the client; then client and configuration may be of two
rotations, and stay so until the credentials change again or the process restarts.

## Fairness

- `MemoryGovernance`: handlers and readers that began go on (an event loop and a
  thread pool run them, a database call returns or raises), and cached entries
  expire (a TTL). Nothing makes a request arrive or starts a dead process again:
  the compose file has no restart policy for the API.
- `Learning`: weak fairness of each reviewer's step: every database call of a
  handler returns or raises.
- `GenerationPipeline`: weak fairness of each request until it is answered, and of the
  Jira fetch: threads run, and Jira, the providers, the memory and the worker are called
  with timeouts. Not of the fetch of chunks, whose connection and query have none, so
  `RequestsAreAnswered` is about requests that it does not hold forever; nor of the
  background tasks after the answer, whose statements have none either.
- `ServiceStart`: weak fairness of a container's migration and start steps, because a
  process that was started runs; strong fairness of `Sql`, because Postgres grants
  locks in the order in which they were asked for. Nothing makes a database return or
  anybody start a container.
- The other modules state safety only, without fairness.

## What is proved

TLAPS checks these theorems for every value of the constants, from the named
assumptions of the modules. Each proof module shows that an invariant `IInv` holds
initially and is kept by every action, and that it implies the properties; what
follows says what it adds to them.

- **`MemoryGovernanceProofs`** (`KeysAreScoped`, `NothingIsNoValue`, `WorkersAreDistinct`):
  `TypeCorrect`, `DeletedStaysOut`, `AcknowledgedIsGoverned`, `HiddenIsBacked`,
  `DeletionImplementsPromise`. All but the first assume `IdsAreOwn`
  (no entity id in two scopes), without which `memory_shared_id` refutes them.
  What a reader puts in a prompt depends on the filter at the time of its get, so
  `IInv` adds where each deletion handler is (`HandlersInv`: its row, filter entry
  and audit event exist once it passed them), what filters hold (`ProcsInv`: rows
  only, and everything answered while the process has its database), and that a
  reader which looked its entry up holds nothing excluded (`ReadersInv`).
- **`LearningProofs`** (`PromotableHashes`, `RunsAreBounded`, `NamesDiffer`): `TypeCorrect`,
  `GrantsAreCatalogued`, `NoneForgotten`, `AuditTrailIsTruthful`,
  `LearningImplementsLifecycle`. `IInv` adds which runs exist and what their discoveries
  are (`RunsInv`), which reviewer holds which claim between the update and the end of
  its request (`ClaimInv`), and that catalogue entries name the approver
  (`CatalogueInv`). That two requests never hold the same discovery is what the
  conditional update gives, and everything else rests on it.
  Of the runs themselves (`FilesAreNumbered`, `FilesAreSomewhere`, `RequestsAreDirectories`,
  `MappingsAreDirectories`, `BoundsAreNatural`, `ContentsAreSequences`): `ScanTypeCorrect`,
  `DeltasAreExplained`, `RescansAreQuiet`, and the refinement `RunsImplementLearning`.
  A scan lets nobody else run and starts below the bound, without which the types are not
  inductive (`LoopInv`). Deltas are explained because a handler holds the hashes of the last
  completed run among those it knew, and reports are never taken back (`HistoryInv`). Two
  scans are alike because each has read the first readable files in order, as long as nobody
  edited (`RescanInv`: `ReadsInOrder` while it runs, `Current` afterwards); a run began no
  later than it ended, so equal counts of edits mean one tree, and the first so many
  files of a set of numbers are determined by their number (`FirstFilesUnique`). The refinement
  takes `Learning` without reviewers: what happens to a discovery after it is stored is
  that module's own subject.
- **`RateLimitProofs`** (`PoliciesArePositive`, `TicksAreNatural`): `TypeCorrect`, `LimitHolds`,
  `RetryHonoured`. Stamps are not sorted, because threads overtake one another before
  the lock, so the invariant follows each grant from its time to its stamp: the
  bucket is a suffix of the grants, each stamp is at most `Lag` older than the grant
  it stands for, and what was removed had left the window (`GrantsTracked`);
  `RetryTracked` bounds what denied clients were told.
- **`SkillGovernanceProofs`** (`SkillsAreCounted`, `DeploymentsAreFiles`, `FilesHaveStatus`,
  `DecisionsArePairs`, `UnsetIsNoStatus`, `UpdatesAreCounted`): `TypeCorrect`,
  `DecisionsAlwaysStand`, `SelectionsAreStable`, `SelectionsAreWitnessed`. `PendingInv` says what
  a request between its override and its record knows: the override in force, and what every
  other such request for the skill wants, are among what was asked for since it began, so what
  it leaves standing is right. `StampsInv` makes the last record the one that a restart loads.
  `ScanInv` says what a scan has passed over while its plan is not stale, `WitnessInv` what
  it has seen in any case.
- **`GenerationPipelineProofs`** (`RegisteredAreNames`, `NoneIsApart`): `TypeCorrect`,
  `PlansAreSettled`, `CompletionsAreBacked`, `AnswersStayGuarded`, `VerdictsAreEarned`,
  `EveryCallIsAccounted`, and the refinement `KeepsTheContract`. The invariant is per request: what a
  plan may hold at each step (`PlanInv`), that the result is made from the text that is kept
  (`ResultInv`, with `Matches`), that verdicts follow from what was seen (`VerdictInv`), which
  calls have been made by each step (`CallsInv`), that a blocked request goes straight to its
  answer (`BlockedInv`), and which records an answer has (`AnswerInv`).
- **`RuntimeSettingsProofs`** (`RequestsAreChanges`, `DefaultIsKnown`, `RequestsAreBounded`,
  `MissingIsApart`): `TypeCorrect`, `SecretsAlwaysStand`, `SettledFilesAgree`, `ClientStaysCurrent`.
  Three invariants of their own: a credential without trouble has one owner, whose file is
  its own until it is written (`OwnersInv`, `SecretInv`); a request that is alone leaves the files
  as far apart as its step says (`AloneInv`, `AgreeInv`); one reader at a time makes a client, and
  only between its two assignments do client and configuration differ (`ClientInv`).
- **`FeatureFlagsProofs`** (`TimesAreNatural`, `VersionsAreBounded`, `SourcesDiffer`): `TypeCorrect`,
  `AnswersAreThere`, `FlagsStayFresh`, `OutagesAreBridged`. `ClockInv` bounds a call by `Lag`; `CacheInv` says that the
  expiry is at most one lag later than the clock of the call that filled the cache plus the time to
  live, which is where the second lag of `FlagsAreFresh` comes from; `AnswerInv` is what each thread
  has; `StoredInv` and `BeforeInv` say the same of answers that were stored before a call.
- **`ServiceStartProofs`** (`KindsAreKnown`, `SetsOfContainers`, `ReleasesHaveFiles`,
  `SomeReleaseIsNewest`, `BuiltTogether`): `TypeCorrect`, `MigrationsAreInOrder`,
  `SomebodyAlwaysFinishes`, `SchemasFit`, and an action property that
  no run checks, `SchemasAdvance`: the schema is that of the first so many files, and a step
  applies the next one or none. `FilesInv` says that all files
  before the one a container is at are applied; `LocksInv` that no two containers are in the
  transaction of one file; `AheadInv` that some container that began is not behind what it has
  read, so that nothing makes it fail, or has finished; `DoneInv` what a container that waits may
  rely on.

Only model-checked: all liveness (`AckedLeavesCache`, `ApprovalConcludes`,
`RequestsAreAnswered`, `StartsEnd`), which TLAPS does not prove under fairness. Every other
property of a passing run is a theorem.

The proofs asked two things of the models. The order in which a scan takes the files was an
operator for sorting, about which nothing can be proved here; `Orders` now says what
sorted() promises, an increasing enumeration of the set. And `FilesAreNumbered` says that a
disk has finitely many files, without which there is no such enumeration.

## What is not modelled

Texts and their formatting, HTTP, token counting, redaction and the heuristics
of the parser are functions without state, and appear as the choices they may
make. So do the rules of the TypeScript validator: the model says when the worker is
asked and what any of its answers or failures becomes. Authentication is a lookup in a
fixed configuration: modelled requests are those it admits. The API runs as one process
with one event loop, as the container's entrypoint starts it; two API processes would
add a filter and a cache that deletions do not reach. The shadow memory adapter only
logs. Read-only routes change nothing.

- Self-hosted Mem0 start: the route makes four saves and three flags in one request, as the
  requests of `RuntimeSettings` do, writes an environment file and calls docker compose. As one
  more request it has some thirty file steps, and its interleavings with a second
  administrator exceed what the run can explore.
- External secrets are looked up without a cache or any other state; which credential source wins
  is modelled for local files only.
- The OpenAI provider keeps the client it made first; a key that is rotated has no effect on it
  until a restart. No document says when it should.
- Provider mappings are one upsert and its queries, which no route calls.
- RAG ingestion replaces chunks by number, so a shorter document leaves old ones; `PROJECT.json`
  lists the hazard.

## Plan

Done, in this order: unlearning, learning, skill governance, rate limiting, the
generation pipeline, runtime settings, feature flags, runs of learning, migrations and
start; the proofs of all of them. Left:

1. RAG ingestion, beside searches of a generation, and the clients that providers keep.
2. The start of a self-hosted Mem0 as a module of its own, with credentials abstracted to what
   `SecretsStand` promises of them.
