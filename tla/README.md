# A TLA+ model of the Fuse federated query engine

Fuse answers one SQL query from several datasources. This directory keeps a
TLA+ model of the parts of it that hold state, the TLC configurations that check
the model on small instances, and TLAPS proofs of the main invariants for all
instances. `PROJECT.json` links every definition to the lines it models, every
property to a mutant that breaks it, and every hazard of the code to the
properties that would catch it.

Paths below are relative to `src/crates/`; `api.rs` is `fuse-server/src/api.rs`.

- [The system](#the-system)
- [Inventory](#inventory)
- [Modules: state and actions against the code](#modules-state-and-actions-against-the-code)
- [Runs](#runs)
- [Fairness](#fairness)
- [Proofs](#proofs)
- [Where the code disagrees with its documentation](#where-the-code-disagrees-with-its-documentation)
- [Other observations](#other-observations)
- [What is not modelled](#what-is-not-modelled)
- [Plan](#plan)

## The system

A request to `POST /api/fuse/query` runs through one long handler,
`query_handler` (`api.rs:658`):

1. it consults the **result cache**, handles **transaction** statements, `INSERT`,
   `CREATE TABLE AS` and `CREATE MATERIALIZED VIEW` on the spot;
2. it **resolves CTEs**, each executed and registered in the shared connector
   registry under the name of the expression;
3. it **registers** the query with a cancellation token in `RunningQueries` and
   resolves `IN (SELECT ...)` subqueries;
4. it **executes** the query inside a `select!` with a timeout and the token: one
   source, a union of spawned tasks, or a join of two concurrent calls;
5. it removes the query from `RunningQueries`, applies OFFSET, LIMIT and
   **paging**, stores the response in the result cache and answers.

Beside it run other handlers (cancel, view refresh, webhook tests, change
events) and the drain that `main.rs` performs at shutdown.
`refresh_scheduler.rs` has a loop that refreshes views in the background, but
`main` does not start it. Handlers are futures on a multi-threaded runtime.
Between any two critical sections, and at each await, others may act; a client
that leaves drops its handler's future at the await where it stands. These are
the interleavings the modules explore.

    client --HTTP--> query_handler --+-- ResultCache        ResultPaging
                       |             +-- TransactionStore   Transactions
                       |             +-- view registry      MaterializedViews <- CDC
                       |             +-- connector registry CteResolution
                       |             +-- RunningQueries     QueryLifecycle    <- cancel, shutdown
                       v
                     execute_single / union / join          FederatedExecution
                       |  pool statistics, semaphores, timeouts
                       v
                     connectors

`cache.rs` and `circuit_breaker.rs` are written to stand in front of the
connectors (modules QueryCache and CircuitBreaker), but nothing in the server puts
them there: the caching wrapper and the breaker are used by tests and benchmarks
only, so what is shown of them is about these components by themselves.

## Inventory

For each part: its state, what changes it, what makes it hard, what correct means.

| part | state | operations | hard behaviours | correct means |
| --- | --- | --- | --- | --- |
| query lifecycle (`api.rs`) | `RunningQueries` map id to token | register, cancel, remove, disconnect | cancel racing completion; future dropped at an await | a running query can be cancelled, an answered one leaves no entry, every execution ends |
| shutdown (`main.rs`) | stage of the drain | signal, wait, cancel the rest | a deadline against queries that do not end | the server stops |
| federated execution (`api.rs`) | tasks, permits, `PoolState` | call, return, time out, merge, drop | tasks that outlive the query; partial failure | no source lost or counted twice, order kept, pool counts exact |
| CTEs (`api.rs`, `registry.rs`) | shared registry | execute, register, iterate | two queries using one name; names never freed | answers are not mixed, datasources not hidden, recursion ends |
| result paging (`api.rs`, `plan_cache.rs`) | cached response, client's cursor | page, cache, expire | cache, OFFSET, LIMIT and cursor arithmetic together | each row once, in order, and the walk ends |
| connector cache (`cache.rs`) | map, LRU list, byte total | get, put, evict, clear | three structures kept in step at both limits | they agree, limits hold, the least recently used goes |
| circuit breaker (`circuit_breaker.rs`) | state and failure count per datasource | allow, record | reports that arrive after the circuit moved | state matches count, one failure under test reopens, nothing stays open |
| transactions (`transaction.rs`, `api.rs`) | buffered writes per id | BEGIN, write, COMMIT, ROLLBACK | reused ids, partial failure, disconnect mid-flush | stored at most once, never after a rollback, reported as it happened |
| materialized views (`materialized.rs`, `api.rs`, `refresh_scheduler.rs`, `cdc.rs`) | registry of view objects | create, refresh, delete, poll, change events | a view replaced while its query runs | a view shows its query, keeps data through failures, follows the source |
| webhooks (`webhook.rs`) | subscriptions, dead-letter queue | create, delete, test, retry, bury | deletion during a delivery, lost answers, full queue | fires counted, failures kept, deletions final, deliveries end |
| async jobs (`async_query.rs`) | job map | submit, complete, fail, cancel, evict | completion after cancellation; full of running jobs | a terminal status is final |
| deduplication (`dedup.rs`) | in-flight map | check, complete, cancel | leader that never completes | waiters get the leader's result or learn of its end |
| alerts (`alert_monitor.rs`) | rules, active alerts, history (three locks) | evaluate, add, remove, acknowledge | rule removed while it is evaluated | no active alert without a rule, bounded history |
| plan and explain caches (`plan_cache.rs`) | maps with a limit and a time to live | get, put, invalidate | keys built by normalisation; invalidation by substring | a hit is the plan of the query asked |
| change data capture (`cdc.rs`) | event log, dependencies, pending set | ingest, trigger | marks lost between trigger and refresh | no change is forgotten |
| shared state in Redis (`shared_state.rs`) | lists and hashes beside local maps | multi-command updates | several replicas, a failure between two commands | replicas converge, lists stay bounded |
| rate and concurrency limits (`rate_limit.rs`) | semaphores per datasource | acquire, release | drop while waiting | permits are neither lost nor made |
| tenants and quotas (`tenant.rs`) | registry, usage | check, count | check and count apart | a quota is not overrun by more than the requests in flight |
| adaptive tuning (`adaptive_*.rs`) | samples and level per datasource | record, ask | changes while permits are out | level stays within its range |
| scheduled queries (`scheduler.rs`) | schedules, bounded history | tick, run | two ticks in a minute | each due schedule runs once |
| merging and joins (`merger.rs`, `join.rs`) | none (pure) | merge, sort, limit, re-aggregate, join | types that differ, nulls, empty sides | equal to the relational definition |
| translation (`sql_to_subquery.rs`, `ppl.rs`, `build_sub_query`) | none (pure) | push down | a clause pushed to a source that ignores it | source rows filtered at least as the query says after the merge |
| connectors (`fuse-connectors/*`) | mostly none | execute, write | which clauses each honours | result meets the sub-query |
| OTLP store (`otel/src/store.rs`) | ring buffers | ingest, query | full buffers | newest kept, in order |
| streaming (`streaming.rs`, `sse_stream.rs`, `ws_streaming.rs`) | event channel | progress, rows, end | client gone | one end event, after all rows |

The remaining parts (health, history, authentication, GraphQL, plugins, anomaly
detection, text heuristics, telemetry, configuration, load tests, CLI, client
SDKs and the like) are listed in `PROJECT.json` with the reason they are left out.

## Modules: state and actions against the code

Each component module has its state as variables named after the fields they
model, one action per handler step between two points where others can act, and
its properties at the end. Definitions whose comment says "Mutant of X" are
plausible bugs of X, used to confirm that a property notices them; no
specification contains them. `MC...` modules give the constants their values.

**QueryLifecycle** (`api.rs`, `main.rs`). `running` is the map of
`RunningQueries`, `cancelled` the fired tokens, `phase` the position of each
handler, `server` the stage of `shutdown_signal`. `Receive`, `AnswerEarly`,
`Register`, `Resolve`, `Decide`, `Finish` are `query_handler` between its awaits;
`CancelQuery` is `DELETE /api/fuse/query/:id`; `Signal`, `DrainEnds`,
`CancelRemaining`, `Stop` are the shutdown; `Disconnect` drops a handler at an
await. Removal from the map is a step of its own after the `select!`, since a
cancel can come in between.

**FederatedExecution** (`api.rs`, `pool_stats.rs`). What the `select!` awaits. A
single-source query and a join run in the handler's own future and vanish with
it (`Drop`); a union spawns tasks under a semaphore, and these go on
(`TaskCalls`, `TaskReturns`, `TaskPanics`). `Start` takes the set of names the
registry has: a union leaves the others out (`"skipped"`), a single-source query
or a join is refused. The next handle in order is collected (`AwaitHandle`), or
ends the union with its panic (`AwaitPanicked`). `active` is
`PoolState::active`; `merged` and `errors` are the rows and the partial errors
of a union in the order they are collected. A call that times out and a call
that fails are the same step, as they are in the code.

**CteResolution** (`api.rs`, `registry.rs`). `connectors` is the shared
registry. An expression selects from any names (`reads`; `again` for its
recursive part): datasources, other expressions of the query, names that other
queries left behind. A row is abstracted to the name and the query of the
expression that selected it from a datasource and the number of times a
recursive part has been applied to it; a connector also keeps `by`, the query
that registered it. Executing an expression (`PlainCte`, `RecursiveBase`) and
registering its rows (`RegisterGathered`) are two steps, with other queries in
between. `MainQuery` reads the names of the text after the expressions, or of
the whole text when that one has none (`MainNames`), and answers with what the
registry holds under each. `Registered` is `ConnectorRegistry::register`, which
refuses a taken name; `resolve_ctes` ignores the refusal. `Iterate`,
`LastIteration`, `AbandonRecursion` and `LeaveLoop` are the ways round and out
of the loop of `execute_recursive_cte`.

**ResultPaging** (`api.rs`, `plan_cache.rs`). One query text, the cached response
under `format:query`, and a client that follows `next_cursor`. Rows are numbers,
so the skip, take and cursor arithmetic is the code's own. `build_sub_query` pushes
LIMIT and OFFSET into the sub-query; `query.pushdown` says whether the connector
applies none of them, LIMIT, or both (`Delivered`).

**QueryCache** (`cache.rs`). `entries`, `lru` and `total_bytes` are the fields of
`CacheInner`; every method holds the lock throughout and is one action. `newer` is
a history of which key was used after which, kept without looking at `lru`.

**CircuitBreaker** (`circuit_breaker.rs`). `state`, `failure_count` and the age of
the last failure per datasource; requests that were admitted report later, in
any order. The count and the age saturate one step beyond what the code compares
them with.

**Transactions** (`transaction.rs`, `api.rs`). `active` and `writes` are the
store; `commit` holds the COMMIT handlers with the writes they took and still
have to flush, with an await at each. A write is a number of `Batches`, and one
that fails may have stored some of them (`FlushFails`). `Spec` uses the store as
its interface offers (`add_write`); `ServerSpec` is the server as wired, in
which an INSERT is written at once.

**MaterializedViews** (`materialized.rs`, `api.rs`, `refresh_scheduler.rs`,
`cdc.rs`). One name of the registry. Views are objects behind an `Arc`: `objects`
keeps all that were ever made, `current` the one registered. CREATE and the
scheduler look the view up again when their rows arrive, REFRESH keeps the object
it got; the actions differ accordingly. `Next` includes the refresh scheduler;
`ServerNext` is the server as `main` wires it, without one.

**Webhooks** (`webhook.rs`). Subscriptions, calls of `test_webhook` with their
retries, and the dead-letter queue. `received` counts what arrived at the
callback, which differs from what the server learns: an attempt may arrive and
its answer be lost. A delivery for which no HTTP client can be built is `"unsent"`
and becomes a dead letter without an attempt. Retry counters have the width `U32`.

**MCServerStores** puts stores that share no state side by side; `focus`, chosen
initially, says which one a behaviour exercises.

Of the interactions between components, the shared registry is in CteResolution,
the result cache in ResultPaging, the change tracker and the scheduler in
MaterializedViews, and the shutdown in QueryLifecycle. FederatedExecution sees
QueryLifecycle through `Drop`, which may happen at any moment; that covers the
timeout, the cancellation and the disconnect.

## Runs

All are `tlc -workers 2 -config X.cfg M`; the largest takes about a minute.

| run | module, cfg | states | shows |
| --- | --- | --- | --- |
| query_lifecycle | MCQueryLifecycle | 2,448 | a registered query stays within reach of a cancel; an answered one is out of the map; cancels take effect, executions and the shutdown end |
| federated_execution | MCFederatedExecution | 86,944 | pool counts are calls under way plus calls dropped or panicked; a union accounts for every source, in order, and one that fails costs no rows of another; spawned tasks end |
| server_stores | MCServerStores | 148,121 | CTEs: a name holds one selection and all answers read it, datasources are not hidden from queries that do not define their name, resolved names found, resolution ends. Webhooks: fires counted, failures kept, deletions final, deliveries end |
| result_paging | MCResultPaging | 68,727 | no row twice or out of order; pages are the result where `OffsetIsSafe` and `LimitIsSafe` hold; a walk ends unless the page size is 0 |
| query_cache | MCQueryCache | 613 | map, LRU list and byte total agree; new results fit; the least recently used goes |
| circuit_breaker | MCCircuitBreaker | 2,978 | open exactly when the count says so; one failure under test reopens; open circuits recover |
| transactions | MCTransactions | 84,516 | each batch stored at most once, never after a rollback, every write reported as it ended; COMMITs end |
| materialized_views | MCMaterializedViews | 622,784 | views show a query of their name, keep data through failures, follow the source |
| paging_cached, transactions_server, views_create, cte_recursion | see below | | expected violations |

Bounds, and why they are enough:

- Two queries in QueryLifecycle: the handlers meet only in the map and through
  the shutdown, so pairs exhaust their interactions. Three executions, one of
  each kind, on two datasources in FederatedExecution, the union with three
  sources and two permits so that one task has to wait; each may find any subset
  of the datasources registered.
- Two queries with nine texts over three names in CteResolution: no WITH at all,
  recursions over a free name, over a datasource's, joined with a datasource and
  over what another query may have left; chained expressions, a union, a join, and
  texts that cannot be parsed; three iterations and two
  generations of rows, so that both ends of the loop occur (100 in the code).
- Tables of 0 to 5 rows, LIMIT and page sizes around them with 0 among both, the
  three kinds of pushdown, and one request more than there are rows.
- Three keys for two entries and results of one, two and four bytes for a budget
  of three, so that both eviction loops run, alone and together, and a result
  larger than the budget is offered. Three requests and
  a threshold of two in CircuitBreaker, so that reports overlap a trip.
- Three ids, three writes, one of them of two batches, two COMMITs and room for
  two transactions: an id can be reused while its first COMMIT flushes, with the
  store full.
- Two view objects, one request beside the scheduler, two changes of the source;
  two requests in `views_create`.
- Two webhook tests, two subscriptions, a queue of one and a `u32` of three
  values, so that the queue overflows and the retry count wraps.

`MaxTime`, `MaxVersion`, `MaxObjects`, `MaxRequests` and `MaxSubs` bound what the
program does not. Deadlock checking is off in the runs whose clients finish their
work; the query cache and the circuit breaker never stop, and are checked.

## Fairness

Fairness is stated only where the runtime or a timer gives it:

- QueryLifecycle: the timeout of the `select!` fires, a fired token is noticed, a
  decided handler finishes, the drain's deadline passes. Connectors owe nothing.
  `ShutdownCompletes` also assumes that the resolution of CTEs and IN subqueries
  ends: no timer of the handler covers it, and axum waits for open requests.
- FederatedExecution: the calls of unions and joins have a timeout of 25 s, so
  they fail at the latest; freed permits are given to waiting tasks. A
  single-source call has no timeout of its own, and gets no fairness.
- Webhooks: the HTTP client has a timeout, so each attempt ends; a handler whose
  delivery has ended is scheduled. The query before the delivery gets no fairness.
- CteResolution, Transactions: connectors answer, with success or failure. The
  handler sets no timeout around these awaits, so this is an assumption about the
  connectors, and `CtesAreResolved` and `CommitsEnd` are about the handler's loops
  only: they end if every call in them does.
- CircuitBreaker: time passes, admitted requests report, and requests keep coming
  (strong fairness of being admitted: recovery happens only in `allow`).
- MaterializedViews: the scheduler's interval elapses again and again, and a
  query it repeats does not fail for ever.
- ResultPaging: the client goes on.

## Proofs

TLC checks the instances above. The theorems hold for every value of the
constants under the named `ASSUME`s (sets are arbitrary, limits are positive
numbers, queries have well-formed WITH lists), which TLC evaluates in the runs.
`tlapm X.tla` checks a module; there are about 2,100 obligations.

**QueryLifecycleProofs**: `LifecycleTypeCorrect`, `RegisteredQueriesAreReachable`,
`AnsweredQueriesAreUnregistered`. The two facts about the map are not inductive:
nothing in them says that a query which is not registered yet has no entry, so an
early answer might leave one behind. `LifecycleInv` adds `UnregisteredIsUnknown` and
`RejectedIsAnswered`.

**TransactionsProofs**: `TransactionsTypeCorrect`, `CommitWritesOnce`,
`RollbackWritesNothing`, `CommitReportsExactly`, `ActiveTransactionsBounded`. The
argument is that a write is in one place: one position of one buffer or of one
COMMIT's list (`OnePlace`); what waits there has not been written, discarded or
reported (`WaitingIsUntouched`); and a COMMIT has reported, or still has in its
list, what it took (`TakenIsTracked`); and whatever is stored, were it one batch of
a write that failed, is among what some COMMIT has reported or a client has
abandoned (`StoredIsAnsweredFor`). Racing COMMITs of one id are harmless
because `take` moves the buffer, and a reused id begins with an empty one. The
limit on open transactions uses the cardinality theorems for finite sets.

**MaterializedViewsProofs**: `ViewsTypeCorrect`, `ViewsShowTheirQueries`. A REFRESH
holds an object together with its query, and objects never change their query, so
the two belong together when the rows arrive. CREATE and the scheduler hold only
the query; it is the query of an object not newer than the one they find later
(`Grounded`).

**CteResolutionProofs**: `CteTypeCorrect`, `CteAnswersWhole`,
`CteDatasourcesVisible`, `CteResolvedFound`. Expressions read each other's rows and
concurrent recursions over one name do, so what a query gathers may be mixed; the
proof is that nothing mixed gets into the registry. While a name is free, the query
working on it has selections of what is registered and nothing that was read back
under that name; once it is held, `register` refuses whatever is offered
(`Grounded`, `SelectionsAreOne`). Since the registry only grows (`RegistryKept`),
what an answer has read is still there (`AnswersAreHeld`). A configured datasource
holds its name from the start (`DatasourcesHeld`), and the expressions a query has
passed without failure hold theirs (`Resolved`).

**CircuitBreakerProofs**: `BreakerTypeCorrect`, `BreakerTrips`, `BreakerReopens`.
State and count are inductive together; that one failure reopens a half-open
circuit, an action property, follows because the count survives the trip.

Only model-checked: the liveness properties (the prover handles neither fairness
nor ENABLED); FederatedExecution, ResultPaging, QueryCache and Webhooks, whose
invariants sum or fold over data (some are planned, see below); `StaleDataIsKept`.

## Where the code disagrees with its documentation

Four runs end in the violation they expect.

- `paging_cached` (`NoRowTwice`). The result cache is keyed by format and text and
  consulted before the cursor (`api.rs:748`): while the entry lives, page 2 is page
  1 again. The paging test uses a fresh server for each page.
- `transactions_server` (`WritesAreBuffered`). INSERT writes at once and
  `add_write` has no caller (`api.rs:913`), so a ROLLBACK undoes nothing;
  `transaction.rs:4` says writes are buffered.
- `views_create` (`ViewShowsItsQuery`). CREATE MATERIALIZED VIEW looks the view up
  again after its query has run (`api.rs:990`) and may fill a view that has
  replaced it with the rows of the wrong query.
- `cte_recursion` (`RecursiveResultIsRead`). The first working set of a recursive
  expression takes its name in the registry, which refuses the later ones and the
  final result (`api.rs:2879`): the main query reads the base rows only.

`result_paging` and `materialized_views` state what does hold.

## Other observations

Seen while modelling; the models contain them as the code has them.

- A cancel that arrives between the `select!` and the removal from the map is
  acknowledged without effect (`api.rs:1267`).
- The entry of a disconnected client's query is never removed and is listed as
  running (`api.rs:1267`, `3997`). `ShutdownCompletes` holds since the drain has a
  deadline; it then takes all of it.
- Connector calls for CTEs and IN subqueries are outside the timeout and the
  cancellation (`api.rs:1207`), and the drain neither counts nor cancels a query
  that still resolves CTEs (`main.rs:320`).
- A future dropped at its connector call never releases its pool slot
  (`api.rs:1658`), and neither does a task that panics; `PoolIsAccounted` counts
  these leaks exactly. The panic of one task is an error of the whole union,
  whatever the other sources have given (`api.rs:1822`).
- A union passes over a source that is not registered without reporting it
  (`api.rs:1750`), which the bodies of WITH expressions can contain.
- The semaphore of a union belongs to the query, not to the datasource
  (`api.rs:1744`): the per-datasource concurrency does not hold across queries.
- An overwrite in QueryCache skips the eviction and may exceed the byte budget
  (`cache.rs:191`).
- OFFSET is added again to a cursor that contains it (`api.rs:1360`), the connector
  applies LIMIT before the handler applies OFFSET, and a connector that applies
  OFFSET leaves the handler to apply it once more: rows are lost, never repeated.
  A LIMIT that the connector ignores becomes a page size and does not bound the
  walk. `OffsetIsSafe` and `LimitIsSafe` name the queries for which paging is right.
- A page size of 0, given as `page_size` or as a LIMIT 0 that the connector
  ignores, gives a cursor that never moves: such a walk does not end.
- A half-open circuit admits any number of probes (`circuit_breaker.rs:59`).
- `POST /cdc/refresh` reports views as refreshed when it has only marked them, and
  `main` starts no scheduler (`cdc.rs:453`).
- `DELETE /api/fuse/cache` clears the result cache only, not the plan cache.
- `max_retries + 1` wraps for the largest `u32` (`webhook.rs:335`): a release build
  then makes no attempt at all. Delivery is at least once: a received delivery
  whose answer is lost is sent again.
- A COMMIT whose client leaves loses the writes it has not flushed (`api.rs:808`):
  they are out of the store and in no answer.
- A CTE with the name of a datasource reads the datasource, and a CTE name used by
  an earlier query reads that query's rows: temporary connectors are never
  removed (`api.rs:3010`, `3032`).

## What is not modelled

`PROJECT.json` lists every part with its status. Left out for good: wire
protocols of connectors, HTTP routing, SQL parsing (libraries); floating-point
statistics (anomaly detection, quality scores), which TLC cannot compute;
authentication and signing, which are stateless and outside this project's
subject; telemetry and formatting; the client SDKs and the CLI. Not yet modelled,
and planned: the rest of the inventory. Left out inside modelled parts:
incremental refresh by watermark, csv and ndjson responses, reporting counters.

## Plan

Order of work. Stores join `MCServerStores`, each with its own variables and
prefix, as one more value of `focus`.

1. *More server stores*: JobStore (terminal statuses, eviction), PlanCache and
   the explain cache (keys, invalidation), the CDC tracker, the alert monitor
   (three locks), DatasourceLimiter, QueryDedup, tenants and quotas, schedules,
   AdaptiveParallelism, the OTLP ring buffers, result streams. QueryCache and
   CircuitBreaker move there too.
2. *Shared state in Redis*: replicas whose updates are several commands, with
   failures in between; an abstract specification of a bounded list and of a
   table that the replicas are meant to implement, related by INSTANCE ... WITH.
3. *Algorithms against reference definitions over bounded inputs*: merge, sort and
   limit, hash join and its outer variants, re-aggregation of partial
   aggregates, HAVING, pushdown in `sql_to_subquery` and `build_sub_query`, cron
   matching, parameter binding; what each connector honours of a sub-query.
4. *Composition*: the caching connector over QueryCache with concurrent callers;
   AdaptiveParallelism with FederatedExecution; QueryLifecycle with
   FederatedExecution, showing that the composition implements an abstract query
   that is asked, and answered once or dropped.
5. *Proofs*: QueryCache's agreement of its structures, `PoolIsAccounted` with the
   cardinality theorems, `StaleDataIsKept` as an action property, the webhook
   counts, the refinements of 2 and 4.
