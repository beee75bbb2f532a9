# Formal model of opsinsight

opsinsight (`src/src/opsinsight/`) is an MCP server that lets a client search a
PostgreSQL database, CloudWatch and New Relic, read-only. This directory holds
TLA+ modules of the parts of it that are hard to test, the TLC configurations
that check them, and theorems about them checked by TLAPS. Paths below are
relative to `src/src/opsinsight/` unless they start with `docs/`.

## 1. Inventory

### Components

| Component | Source | State it keeps | Operations | Correct when |
|---|---|---|---|---|
| Query admission | `service/database_service.py` | an `asyncio.Semaphore` | enter with a queue timeout, leave | no slot is lost or doubled, calls are served in order, everyone queued gets an answer |
| Database fan-out and pool | `integrations/database/introspect.py`, `engine.py`, `resources/schema.py` | the connection pool, running probes | catalog lookups, bounded gathers of probes | a call stays within its share of the pool, also when it fails or is cancelled |
| Identifier search, store resolution | `introspect.py` | none between calls | rank, deduplicate, cap, probe, merge | live tables are not starved by the cap; an ambiguous store is reported as such |
| CloudWatch Insights queries | `service/cloudwatch_logs_service.py`, `integrations/cloudwatch/guardrail.py` | a query that runs, and is billed, at AWS | start, poll with backoff, stop, answer | nothing is left running that nobody will read; no rows from a query over the ceiling |
| Cross-source trace | `service/trace_service.py`, `trace_sources.py` | a status per source, a thread and its event | plan, search in parallel, time out, merge, fit | always answers, fails only if every source failed, tells the thread |
| TTL cache | `core/cache.py` | entries with expiry | look up, load, store, clear, change TTL | nothing served that is older than promised or belongs to another database |
| Response limits | `core/limits.py`, `_cap_rows` | none | cut cells, keep the rows that fit | the budget holds over all tables, the truncation is reported |
| Guardrails, time windows | `integrations/*/guardrail.py`, `core/time_window.py` | none | validate, clamp, rewrite | limits and windows are never exceeded |
| Redaction | `core/redaction.py` | none | text to text | |
| Request pipeline | `core/audit.py`, `core/rate_limit.py`, `core/app.py`, `core/container.py` | a token bucket, the container and its services | admit, call, audit; find or build a service | one audit event per request with its outcome; one service of a kind |
| Start-up | `server.py`, `core/transport_security.py`, `core/config.py` | none | start or refuse to start | never exposed without a token or consent |
| Doctor | `doctor.py` | none | four checks and an exit code | foretells what the server does with the same settings |
| Clients | `integrations/*/client.py` | cached clients | build once, reuse | |
| Tools, prompts, models | `tools/`, `prompts/` | none | wrappers, texts | |

### How they interact

One event loop runs the MCP server. A `db_*` tool call goes through
`DatabaseService`, takes a query slot, and inside it runs catalog lookups (through
the TTL cache) and SQL on connections of the SQLAlchemy pool. Schema resources use
the same lookups and the same pool but take no slot. `cw_*` tools and the resource
`logs://groups`, which calls one of them, are synchronous: they run in worker threads
and block in boto3. `trace_request` starts a search in
each source at once: New Relic and the database as coroutines on the loop,
CloudWatch as a thread with a `threading.Event` to tell it to stop. Clients may
cancel a call at any moment. Around all of this stands the middleware: the audit
outermost, then the rate limiter. Tools ask the container of the process for their
service; those on the loop do so one after the other, those in threads at any time.

### What is hard

Interleavings of tasks, timers and cancellations around the semaphore; failures in
the middle of a gather; a thread that cannot be cancelled and a remote query that
goes on without it; answers made of the last poll about a query that has moved on;
timeouts racing answers; answers that had to leave something out and must say so;
one decision taken twice, by the trace and its sources or by the doctor and the
server, from the same inputs. `PROJECT.json` lists the hazards one by one with their
lines and the properties that watch them.

## 2. Modules

| Module | Models |
|---|---|
| `BoundedAdmission` | abstract: what a caller may rely on, at most `Slots` inside |
| `QuerySlots` | `DatabaseService._query_slot`: semaphore, `wait_for`, `finally`; implements `BoundedAdmission` |
| `QuerySlotsProofs` | theorems about `QuerySlots` |
| `DbFanout`, `MCDbFanout` | what a call does with its slot: gathers of jobs on the pool; uses `BoundedAdmission` for the slot |
| `DbFanoutProofs` | theorems about `DbFanout` |
| `InsightsQuery`, `MCInsightsQuery` | `run_insights_query`, `poll_query_with_backoff` and the query at AWS |
| `InsightsQueryProofs` | theorems about `InsightsQuery` |
| `ScatterGather` | abstract: what `trace_request` promises its caller |
| `TraceRequest`, `MCTraceRequest` | `TraceService.trace_request`; contains an `InsightsQuery`, implements `ScatterGather` |
| `TraceRequestProofs` | theorems about `TraceRequest` |
| `TtlCache` | `ttl_cache` around the catalog lookups of `introspect.py` |
| `TtlCacheProofs` | theorems about `TtlCache` |
| `DbAnswers`, `MCDbAnswers` | what the row-returning `db_*` tools say: targets, limits, budget, redaction, notes |
| `DbAnswersProofs` | theorems about `DbAnswers` |
| `TraceTimeline`, `MCTraceTimeline` | what `trace_request` puts on its timeline: windows, limits of the sources, the fit |
| `TraceTimelineProofs` | theorems about `TraceTimeline` |
| `RequestPipeline` | middleware, threads and the container, for concurrent requests |
| `ServiceProcess`, `MCServiceProcess` | the process: doctor, start-up, and `RequestPipeline` once it serves |
| `ServiceProcessProofs` | theorems about `ServiceProcess` |

### QuerySlots

An action is one stretch of a task between two awaits, or one callback of the
loop. `value` is `Semaphore._value`; `pc` says where each call is; `ahead` is the
order of the deque; `cause` remembers whether a timer or the client cancelled an
acquire. The states that matter lie between the resolution of a future and the run
of its task: `granted` (a release resolved it), `expired` (its timer or client
cancelled it), `revoked` (cancelled after the grant). `AcquireNow`, `Enqueue`,
`ResumeGranted` and `ResumeInterrupted` follow `asyncio.Semaphore.acquire` of Python
3.13, `Release` its `release`; both are library code, modelled as the code uses
them and marked external in the map. `Finish` is the body of `async with
self._query_slot()` ending in any way, and the `finally`. `RejectSql` is the
guardrail check that `explain_query` and `run_query` make before they ask for a
slot. `impatient` says that `DB_QUEUE_TIMEOUT_S` is 0: `wait_for` then cancels
`acquire` before its first step (`RefuseAtOnce`).

### DbFanout

A call's plan is a sequence of gathers; a gather has jobs, a concurrency limit and
may be answered by the cache. Jobs are counted by place: `queued` for the inner
semaphore, `waiting` for a connection, `using` one, `closing` it after a
cancellation. `fate` tells how the call stands. `JobFails` and `PoolTimeout` raise
out of the gather: the slot is freed and the other jobs stay, as `asyncio.gather`
leaves them. `Cancel` cancels every job; the call ends when the first of them is
gone (`EndCancelled`), the others may still be `closing`. `BeginRead` is a schema
resource, which has no slot. `Connections` numbers the connections that are out by
task; `PoolSized` says what the sizes must be for a burst to stay off the pool.

### InsightsQuery

`pc` walks through `poll`, `sleep`, `judge`, `done`; `seen` is the last poll;
`turn` and `elapsed` count delays of the schedule and time. `remote` and `scanned`
are the query at AWS: it runs, scans, ends or is stopped by somebody else between
any two steps of the thread. Every call to AWS may fail, and a failed StopQuery may
still have worked; the history variable `failed` records that it happened. `caller`
is a tool (which hands the `query_id` of a running query to its client) or a trace
(`stop_if_running` and an event). The four `Answer...` actions are the ends of
`run_insights_query` in their order in the code. A status that the code does not
know as running, `Unknown` among them, is to it that of a query that has ended, and so
it is in the model (`EndStatuses`).

### TraceRequest

`status` is the status of each source, `reply` the call's answer. `TimesOut` drops
the thread's future at once but waits for a cancelled coroutine to wind down
(`stopping`, then `WindsDown`), as `asyncio.wait_for` does. Every way out of
`_run_bounded` sets the event. The thread and its query are the actions of
`InsightsQuery`, through an `INSTANCE`; `ThreadIsInsightsQuery` says that they stay a
behaviour of it among all the others.

### TtlCache

One cached function. What a lookup returns is represented by the arguments and the
database it was made with (`from`) and the moment it was true (`asOf`). A call picks
the cache, looks for its key and, on a miss, starts to load without an await in
between: `Hit` and `Miss` are one step each, `Loaded` the write after the await. When
the TTL has changed, `Look` replaces the cache, and the loads under way belong to
the old one from then on (`old`): what they write is seen by nobody. `cache_clear`
empties the cache in place, so that a load under way stores what it read before.
Which entry makes room for another is left open. `newest` is a history variable.

### DbAnswers

One call of `db_search_by_identifier`, `db_resolve_store`, `db_run_query` or
`db_sample_rows`. `Find` is all of `search_by_identifier` up to the gather: the
catalog may return any columns, which are ranked, deduplicated and capped in one
step, as no await lies between. `Answered` and `Skipped` are the end of one
`_search_one`, in any order; `Fail` is every error that ends the call. `Return` is
the rest of the tool, `_cap_rows` included: `Left` is the budget that remains after
each target. The answer's `matches` map a target's position to its rows. Tables are numbered in the order of
schema and name; `Columns` has the key of a table and its column named like the id
type. A row is its size and, for a store lookup, the id in it with whether it is
text. Whether `validate_sql` accepts a statement is a choice of the caller's
(`ask.allowed`): what it looks for is text processing. `held` is a history variable:
what the database had, so that the properties can compare it with the answer.

### TraceTimeline

Time is counted in ticks below a millisecond, so that the flooring to seconds
(CloudWatch) and milliseconds (New Relic) loses something. `Begin` is the part of
`trace_request` before the gather, each of the five answers a search with its
`collect`, `Merge` `_fit` and the note. `log` is what the sources hold. A query that
completes gives at most `LimitAt` of what matches, in the order it asks for
(`Preferred`), which New Relic's does not. An Insights query that is stopped gives
nothing and counts neither as failed nor as ok; one that ends `Failed`, `Timeout` or
`Unknown` gives what it has, and counts as ok (`CloudWatchBreaksOff`). A database search
leaves targets out (those beyond `MAX_SEARCH_TARGETS`, those whose probe is skipped),
limits the rows of each of the others, and then fits them, target by target, to one
byte budget (`FitsBudget`); of all this its `collect` passes on that the budget cut
something (`told`). `unread` is a history variable: the events that an ok source did
not read or give without a sign of it in the answer. A row has the size of its event,
which in the code is a little larger. A database row has two time columns, of which one may be chosen to order by
(`pick_time_column`, by name and type) and another to date the row with (`_row_time`,
by value). When sources answer, time out or are cancelled is left to `TraceRequest`.

### RequestPipeline and ServiceProcess

`ServiceProcess` extends `RequestPipeline`: one starts, the other serves. What a call does depends on its kind:
`Service` is the service it works with, `PlainFunctions` are the kinds declared with
`def`, which run in a thread: the `cw_*` tools, `logs://groups`, and the prompts and the
cookbook, which need no service. Schema resources read the catalog on the loop, without
a service. The errors of resources are text to the audit (`ErrorsAsText`). A request
walks through `Chain`, the middleware from the outermost in, and `Leave` unwinds it.
`get_container` and the properties of the container are taken apart into the reads
and writes a thread may be stopped between (`Look`, `Make`, `Have`, `Find`, `Build`,
`Fetch`); a coroutine takes these steps without letting another coroutine in
(`LoopFree`), while threads may run between any two. A container is named by the
call that made it. The trace service is built on the loop from the services of its
container, and `trace_request` counts as a tool of the database; that it also builds the
other services, and that CloudWatch has one for logs and one for metrics, is left out. What the doctor finds of
the services is open; what it says of the server's exposure and what the server then
does are both computed from the same settings, as the code does.

## 3. Runs

| Run | Configuration | Shows |
|---|---|---|
| `query_slots` | 3 callers, 2 slots, a timeout of 0 and a positive one, callers call again for ever | all properties of `QuerySlots` |
| `db_fanout` | a search (2 cached lookups, 1, then 3 probes 2 at a time), a store resolution, a resource read; 1 slot, 3 connections | all properties of `DbFanout`; `BurstStaysOffPool` says that the pool is exhausted only by what failed or cancelled calls left |
| `db_fanout_orphans` | three calls, 1 slot, 4 connections, queries fail | violation, section 5 |
| `insights_query` | schedule 1, 2, 2, 2, budget 6, ceiling 2, at most 4 bytes | all properties of `InsightsQuery` |
| `insights_ceiling`, `insights_faults` | the same | violations, section 5 |
| `trace_request` | 3 sources, schedule 1, 2, 2, budget 4, ceiling 1, at most 2 bytes | all properties of `TraceRequest` |
| `trace_failed_search` | the same | violation, section 5 |
| `ttl_cache` | 2 callers, 1 lookup on 2 databases, room for 1 entry, TTL 1 or 3, a lookup takes up to 2, the clock runs to 5 | all properties of `TtlCache` |
| `db_answers` | tables 1 (historical) and 2 (live) with two columns each, 2 targets, 2 rows, cells of 4 bytes, budget 8, limits -1, 0, 1, 3 and none; up to 3 rows in a table | what a call leaves out, its answer says |
| `trace_timeline` | 3 sources, up to 3 of 10 events, rows of 2 targets, seconds of 2 milliseconds of 2 ticks, windows given, defaulted and at the caps; at most 2 events and 4 bytes, 2 rows of a target and 4 bytes of rows | the window's events come first, none vanish uncounted or unexcused, no source refuses the window |
| `service_process` | 3 requests of any kind, 36 settings: every exposure of the HTTP server, services configured and half configured, every transport, no limiter or one of 1 request | one audit event each, one database service, what the doctor foretells |

Why the bounds are enough: with three callers and two slots a call can be queued
behind another queued call while a slot is released twice and a newcomer arrives,
which is every situation `_wake_up_next` tells apart; the proofs cover all other
sizes. In `db_fanout` the demand of one call and the read is exactly the pool, so one
connection more, or one job left behind, exhausts it. The budget of `insights_query`
ends in the middle of a delay (the `min` in the loop) and the schedule is one delay
longer than needed; a budget above the sum of the schedule, where polling ends early, is
not in the run but in the theorem `PollsWholeBudgetHolds`, which is for any of both. The
ceiling can be passed before, at and after the last poll.
Bounds on state are `Volume` (bytes a query scans) and the finite plans; nothing
else is capped but the clock of `ttl_cache` (`Horizon`), and no state constraint is
used. In `ttl_cache` two databases compete for one entry, the longer TTL outlives the
shorter by a lookup, and two lookups fit, one after the other and overlapping,
before the clock stops. In `db_answers` the targets exceed the cap by enough for a rank
to be cut in its middle, and a row may be too large for a cell, for the budget, or
only for what an earlier table left of it. In `trace_timeline` the two guardrails have
different caps and one of them is a single tick from being exceeded; each limit of a
source, the byte budget of rows and that of the timeline cut events of the window in
some of its states. Three requests
are two that make a container each and one that finds either.

Deadlock is checked in every run; `Terminated` marks the states in which
everything is over.

### Fairness

- `QuerySlots`: the loop runs timers and resolved futures. Nothing is assumed of
  the queries, so `EveryWaiterAnswered` holds with all slots held for ever.
- `DbFanout`: queries end (`statement_timeout`, set on every connection by
  `engine.py`) and the loop runs what can run. The pool's own timeout is not needed.
- `InsightsQuery`: AWS calls return or fail (boto3 has timeouts) and delays pass.
  The query may run for ever.
- `TraceRequest`: timers go off, a cancelled coroutine winds down, the loop merges,
  the thread makes progress. No source is assumed to answer.
- `TtlCache` has safety properties only. That a lookup takes at most `MaxLoad` is a
  guard of the clock: connections and statements have timeouts.
- `DbAnswers`, `TraceTimeline` and `ServiceProcess` have safety properties only: each
  looks at what is said once an answer is given, and that it is given is the subject
  of the modules above.

## 4. Proofs

All are for any value of the constants under the modules' assumptions (finite
callers, natural bounds, non-empty plans, positive delays).

- `QuerySlotsProofs`. `IInv` is type correctness with the permit count, the order of
  the deque (`DequeOrder`), `GrantsOldest` (a granted call has no pending one ahead
  of it) and `NoLostWakeup`. `PermitsConserved` is not inductive alone: a wakeup
  hands out several permits at once, and that there are enough follows from the
  shape of the deque. From `IInv`: `TypeOK`, `PermitsConserved`, `NoLostWakeup`, the
  action properties `FirstComeFirstServed` and `IdleServiceAdmits`, and the
  refinement of `BoundedAdmission`.
- `DbFanoutProofs`. Type correctness of the counts, `ConnectionsPerCall`,
  `EndsClean`. Part of the invariant, and a theorem of its own, is `SlotMatchesFate`: a
  call holds its slot exactly while its task is awaited. The count of active jobs is
  bounded by the limit of the gather a task is in, which needs that a task moves to the
  next gather only when it is idle. `FanoutRefinesAdmission` carries the bound on the
  slots over from `BoundedAdmission`. `BurstStaysOffPool` then counts connections: while
  nobody that is over left jobs, every one that is out or asked for belongs to a share of
  `Slots` times the fan-out, or to a resource read (`ShareSize`, `DemandInShare`), and a
  job that waits is in the share without a connection, so the ones that are out are fewer
  than the pool (`RoomInPool`). Its hypothesis is `PoolSized`, which TLC evaluates on the
  runs. The defaults meet it with up to three resource reads at a time: 4 slots times 3
  probes are 12 of the 15 connections SQLAlchemy opens. With more reads, or a larger
  `DB_MAX_CONCURRENT_QUERIES`, nothing of the kind is claimed.
- `InsightsQueryProofs`. `LastPollFinal` links what the thread saw with what the
  query is: a poll that saw it ended saw all of it, because an ended query does not
  move. With `Started` and `Answered` this gives `NothingLeftRunning` and
  `RowsWithinCeiling`. `PollsWholeBudget` rests on `BudgetInv`: the time spent is the sum
  of the delays so far, or the whole budget where that is less. The sum is a recursive
  function; that it exists is `TotalDefined`, that it grows is `TotalGrows`.
- `TraceRequestProofs`. `ThreadTold` needs that the CloudWatch source never passes
  through `stopping`; the refinement of `ScatterGather` needs that `abandoned` only
  appears in an answered call. `ThreadRefinement` maps every step to one of the thread,
  of AWS or of the event, or to none: the event is set and never cleared. So what
  `InsightsQueryProofs` proves carries over to the query in a trace, through an
  `INSTANCE`: `TypeCorrect` and `QueryEndsWithThread`.
- `DbAnswersProofs`. `Picked` says that the targets are the leading part of a sequence
  in rank order of all that was found; it has all of it, because an injection of a
  finite set into one of its size is onto. `ProbesOK` says what the rows of a probe
  are taken from, and `Seen` that within the limit nothing is left of it. The ids of
  stores are assumed not to be what the redaction writes (`RowsAssumption`). For
  `NoSilentMiss`, `IInv` keeps what a probe saw beside what the table held: a limit never
  turns rows into none (`RowLimitPositive`, `SeesSome`), and whatever an answer shows
  less of than was fetched, it says so (`LeftOut`). `HonestCap` needs that `Fitting` is the
  longest leading part that fits (`FittingOf`), and that at every target what has been
  shown and what is left add up to the budget (`ShownAndLeft`). `StaleRowsMarked` needs
  that the rows shown are of targets with rows (`HeldIsMatched`, `LeftOut`).
- `TraceTimelineProofs`. `FoundOK` says of each source that what it read it gave, unless
  it is excused (`Excused`), `ReplyOK` ties the answer to the fit of what was found. What is
  kept is a lower part of the order, as an event before a kept one has a smaller position;
  the order puts the window first, which is `WindowFirst`. `NothingVanishes` adds that what
  is not kept is counted, and that what a source did not give has an excuse: a set of as
  many elements as the finite set it is part of is that set, so what a limit leaves out
  shows that the limit was reached (`LimitExcuses`); what the byte budget cuts shows that
  the database says so. `SourcesAcceptWindow` is arithmetic of rounding to milliseconds
  and seconds, with caps that are whole seconds and milliseconds.
- `TtlCacheProofs`. `Lineage` bounds the age of every entry against its own expiry
  and against `newest`, and orders the loads of replaced caches before everything
  in the present one: without the last part, an answer of such a load could be
  newer than the present entry by any time. From it: `TypeOK`, `Lineage`,
  `OwnDatabase`, `FreshEnough`, `GoesBackOneLoad`. `Lineage` itself is not among the
  properties of the run: it is the strengthening, not a promise of the code.
- `ServiceProcessProofs`. `DoctorForetells` compares two computations from the same
  settings, so its invariant (`DoctorInv`) says what a verdict was made from: the
  results come in the order of the four checks, the last of them the server's.
  `OneDatabaseService` rests on `ServiceInv`: a container is named by a call that
  missed (`OwnerInv`), a coroutine that read the container as missing is the only one
  on the loop until it has set it (`LoopInv`), and a service once built stays
  (`DatabaseInv`). So of two different containers one was made in a thread, by a CloudWatch
  tool or by `logs://groups`.
  `AuditedOnce` needs that a request is inside of the audit from its first middleware
  on, and that the chain and the identity do not change while requests are under way
  (`AuditInv`).

What a recursive function computes (the schedule's sum, the bytes of rows, the budget left)
is proved without an induction theorem, because those take an operator as a parameter:
`UpTo` says, for a set of numbers, that it has every number up to a bound if it has 0 and
with each number the next, and follows from the least element (`LeastElement`) of what is
missing. Applied to the set of `n` up to which a function with the right equations exists,
it shows that the recursive definition has a value at all; applied to the set of `n` for
which a fact holds, it proves the fact.

Only model-checked: the seven liveness properties (`EveryWaiterAnswered`, `SlotComesBack`,
`OrphansDrain`, `ThreadEnds`, `CancelStopsQuery`, `AlwaysReplies`,
`NoQueryOutlivesTrace`), because fairness needs ENABLED, which the prover does not
handle. Every invariant and action property of the passing runs, and all three refinements
they check, are theorems. The four properties of section 5 that fail are, of course, not.

## 5. Where code and documents disagree

Shown by a run:

- `db_fanout_orphans`: `database_service.py:51` promises that a burst does not queue
  on the connection pool. A failed probe frees the slot while its siblings go on.
- `insights_faults`: `docs/design.md:174` promises that a query still running is
  stopped. After one failed GetQueryResults it is forgotten.
- `insights_ceiling`: `docs/design.md:283` promises a report when the ceiling is
  exceeded. A query over the ceiling is still running at the last poll and ends before
  the StopQuery, which AWS then refuses: the report is replaced by an AWS error.
- `trace_failed_search`: `docs/design.md:174` promises that a failed source is
  reported. A query that ended `Failed` or `Timeout` at AWS is reported `ok`, no rows.

Noticed while modelling, with no run of their own:

- `config.py:32` speaks of further calls that wait and are then refused. With
  `DB_QUEUE_TIMEOUT_S=0`, `wait_for` cancels `acquire` before its first step, so every
  call is refused with `server_busy`. `IdleServiceAdmits` states exactly this exception.
- `CW_POLL_MAX_WAIT_S` above 71.5 s, the sum of the schedule: polling ends early
  (`guardrail.py:107`: "until ... max_wait_s elapses"). `PollsWholeBudget` states exactly
  this exception.
- A query stopped in the AWS console is answered "The caller stopped waiting"
  (`cloudwatch_logs_service.py:312`).
- `get_container` (`container.py:101`) tests and sets without a lock. A `cw_*` tool or
  `logs://groups`, in a thread, and any other call can make a container each, and then there are two
  `DatabaseService`s with a semaphore each, although "the container keeps one per
  process" (`database_service.py:52`). `OneDatabaseService` states exactly this exception.
- The audit event of a cancelled call has no outcome (`docs/design.md:433` knows ok,
  rejected and exception).
- The ceiling is compared only after polling is over (`docs/design.md:283`: "abort").
- "Its query was stopped." (`trace_service.py:188`) is said before the thread is told.
- The audit event of a resource that failed says ok, because `resources/schema.py` and
  `resources/logs.py` answer with the text of the error.
- The doctor passes an empty or short token that the server refuses or ignores, fails
  hosts such as `127.0.0.2` or `[::1]` that the server takes for loopback, and judges
  the exposure of HTTP also when the transport is stdio. It passes CloudWatch with
  "none matched" groups, and counts a group twice when another is its prefix.
- `db_resolve_store`: ids are compared after the redaction, so that two different ids
  that look like telephone numbers are one; a second store beyond `DB_MAX_ROWS` is
  not seen; the cap of 25 targets is alphabetical; and there is no byte budget,
  although `limits.py:1` speaks of "every row-returning tool".
- The freshness note is made before the byte budget: live rows may be cut away and
  stale ones shown without it, though the answer then says that it was truncated.
- A window shorter than a millisecond is accepted by `trace_request` and refused by the
  guardrail of New Relic. CloudWatch's flooring to seconds returns events from before
  the window and misses those of its last second.
- The database search of a trace passes on neither `skipped` nor the `truncated` of
  `MAX_SEARCH_TARGETS` (`trace_sources.py:275`): rows of tables that were not read are
  missing from a timeline whose database source is ok. With the query of
  `trace_failed_search`, these are the events `NothingVanishes` excepts as `unread`.
- The rows of a table are limited to the newest, whatever the window: newer rows from
  after the window can push out those inside it.
- A source at its own limit cuts events without `truncated` (`newrelic_service.py:164`:
  "Every `event_type` event"; the fake of `trace_service_test.py:267` has no limit). New
  Relic is not told which to give.
- A first event larger than the budget empties a timeline, and a database row whose
  preferred time column holds text counts as undated.

## 6. Plan

Done: admission, fan-out, Insights queries, trace, TTL cache, answers, timeline, request
pipeline and start-up, each with its proofs. What could follow:

1. The doctor's probes against sources that fail in the middle of a check.
2. Assumptions that are the settings' own ranges, so that `PoolSized` is read off
   `config.py` instead of being a hypothesis.

## 7. Not modelled

- What the guardrails accept: SQL by its parse tree, NRQL and Insights queries by regular
  expressions. The decision is a choice in the models, what is clamped is modelled.
- The redaction patterns and the masking of secrets in logs and reports: text to text.
- The tools that are one request without state and without a decision about it: CloudWatch
  metrics, `list_log_groups`, `filter_events`, `describe_log_fields`, `describe_table`,
  `list_tables`, New Relic's event types and fields.
- Prompts, the query cookbook, data classes and messages: texts.
- Host and origin checks and the verification of the bearer token: FastMCP does them per
  HTTP request, and a request that fails them never reaches the middleware modelled here.
