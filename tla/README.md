# TLA+ models of hlpp_l0_contracts

This directory models the behaviour of `hlpp_l0_contracts`, the package of
contracts and primitives under the HLPP data layers: clients, retry loops, an
LLM provider chain with its budget and its usage log, the stamping of bronze
rows, and the checks builders make before they write. Paths are relative to
`src/hlpp_l0_contracts/` unless they start with `docs/`, `tests/`, `README.md` or `CHANGELOG.md`.

Run a model with `tlc -config <Run>.cfg <MC module>` and a proof with
`tlapm <Module>_proofs.tla`; the table under Modules names them.

## Inventory

The package is a library. It has no process of its own: its concurrency is that
of the threads and asyncio tasks of its callers, its failures are those of the
services and databases it talks to, and its state lives in client objects, in
one `lru_cache`, and in rows on their way to a table.

| Component | State | Operations | What is hard | What makes it correct |
|---|---|---|---|---|
| LLM usage log, `llm/usage.py` | `_pending_usage`, the open session, table `ai_usage` | `log_usage`, `log_response`, `flush_usage` with and without a bind, `daily_budget_summary` | a failure or crash between any two statements, a commit whose answer is lost, a caller's transaction, another thread that logs or flushes; midnight | nothing logged is lost silently or stored twice, it gets stored in the end, and is counted on one day |
| Provider chain, `llm/provider.py` | the provider asked, attempts, partial answers | `complete`, `translate`, `embed` | retries, fallback half-way through an operation, cancellation | strict order, bounded attempts, one provider's whole answer, cancellation is final |
| Budget guard, `llm/budget.py` | `_daily_total_usd` | `check_call`, `reset_day` | threads between check and assignment, NaN, a restart, another idea of the day than the log's | the cap holds, and the summary of a day shows no more than it allows |
| Browser client, `browser_fetch.py` | attempts, the connection | `render`, `render_html`, `render_json`, `health` | the service's queue and limits against the client's timeout; hangs, resets | no timeout without a hang, one render per call, only refusals are retried, every error is in the hierarchy |
| HTTP client, `http.py` | the retry state | `get`, `post` | lost answers, windows of refusal, clock skew | waits are honoured, effects are bounded, it gives up at the last attempt |
| Collector and stamping, `collector/base.py`, `stamping.py` | the `RawArticle` objects, stamped in place; frames | `collect`, `stamp_for_bronze` | a failure half-way, objects and frames stamped again | complete rows, stamps that stay, hashes of the payload |
| Idempotent insert, `idempotency.py` | the bronze table | `idempotent_insert` | retries and restarts of the writer | one row per payload |
| Builder gate, `git_meta.py`, `validators.py`, `schemas/base.py` | the cache of `git_commit_hash` | `git_commit_hash`, `git_dirty`, `validate_normalized`, `validate_computed` | HEAD moves under a process, threads miss the cache together, git fails | versions are those built from, dirty trees are refused, right frames accepted |
| Backfill check, `backfillable.py` | none | `backfillable_check` | the calendar turns during a call; rows without a date column | true backfills pass, re-stamped ones do not |
| Skip rows, `source_status.py` | none | `emit_skipped_row` | its rows share one content_hash, or take that of a real row | a row says what happened to its source |
| Sources, `sources_config.py` | none (the file) | `load_sources_yaml` | one malformed entry, edits between runs | no source that is on drops out of a run unnoticed |
| Declarations: `schema/`, `schemas/`, `protocols/`, `universe/` | none | validation and loading | - | - |

The components meet in the programs that use them. A caller asks the guard,
calls the chain, and logs the response (`AIUsage.log_response` takes the
`AIResponse` of the chain). A collector fetches with one of the two clients,
stamps what it got, and its writer inserts it; which sources it visits is in
`sources.yaml`, and a source it skips gets a row of `emit_skipped_row`. A builder asks `git_meta`, builds
a frame, and passes it through a validator. `backfillable_check` wraps a
collector's method.

Everything in this code that a test would hardly reach is listed, with the line
where it bites, under `hazards` in `PROJECT.json`.

## Modules

| Module | Models | Checked by | Proofs |
|---|---|---|---|
| `UsageLedger` | what the usage log promises about one record | through `AIUsage` | |
| `AIUsage` | `llm/usage.py` | `MCAIUsage` | `AIUsage_proofs` |
| `Failover` | what a fallback chain promises its caller | through `ProviderChain` | |
| `ProviderChain` | `llm/provider.py` | `MCProviderChain` | `ProviderChain_proofs` |
| `CostBudgetGuard` | `llm/budget.py` | through `LLMSpend` | `LLMSpend_proofs` |
| `LLMSpend` | `CostBudgetGuard` composed with the log, the flushes and `daily_budget_summary` of `llm/usage.py`, and the threads around them | `MCLLMSpend` | `LLMSpend_proofs` |
| `BrowserFetch` | `browser_fetch.py` and the service behind it | `MCBrowserFetch` | `BrowserFetch_proofs` |
| `HttpClient` | `http.py` and a rate-limited server | `MCHttpClient` | `HttpClient_proofs` |
| `Bronze` | `collector/base.py`, `stamping.py`, `idempotency.py` composed, with the writer around them | `MCBronze` | `Bronze_proofs` |
| `Sources` | `sources_config.py`, `source_status.py`, `idempotency.py` composed, with a crawler around them | `MCSources` | `Calendar_proofs` |
| `Builder` | `git_meta.py` and `validators.py` composed, with the builders that call them | `MCBuilder` | `Builder_proofs` |
| `Backfill` | `backfillable.py` | `MCBackfill` | `Calendar_proofs` |

The line ranges each definition stands for are in `PROJECT.json` under `map`.
Each module has a section of wrong versions of its own steps (`...Twice`,
`...Early`, `...Keeps`): mistakes the code could make, each of which one of the
properties catches when it takes the place of the right step. They are no part
of the specifications.

### AIUsage

`pending` is `_pending_usage`; `flush` is the statement of `flush_usage` that
comes next, with the rows it copied and whether it opened its own session;
`txn` is the open transaction of a caller who passes a bind; `db` is the table.
Both count rows per record, since nothing in a row identifies it. One action per
statement that can fail: `FlushBegin` (copy, l. 239-257), `ExecuteOK` and the
two failures of the insert (257-261), `CommitOK`, `CommitFail`, `CommitUnacked`
(262-266; the last is a commit whose answer is lost), `ClearPending` (268-270).
`CallerCommit`, `CallerRollback` and `Crash` are the surroundings. A failed insert
through a bind leaves what either database leaves: SQLite the rows before the
failing one in the caller's transaction, PostgreSQL a transaction that can only be
rolled back (`ExecuteFailBound`). Another thread may log at any time, also while a
flush runs; a record for which neither the call nor the log names a task (`Taskless`)
is refused before anything changes (213-215). `logged`, `window`, `dropped`, `doubtful`,
`acked` record what happened, for the properties.

`UsageLedger` is four phases per record: new, held, stored, lost. A batch is
stored in one step. `LedgerSpec` maps each record by where it is; copies, queue,
flush and sessions are gone from it.

### ProviderChain

One call: `at` is the provider of the chain's loop, `step` whether the call is
at the head of the loop, about to send, waiting, or asleep between attempts;
`posted` the attempts of the current POST and `answered` the POSTs of this
provider that returned, `vectors` what they brought. A Local provider appends one
vector per answer, whatever is in it; an OpenAI-compatible one returns as many as
its answer has objects (`Vectors`, l. 279-280). `Posts` says how many POSTs an operation takes (one, and
one per text for Local's `embed`, l. 341-352). Answers of a provider are
`Answered`, `Retryable` (timeouts, transport errors and the retryable statuses,
l. 61-64; the provider may have worked on the request) and `Fatal` (other
statuses, bodies that are no JSON object, unexpected data). `TimedOut` is the one
`Retryable` failure that is sure to come, by the timeout of l. 72 and 96. `Cancel` is
the caller's cancellation in any await. Calls share nothing but the HTTP client,
so one call shows every interleaving. `Failover` knows only how many providers
have been given up and how the call ended.

### BrowserFetch

`step` follows one call per client through the client's code and the service:
`send`, `queued`, `rendering`, `replying`, `backoff`, `idle`. Time is discrete;
`waited` is the time since the POST, `stage` that since the current step began,
and `Tick` may not let a live service break its limits (`ServiceOnTime`: the
queue, render and overhead limits in the comment on `DEFAULT_TIMEOUT_S`).
`Timeout` is the client's, at `ClientTimeout`; httpx limits each read, and as
the service sends nothing before its response, that is the wait for the
response. A client that goes leaves its render behind in `orphans`. `Parse` and
`ParseHealth` map a response to a result or an error of the hierarchy, with the
`fetch_ms` it keeps; `unwrapped` is an exception outside the hierarchy.

### HttpClient

`step`, `attempt`, `answer` and `sleep` are tenacity's retry state. The server
closes for windows of refusal and announces them in `Retry-After`, as seconds or
a date; `told` is what is left of the wait, by the server's clock, and the
client's clock is `Skew` ahead. A request may be carried out and its answer
lost, or be carried out after it was given up (`stray`): by httpx's timeout
(`Timeout`, retried) or a broken connection (`Break`, not retried). A wait that `time.sleep`
refuses (`inf`, a date in the year 9999) is the form `endless`: its OverflowError
ends the call (`Endless`, `Decide`).

### CostBudgetGuard

`next` is a thread's `next_total` between the comparison and the assignment;
`raced` remembers that two threads were in the guard at once since the last reset.
Caps and estimates are natural numbers or NaN; no comparison with NaN is true, and
every sum with it is NaN (`Above`, `Plus`). A cap left unset is infinite in the
code and NaN here: neither ever refuses. `Restart` is a new guard in a new process.

### LLMSpend

Threads that ask the guard, call a provider, log the response and flush; they are
external. A call may cost any of `Costs`, whatever its estimate was: `log_usage` takes the
cost of the tokens used (`llm/usage.py:164-237`), and the guard, which counts estimates,
is never told it (`llm/budget.py:44-59`). `log` has each record with its time and
cost, and, for the properties, the guard's `period` (resets and restarts) it was
admitted in and its `excess` over the estimate (`Beyond`); `rows` counts its rows. A flush is two steps, up to its commit
(`FlushStore`) and its `clear()` (`FlushClear`), so that two threads can flush
together or log in between; failures of a flush are in `AIUsage`. `Tick` moves
the UTC clock, whose days `daily_budget_summary` counts by (`OnDay`, `SpentOn`,
`OverBudget`); `NewPeriod` is `reset_day` at whatever moment the program takes for
the beginning of a day. `unsound`, `together` and `lost` record what the code does
not protect against: races and NaN in the guard, joint flushes, dropped records.

### Sources

`file` is `sources.yaml`, whose entries are on, off or refused by pydantic; `Loads`
returns it whole or not at all. A crawler's `run` keeps the file and the day it
started with, and for each source inserts a row (`Deliver`), a skip row without or
with a hash of its own (`Skip`), or a skip row made over a stamped row
(`SkipStamped`). `SkippedRow` merges in the code's order: defaults, the caller's
columns, the status. `Insert` is `idempotent_insert` on a table with a unique
`content_hash`, as in `Bronze`; that the table has one is the caller's declaration,
the package's own column schema does not ask for it.

### Bronze

`row` are objects in memory, `bronze` the table, `restamped` the payloads of
frames stamped more than once. A hash is the sequence of what
went into it: hashing is taken to be injective. The empty strings and None that the
code takes for "not stamped" are `"none"` (`NoSha`, `NoPayload`), the empty sequence
and 0. `Collect` is one `collect` of a
set of articles: both loops of `_stamp_rows`, which fill in only what is empty.
`CollectRaises` is the `TypeError` half-way, which leaves a part of the rows
stamped. `StampFrame` overwrites, and hashes every column there is. `Insert` is
`idempotent_insert`; `Fetch`, `ReadBack`, `Forget` and `Redeploy` are the jobs,
crashes and deployments around it.

### Builder

Each thread goes through `git_commit_hash` (`Hit`, `Miss`, `Ask`, `Store`: the
C implementation of `lru_cache` calls the function outside its lock), `git_dirty`,
a validator, and its write. `head`, `edited` and `works` are the checkout: which
commit it is at, whether it has uncommitted changes, whether git answers within
two seconds. A frame is what the validators can tell apart: missing columns, the
values of the columns that must be uniform, the arguments that are on no list
(`unlisted`: a `chain_depth` or `domain` the caller names, l. 93-96 and 105-108), its
payload columns, and its rows. The `domain` column may hold anything: `_validate_domain`
looks at the argument only.

### Backfill

The method appends rows while `NewYear` may come between any two of them; a row
is the year of its date column and of any other date in it.

## Runs

Passing runs, with their distinct states:

| Run | Shows | States |
|---|---|---|
| `AIUsage_log` | types, `NoSilentLoss`, `NoDuplicates`, `AckedDurable`, `RejectedBlocksQueue`, `EventuallySettled`, refinement of `UsageLedger` | 15250 |
| `ProviderChain_mixed` | `InOrder`, `AttemptBound`, `WholeAnswer`, `CancelIsFinal`, `Terminates`, refinement of `Failover` with its liveness | 10420 |
| `BrowserFetch_load` | `NoSpuriousTimeout`, `RendersOnce`, `RetriesOnlyRefusals`, `Terminates` | 480506 |
| `LLMSpend_days` | `TotalWithinCap`, `NoOverspend` of the guard in the composition; `SpentWithinCaps`, `StopsAgree`, `CountedOnce` | 7.4 M, with symmetry |
| `HttpClient_window` | `RetryAfterHonoured`, `EffectsBounded`, `GivesUpLast`, `Terminates` | 13737 |
| `Bronze_jobs` | `OneRowPerPayload`, `CompleteInBronze`, `StampsAreFinal` | 2.8 M |
| `Builder_threads` | `VersionsBounded` | 4.2 M, with symmetry |
| `Sources_days` | `EverySourceAccountedFor`, `StatusIsTrue` | 893614, with symmetry |
| `Backfill_calendar` | `GenuineReturned`, `FakesRefused` | 21569 |

Three runs find a behaviour of the code that its own documentation denies:

| Run | The code does | The repository says |
|---|---|---|
| `BrowserFetch_catchall` | a connection reset while waiting escapes as an httpx exception | `browser_fetch.py:34,61`: `BrowserFetchError` is the catch-all |
| `Builder_dirty` | a git failure counts as a clean tree | `git_meta.py:45`: True if there are uncommitted changes |
| `Builder_payload` | a frame with payload columns is refused | `schemas/base.py:17`: subclasses add payload fields |

Also seen while modelling, without a run of their own:

- `BrowserFetchPoolTimeout` drops the `fetch_ms` of the refusals
  (`browser_fetch.py:590`), which `:68-69` promises for service errors; the model
  has it as `Dropped`.
- `Retry-After` is read after a 429 only (`http.py:71`), while `README.md:38` names
  429/5xx and `Retry-After` together.
- Without a git checkout any `HT_CODE_SHA` becomes `code_sha`
  (`collector/base.py:180`), where `docs/m12-conventions.md:79-80` wants a SHA.
- `stamp_for_bronze` of a stamped frame hashes the earlier stamp too
  (`stamping.py:35`), where `docs/m12-conventions.md:85-86` wants the payload's hash.
- `git_commit_hash` keeps its first answer, a failure included, for the life of the
  process (`git_meta.py:14`), where its docstring says current HEAD; `CHANGELOG.md`
  mentions the cache.
- A skip row has `content_hash ""` (`source_status.py:164`), so that a table with a
  unique `content_hash` keeps the first skip of all sources and days only; a skip
  row given a stamped row as `base_columns` takes that row's hash, and the real row is
  ignored later. `EverySourceAccountedFor` and `StatusIsTrue` name both exceptions.
- The guard and the summary disagree about the same calls: `>` of estimates since
  the last reset (`llm/budget.py:53`) against `>=` of rounded costs, flushed only,
  of a UTC day (`llm/usage.py:306,317`). Nothing compares an estimate with the cost
  the call turns out to have: one call dearer than its estimate can put a day over its
  budget while the guard goes on admitting. `SpentWithinCaps` and `StopsAgree` say
  how far this goes.
- `validate_computed` never reads the `domain` column: `_validate_domain`
  (`validators.py:104-108`) checks the argument, where `CHANGELOG.md:133-134` has it
  check "dataset_id / chain_depth / domain uniformity". `Computed` in `MCBuilder` is a
  frame of two domains, and is accepted.
- A NaN estimate disables the guard until the next reset (`llm/budget.py:53`).
- An endless `Retry-After` raises OverflowError in place of the 429 (`http.py:26,38`).
- An OpenAI-compatible `embed` may return fewer vectors than texts
  (`llm/provider.py:280`).
- Two enums are called SourceStatus, with different values (`source_status.py`,
  `sources_config.py`).

### Bounds

- `MaxFaults` (AIUsage: failures that leave rows behind; BrowserFetch: hangs and
  deaths). Two for the log: a fault and its repetition meet every statement of a
  flush. One for the browser: it catches each client at each of its steps. Faults
  that leave nothing behind (a failed execute of an owned flush) are not bounded.
- AIUsage: three records, one of them refused: one stored, one queued, and either of
  them logged in the window of a flush; and a fourth, without a task, tried at any time.
- `MaxTexts = 2`: a first and a second POST of Local's `embed`, with the failure
  before, between and after them. A chain of four, every kind of provider in it,
  with different attempts.
- BrowserFetch: one browser and two clients, so that one renders while the other
  waits and is refused, at each of its attempts, by renders of later calls; limits
  of one or two ticks. The client timeout is exactly the sum of the limits, the
  least the assumption allows.
- HttpClient: calls share nothing but the server's window, which the server may
  open at any request, so one client shows what a call can meet. Four attempts
  make the backoff grow to its cap; windows of two and five ticks lie below and
  above it; a skew of one tick.
- LLMSpend: two threads, as every race here is of two; estimates that are admitted
  once or again, that breach the cap per call, and NaN; costs below, at and beyond
  the estimate. A daily cap that is a whole multiple of the grain of rounding, and costs
  that are not. Two days of one tick; two calls logged, which together reach the daily
  cap or stay below it; one reset or restart, at any moment of either day.
  `Bounded` stops once more than the daily cap was admitted (the cap of one call, if
  the total is NaN): racing threads spend without limit.
- Sources: two sources, so that one's row can hide the other's; one payload, that
  may be delivered and skipped on two days; two edits, which break an entry and
  mend it.
- `MaxRuns = 3` (Bronze): a run, its repetition by another run, and one more
  with the objects of both. Three objects and two payloads, so that one payload
  is in memory twice.
- `MaxHead = 2` (Builder): a version before, between and after two misses.
- `MaxRows = 3`, `LastYear` (Backfill): two New Years, one in the middle of a call
  and one between its last row and its check.

Symmetry is used only in runs without temporal properties.

### Fairness

- AIUsage: the caller flushes without a bind again and again and ends the
  transactions it opens; execute and commit succeed infinitely often when tried
  infinitely often (strong fairness: they also fail), and a statement of a flush
  returns or raises at all. This is an assumption about
  the caller and the database; the code has no flush of its own accord.
- ProviderChain: the event loop runs a ready task, and httpx's timeout (`TimedOut`,
  l. 72, 96; a caller's client has its own) ends every wait. Nothing is assumed of the
  providers: one may never answer.
- BrowserFetch: time passes, a client's thread runs, a service that is not hung
  keeps its limits. Nothing is assumed of a hung or dead one. The strong fairness
  of `Tick` is that time passes, though a step may be due before it.
- HttpClient: time passes, threads run, and httpx's timeout (`Timeout`; 5 seconds
  unless the caller gives another) ends a wait. Nothing is assumed of the server.

In the chain and in HttpClient, httpx's timeout limits each wait for bytes: a response that trickles in for
ever is left out. So is a caller who turns the timeout off.

No other module has fairness: their properties are safety.

## Proofs

The theorems hold for every value of the constants that satisfies the named
assumptions of the modules.

- **AIUsage_proofs.** `NoSilentLoss`, `NoDuplicates` and `AckedDurable` are not
  inductive: clearing the queue is right only because the rows of the running
  flush are in the table or the caller's transaction by then. `IInv` adds
  `FlushInv` (the rows of a running flush are still queued, and what is queued
  besides them came in the window), `OriginInv` (only logged records are
  anywhere) and `OnceInv` (a queued record without doubt has no rows before
  `ClearPending`). One lemma per action; `CommitRows` and `TxnGone` are what two
  of them share. `ImplementsLedger` shows with `IInv` that each step is a ledger
  step or a stutter: `StatusMove` and `StatusSame` reduce it to which records
  change phase. `RejectedBlocks` excepts what another thread logs during a flush:
  it goes with the queue.
- **BrowserFetch_proofs.** `TimeoutsAreHangs` rests on a budget of time: while the
  service works, what a client has waited is covered by the limits of the steps
  behind it and the time in the current one (`BudgetInv`), and clients hit by a
  hang are those in flight since it began (`ServiceInv`). It uses
  `ClientTimeoutAssumption`, the rule of the comment on `DEFAULT_TIMEOUT_S`; with
  a shorter timeout the theorem is false.
- **ProviderChain_proofs.** For every chain of providers, operation and number of
  texts. `ChainInv` adds to the properties what holds in the middle of an operation:
  `UnderWay` (the requests to the provider being asked are at most its attempts for
  each answered POST and those of the current one; a Local provider has brought one
  vector per answer) and `Phases` (each provider starts from nothing, only a
  cancellation cancels). `CancelFinal` is an action property. `Implements` shows
  each step to be one of `Failover` or a stutter: the safety part of `FailoverSpec`.
- **BrowserFetch_proofs**, the retries. `RetryInv` says for each step of a call what
  its attempts, refusals and renders so far are: a request under way was preceded by
  refusals only, and one that waits or is refused has not been rendered. `RenderedOnce` and
  `OnlyRefusalsRetried` follow, for any number of clients, browsers and attempts.
- **Bronze_proofs.** `OneRowPerPayload` and `CompleteInBronze` are about the table and
  inductive only with the memory it is filled from. `Stamped` says what a row is at
  any time: an article's stamps come all at once but for its inputs, and its hash is
  of its payload; so is a frame's until its payload is stamped again. `Whole` rows
  only reach the writer (`MemoryInv`), and rows of the table differ in their hash
  (`TableInv`). `StampsFinal`, an action property, needs no more.
- **Builder_proofs.** `VersionsBounded` counts the versions a process has written
  against its threads. `BuilderInv` keeps a witness: a set of threads that missed the
  cache, and what git told each, such that every version written, cached or held is
  among the answers (`Missed`). A thread joins the set only once, as it cannot miss
  the cache after it has stored its answer; the cardinality of an image then bounds
  the versions. `ThreadAssumption`: the threads of a process are finitely many.
- **Calendar_proofs.** Two components that share only their dependence on the
  calendar. `SourcesInv` says where the content_hash of each row comes from
  (`Origins`): so the earlier row that makes `idempotent_insert` ignore a new one
  is the same source's, or a skip's without a hash, and a row that is not OK but has a
  payload's hash is a skip row made over it. `DoneAccounted` is
  `EverySourceAccountedFor` of the part of the run that is done. `BackfillInv` adds
  that the other dates of the rows are of the time of the call (`RowsOfCall`), from
  which a check in the year the call began in sees every re-stamped row as today's.
- **LLMSpend_proofs.** First the guard alone: `RecordedWithinCap` and
  `SpentWithinCap` for any number of threads, caps and estimates, NaN included. The
  latter is about calls that do not overlap: without a race at most one thread is
  inside, and the sum it is about to assign is that of the current total
  (`Current`). With a race the spending is unbounded: the second assignment forgets
  the first. `GuardKeepsCap` and `GuardRecordsWithinCap` carry this into the
  composition: every step is one of the guard, or leaves it alone, or ends a call,
  and a thread with a call under way is not in `check_call` (`Busy`), so forgetting
  its estimate does no harm. `EveryCallCountedOnce` rests on `StoredInv`: a queued
  record with rows is in the hands of a flush, one that left the queue was stored or
  lost; `OneDay` shows that the days of `_day_bounds` neither overlap nor
  leave a gap, for any length of a day.
- **LLMSpend_proofs**, the amounts. `SpentWithinCaps` compares rows of a day with caps
  of the guard's periods, which neither the guard nor the table knows of. `ChargeInv`
  connects them: what was logged of a sound period, each call up to its estimate
  (`Charges`), and the estimates of its calls under way come to no more than the guard
  admitted in it, and when the period is over, than its cap (`ChargesAdmitted`). No
  relation of costs and estimates is assumed: a cost is its charge and its excess
  (`BeyondIs`), and sums split likewise (`SumPlus`). `DaysWithinCaps` adds up the
  periods of a day's rows and their excess, and `BudgetsAgree` bounds what rounding and
  the excess can hide. The sums are over
  sets of any size: `SumFunctionOnSet` is a `CHOOSE` of a recursive function, which
  `SumExists` shows to exist; that a sum does not depend on the order and grows
  with its set (`SumRemove`, `SumUnion`, `SumOfGroups`) is by induction over finite
  sets. The library's induction takes an operator; `SubsetInduction` takes a family
  of sets instead and is proved from the least number of elements of a set that is
  not in the family. `ThreadAssumption`: the threads are finitely many.
- **HttpClient_proofs.** The sleep covers what is left of the wait (`Covered`), and
  a request under way was preceded only by refusals and doubts (`Accounted`).
  `GivesUpInTime` counts them against the attempts (`Counted`, `CountedAnswer`). The
  exponential backoff is used only as a number: its value is TLC's.

Every invariant and action property of the passing runs is proved. Liveness is out of
the proof system's reach and stays with TLC: `EventuallySettled`, `Terminates` of the
three clients, and the part of `FailoverSpec` that says a call ends.

## Not modelled

- Costs as floating point, but for NaN: sums are exact, and only the summary rounds.
  Tokens and rates (`calculate_cost`) are the cost they yield. Logged costs that are
  negative or NaN, which `log_usage` does not refuse, are left out.
- `database_url_from_env`, `init_db`, `create_schema`: they run once, before the rest.
- `SourceManifestEntry` and the warning of `emit_skipped_row`: nothing reads them.
- `schema/`, `schemas/` apart from what the validators do with them, `protocols/`,
  `universe/`: declarations of columns and types, `typing.Protocol`s and a loader of a
  bundled file, without state or behaviour of their own.
- The shape of an LLM's answers, but for the number of vectors; page parameters; logging and messages.

## Plan

Built in this order: the usage log and its ledger, the chain and its failover,
the browser client, the guard, the HTTP client, bronze, the builder gate, the
backfill check; then the composition of guard, log and summary, NaN, endless
waits, the vectors of an answer, and the crawler's sources with their skip rows.

Proved in this order: the usage log with its ledger, the browser client's
timeouts, the guard, the HTTP client, the composition of guard and log; then the
chain and its failover, bronze, the builder gate, the browser client's retries, the
crawler's days, the backfill check, and the amounts of the summary.

What is left to prove or to say:

1. Lemmas that say what `daily_budget_summary` counts for the rows of a flush that
   was shared by two threads, which `SpentWithinCaps` excepts.
2. Action properties of the table of `AIUsage` and of bronze: what no step of
   another component may undo.
