# Verification of DataTransfer

TLA+ modules, TLC configurations and TLAPS proofs for DataTransfer, a scheduled
table-to-table transfer tool: cron-driven jobs read pages from a source
database plugin, run an ETL pipeline over the rows and write them to a target
database plugin with one or several writer threads, keeping a high-water mark
per job so that the next pass reads only what is new.

`src/` below is the root of the sources; `runner.rs` and the like are files of
`src/DataTransfer/src`.

## 1. Inventory

| Component | State | Operations | Interacts with | Module |
|---|---|---|---|---|
| Worker gate (`runtime/scheduler.rs` 37-87) | free slots under a mutex, the condvar's waiters | `acquire`, drop of the guard | every job thread | `WorkerGate`, `Semaphore` |
| Scheduler, job threads (`runtime/scheduler.rs` 12-34, `main.rs` 107-159) | per thread: last cron occurrence | spawn, compute next, sleep, run | gate, job runner | `JobScheduler` |
| Startup (`main.rs` 36-159) | config, plugins, connections, jobs | load and build in order, `fatal` on an error | everything | `Startup`, `AllOrNothing`; the spawn loop with the clock in `JobScheduler` |
| Batch writer (`datasource/writer.rs`) | truncate-once set shared by the writers of a pass, attempt counter | `write_batch`, `normalise` | target plugin | `Writer`; `normalise` in `Dialects` |
| Router (`datasource/router.rs`) | round-robin counter | `route` | writer pool | `WriterPool` |
| Writer pool (`runtime/runner.rs` 175-261, 331-373) | bounded channels, thread handles, buckets | `drain_multi`, `spawn_writers`, `run_writer` | reader, ETL, writers | `WriterPool` |
| Job runner (`runtime/runner.rs` 45-171, 264-301, 404-485) | buckets, mark in memory | `build`, `run_once`, `drain_single`, `flush_bucket`, `update_state`, `map_columns` | reader, ETL, writer, state store | `JobRunner` (interleavings), `DataPath` (data), `map_columns` in `EtlSteps` |
| Reader (`datasource/reader.rs`) | query text, offset | `new`, `next_page`, default literals | source plugin, state store | `DataPath`; a changing source in `JobRunner` |
| State store (`runtime/state.rs`) | JSON map, state file, temp file | `load`, `get`/`set`, `save` | file system | `JobRunner` (halves of a save), `DataPath` (JSON, file names) |
| Templates (`support/templates.rs`) | none | expand, state to literal | reader, environment | `DataPath`, literals in `Values` |
| Data model (`LibDatasource/src/model.rs`) | none | conversions, comparisons, JSON | all | `Values` |
| ETL pipeline (`etl/pipeline.rs`) | plugin instances | `build`, `run`, lookup callback | ETL plugins, connections | `Startup` (build, lookup), `EtlSteps` (run) |
| ETL steps (`LibETL/src/builtin.rs`), order split plugin (`LibETL/OrderSplitPlugin`) | none | rename, set, filter, cast; split | pipeline | `EtlSteps` |
| ETL plugin interface and registry (`LibETL/src`) | loaded libraries, instances | create, configure, process, free | pipeline | `PluginCalls`, `Startup` |
| Datasource plugin interface and registry (`LibDatasource/src`) | loaded libraries, one mutex per instance | the `ds_*` entry points | all callers of a connection | `PluginCalls`, `Startup` |
| MySQL, PostgreSQL, Oracle plugins (`LibDatasource/*/src`) | driver pool or session | `batch_insert`, `truncate`, `query_page`, schema | databases | `Dialects`; failing calls in `Writer`, commit in `JobRunner` |
| Connection manager (`datasource/connections.rs`) | connected datasources | connect with a hard timeout | plugins | `Startup` |
| Configuration (`config`) | none | parse, defaults, bounds | startup | `Config` |
| Logging (`support/logging.rs`) | none | | | not modelled |

Hard behaviours. Threads: the main thread, one thread per enabled job, N writer
threads per pass of a job, one worker thread per connection attempt. They share
the gate, the truncate-once set, the target tables and each plugin instance.
Failures: any call into a database or a plugin can fail, and one that fails may
have taken effect; the process can die at any point and is started again with
the state files it left. Ordering: several versions of one key within a pass
and across passes; rows that change while they are paged. Time: occurrences
that fall due during a pass, retries with backoff, the connect timeout.

What makes each component correct: the gate neither leaks slots nor loses
wakeups; the scheduler runs the occurrences of a job once each and in order;
a pass that returns Ok has written all it read, hides no failure and leaves no
thread behind; an upsert leaves the newest version of a key; a full pass
replaces the table; a saved mark is never above a row that was not written;
a restart repeats work instead of skipping it; memory between reader and
writers is bounded and the pipeline of blocking sends always ends. The full
list of what can go wrong, line by line, is `hazards` in `PROJECT.json`.

## 2. Modules

**`Semaphore`** — what a gate promises: `free` permits, threads that ask, take
and give. Abstract, it has no counterpart of its own in the code.

**`WorkerGate`** — the `Mutex<usize>` and `Condvar` of `WorkerGate`. Every
critical section is an action. A thread is outside, in `waiting` (inside
`cond.wait`), in `woken` (notified or spuriously woken, the mutex not yet
locked again) or in `holding` (it owns a guard). An arriving thread may lock
the mutex before a woken one and take its slot; the woken one re-reads the
`while` condition and waits again (`Retake`). `notify_one` picks any waiter.

**`JobScheduler`** — `WorkerGate` with the main thread's spawn loop and
`run_on_schedule` in every job thread. A cron expression is the set of times it
matches. `Iterate` is `iterator.next()`: the occurrence after the last one
*returned*, possibly past, so an overrun is caught up one by one. `Fatal` is
the error exit of the spawn loop, with threads of earlier jobs already running.
A pass is the interval in which the job holds its slot.

**`Writer`** — `write_batch`, one step per call into shared state: the critical
section on the truncate-once set (`Mark`), `ds.truncate`, each attempt of
`ds.batch_insert`. One call into the target is atomic because `ds_truncate` and
`ds_batch_insert` hold the instance mutex and each plugin sends a batch as one
statement. A failing call may have taken effect (`Truncate`, `Insert`). A table
is the sequence of rows applied since the last truncate; for an upsert the last
row of a key is the visible one.

**`WriterPool`** — `drain_multi`, `spawn_writers`, `Router::route` and
`run_writer` on top of `Writer`, for several passes of one job. The job thread
reads a page (`NextPage`), runs the ETL on a source row (`RunEtl`), sends each
output row (`SendRow`, blocking on a full channel, an error once the receiver
is gone) and joins the writers in spawn order. Every early return drops senders
and handles (`ReturnErr`); the writers of that pass then drain their channels
and flush their buckets beside the next pass. The hash of the router is an
arbitrary function of the key. `SourceAssumption` says what may be assumed of
the rows: equal keys hash alike, every output row of the ETL is told apart from
the others, and what is read later of a row of the source is not older.

**`JobRunner`** — `run_once` with one writer, over a source that the
environment changes. `low` is the literal in the query (`Reader::new` resolves
it once per pass), `offset` the reader's offset, `mem` the mark in
`StateStore.values`, `disk` the one in the state file. `update_state` moves
`mem` when a page is read (`ReadPage`); `SaveTmp` and `SaveRename` are the two
halves of `save`. `Crash` loses all of the process, and of the target what the
session has not committed (`committed`; with `AutoCommit`, as for MySQL and
PostgreSQL, nothing); `Restart` is `build` with `StateStore::load`.

**`Config`** — the three kinds of YAML file. A file is a node (`Map`, `List`,
`Str`, ...); `AppConfig`, `Connections` and `Job` are the loaders, with their
defaults, bounds and narrowing casts, and the `Accepts...` predicates say what
makes them return an error. Ill-typed entries are what the code makes
of them: absent, empty or an error.

**`PluginCalls`** — the C ABI. A thread's calls are a stack of frames; a frame
knows its instance, how far it is (`entry`, waiting for the instance's mutex;
`inside`; `returned`, with a result to read; `done`, the string read and freed)
and its out pointer. `heap` holds the strings that were allocated and not yet
freed. `Enter`, `Return` and `ReadOut` are the lock, the body of an entry point
and the host's reading of the out pointer; `Lookup` is the host callback an ETL
plugin calls from inside `process`, and `DoLookup` and `LookupQueried` the
datasource call that makes, on any open connection (`JobLooksUp`): which one is
up to the plugin.

**`AllOrNothing`** — what the start of the process promises, in a page:
connections open one by one, jobs get a thread and work only when all are open,
none closes while a job works, a failure ends everything.

**`Startup`** — `main` on top of `Config` and `PluginCalls`. `pc` is the place in
`main`; `LoadConfig`, `LoadPlugins`, `LoadEtlPlugins`, `LoadJobs` are its
phases and each goes to `Fatal` on what the code rejects. `ConnectNext`
spawns the connect thread of the next connection (in the order of the
`BTreeMap`), whose steps are `WorkerCreate`, the call, `WorkerConnected`,
`WorkerSend`; main waits in `Receive` or `Timeout`, and drops the receiver in
`GiveUp`. A send that finds no receiver destroys its instance. `BuildStep`,
`StepConfigured` and `BuildFails` are `EtlPipeline::build`, interleaved with
the passes of jobs that already have a thread (`StartPass`, `Proceed`,
`JobLooksUp`). The installation — files, libraries, which connections refuse —
is chosen at the start.

**`Values`** ← **`EtlSteps`** ← **`Dialects`** ← **`DataPath`**, each extending
the one before. `Values` has the value variants, their conversions and
comparisons (as `f64`, as text, by the JSON form) and the SQL literal of a
mark. `EtlSteps` has `map_columns`, the built-in steps, the order split plugin
and the chain that `EtlPipeline::run` makes of them, as operators on a row.
`Dialects` has what each plugin reads from a cell, how its database compares a
column with a literal, and what `batch_insert` does to a table: plain insert,
`ON DUPLICATE KEY`, `ON CONFLICT`, `MERGE`. `DataPath` puts them into the steps
of `run_once` with one writer: `StartPass` (templates, first-run literal, the
query), `NextPage` with `update_state`, `RunEtl`, `PushRow`, `Drain`,
`write_batch`, `Save`; beside them `SourceInsert`, another job's `NeighbourSaves`,
`Crash` and `Restart`. `write_batch` is `Truncate`, for the first batch of a
table in a pass of mode full, and `WriteBatch`, one attempt to insert: it goes
in, or fails (applied or not) and is repeated up to `retry` times, then the pass
fails (`attempt`). A failed truncate is not repeated. A batch for a table that
is not there fails each time. The databases, the drivers and their collations
are external. Numbers are counted in parts, `One` of which make 1, so that a
float can be a fraction. History variables keep what was read, what this process
(in mode full: this pass) has put out, and the target as it was before that,
emptied when a pass truncates it (`began`).

`JobRunner` and `DataPath` share `run_once` on purpose: the first has abstract
rows, several tables and every interleaving with source and crash, the second
the program's own values, where the hazards are in conversions and dialects.

The `MC_` modules give the constants values for TLC. `MC_Startup` and
`MC_DataPath` do so as a list of cases: one that works, and others that differ
from it in one thing. Definitions headed "Plausible bug" are mutants: each
replaces the definition after it in a run to show that a property can fail; no
specification uses them.

The proofs are in `JobScheduler_proofs` (with those about the gate),
`JobRunner_proofs`, `WriterPool_proofs`, `WriterRows_proofs` (the rows of the
pool, on top of the former), `Startup_proofs`, `DataPath_proofs` and
`DataRows_proofs` (the rows a job writes, on top of the former), each extending
the module it is about. `DataFacts` has the facts about numbers and
sequences they share.

## 3. Runs

| Run | Instance | Checks |
|---|---|---|
| `scheduler` | 4 enabled jobs and a disabled one, 2 slots, clock to 3 | `SchedTypeOK`, `SlotsConserved`, `NoLostWakeup`, `RunsInCronOrder`, `GateIsSemaphore`, `SlotsAreServed`, `DuePassRuns` |
| `writer_pool` | upsert, 2 writers, 2 passes, 2 failing calls, 1 retry | `PoolTypeOK`, `OkMeansWritten`, `OkMeansQuiet`, `KeyOrder`, `NewestOnTopAfterOk`, `OncePerFault` |
| `full_mode` | full, 2 writers, 1 pass, 2 failing calls | `FullReplaces`, `OneTruncater`, `EveryPassReturns` |
| `job_runner` | 2 source rows at first, at most 3, 2 inserts or updates, 1 failing call, 1 crash | `RunnerTypeOK`, `MarkInMemory`, `LostOnlyAfterError`, `MarkNeverFalls`, `EventuallyWritten` |
| `startup` | 51 installations, 2 connections, 2 jobs, 3 kinds of thread | `StartupTypeOK`, `StringsHaveOwners`, `OneInstanceOneOwner`, `CallsAreSafe`, `SettingsMeetAssumptions`, `PipelinesMatchFiles`, `StartsAllOrNothing`, `StartupEnds` |
| `data_path` | 101 jobs, 3 source rows, 3 passes, 1 lost answer, 1 crash | `DataTypeOK`, `NothingSkipped`, `RereadsHaveACause`, `MarkIsARowRead`, `PluginsAgree`, `UpsertIsRepeatable`, `TargetHoldsNewest`, `DetailsReachTheirTable`, `WellSetNeverFails`, `FiltersLikeWhere` |
| `truncate_race` (violation) | full, no failing call | `OkMeansWritten` |
| `stragglers` (violation) | upsert, 2 passes | `OkLeavesNewest` |
| `full_empty` (violation) | full, empty source | `FullTruncates` |
| `lost_rows` (violation) | 1 failing call, no crash | `MarkCoversWritten` |
| `no_commit` (violation) | `AutoCommit = FALSE`, no failing call, 1 crash | `MarkCoversWritten` |
| `short_page` (violation) | one source row at first, two inserts or updates, also during a pass, no failing call | `MarkCoversWritten` |

Why the bounds are enough.

- `scheduler`: with 4 jobs due at once on 2 slots, two wait in the condvar
  while two run, which is what stealing, a release with several waiters and a
  woken thread that goes back to sleep need. One job has three occurrences, so
  two can fall due during one pass. `MaxTime` bounds the clock; threads end
  when their cron set does, as in the code when the iterator is exhausted, so
  the system may stop (`CHECK_DEADLOCK FALSE`). Jobs are not declared
  symmetric because liveness is checked.
- `writer_pool`, `full_mode`: capacity 1 makes the job thread block, threshold
  2 makes one bucket flush early and others at the end, and a row is sent to a
  writer after its first flush, which may have ended it. The ETL splits one
  source row and drops another. Two
  failing calls cover a lost acknowledgement followed by a retry, an exhausted
  retry, and failures of the two writers in one pass.
- `job_runner`: pages of 2 over at most 3 rows give full, short and empty
  pages, and the source starts out of mark order so that the largest mark can
  be on an earlier page; threshold 2 leaves rows in buckets between pages; the
  ETL sends rows to two tables. `MaxClock` bounds the changes of the source.
- `startup`: each installation differs from a working one in one file, one
  setting or one library, so that every error of the loaders ends the process
  in some behaviour and every default is used in another. Two connections give
  a late answer of the first while the second connects; two jobs give passes of
  the first while the second is built. The first job has a plugin step that
  looks up, and a target connection that the second job reads from: callers
  meet at the mutex of an instance. `U32` is 8 so that a retry count can wrap.
  Main ends or parks, so the system may stop (`CHECK_DEADLOCK FALSE`).
- `data_path`: the jobs differ in the type of the mark, the databases, the
  statement, the template, the job name, the keys or the steps. A key is that of
  the table, another one, none, or the table has none; a batch repeats a key or
  has a NULL in it; a table has a row, and a column the job does not write,
  before the first pass. Jobs with order split send details to a table with
  a key, one without, one that does not exist, or to that of the job.
  Many of the jobs are well set, on each database, and others miss that in one
  thing, so that both sides of `WellSetNeverFails` occur. Three source
  rows in pages of two with batches of two give a full and a short page, two
  batches, and a mark from a later page. The jobs of mode full have rows in the
  target before, a mark or none, batches of one row, two tables, a table that is
  not there. The widths are scaled: 1 has four parts, `I64` = 32 * 4
  stands for 2^63 and `Exact` = 8 * 4 for 2^53, and marks lie on both sides of
  each. `Epsilon` = 2 parts stands for `f64::EPSILON`: a column of fractions has
  cells that are one part, two and more from the literals of its conditions.
  Three passes are a first run, one with a mark and one after a restart; one
  lost answer, failed truncate or failed schema query and one crash. Most jobs
  have `retry` 1 and survive that answer; those with `retry` 0 do not, which is
  the last attempt failing. `MaxPasses` lets the system
  stop (`CHECK_DEADLOCK FALSE`).
- Bounds in the modules: `MaxTime`, `MaxPasses`, `MaxFaults`, `MaxClock`,
  `MaxCrashes`, `MaxLeaks` (strings left behind before new passes stop).

In `short_page` the source has one row and a page two: within the three clock
ticks no page is full before a row is lost, so that what the run shows can only
come from rows inserted after a short page. (With a full page an update does the
same, see 5 below.) In `job_runner` the source changes only between passes: with
changes during a pass `LostOnlyAfterError` is false, which is `short_page`.
`OkMeansWritten` is checked for upsert; for full it is false, which is
`truncate_race`. `FullReplaces` is about one pass: a writer that a failed full
pass left behind may insert its rows after the truncate of the next pass.

Fairness. `SchedSpec`: the clock advances, main gets through its startup, and
each job thread takes its steps when it can (an operating system runs its
threads, and a pass returns). The gate gives no guarantee to an individual
waiter against jobs that come back for ever (`Condvar` has no order and an
arriving thread may overtake), so `DuePassRuns` rests on the finite cron sets of
the instance; `SlotsAreServed` does not. `PoolSpec`: the job thread and each
writer thread run, and calls into a database return. `RunnerSpec`: the job's
thread runs, calls return and cron always has another occurrence; nothing
restarts a dead process and nothing makes the source change. `StartupSpec`: only
the main thread runs and its timer fires, and a `configure` it calls returns;
connect threads and drivers may hang for ever, and job threads owe nothing.
`PathSpec` states none: its properties are about states. No fairness is assumed
of failing calls, crashes or spurious wakeups.

## 4. Findings

1. `truncate_race`: the shared set is marked before the truncate and its mutex
   released in between (`writer.rs` 54-64); another writer inserts in the gap,
   the truncate removes its rows, and the pass returns Ok.
2. `stragglers`: an early return of `drain_multi` leaves writer threads
   running; they write older versions of a key after a later pass returned Ok.
3. `lost_rows`: the mark in memory moves when a page is read (`runner.rs` 155,
   195) and is not restored when the pass fails; the next pass starts above it
   and saves it.
4. `no_commit`: the Oracle plugin never commits; the mark is saved and the rows
   go with the session. That `oracle` connections start with autocommit off is
   a fact about that crate, not about this repository.
5. `short_page`: the offset moves by a whole page after a short one
   (`reader.rs` 108), so rows that arrive during the pass are skipped and then
   passed by the mark. Nothing in the generated query gives the rows an order
   (`reader.rs` 229-247), so after a full page a row that is already read and
   moves to the end, by an update of its mark, shifts those behind it under the
   offset, with the same result.
6. `full_empty`: with an empty source mode `full` does not truncate. With a mark
   in its query the mode replaces the target by the rows that are new: a later
   pass truncates, too, once it has a row to write, and leaves only what it read
   (`TargetHoldsNewest`).

Observed while modelling. The properties of `data_path` and `startup` are stated
for what the code does, and their exceptions say where that may surprise an
author of jobs:

- A first run starts above a default literal (`reader.rs` 285): rows with a mark
  of 0 or less, or NULL, are never read, nor, as everywhere, rows that appear
  later with a mark not above one that was read (`NothingSkipped`). Under a
  custom `select`, or when the schema query fails, the literal is 0 whatever the
  type; Oracle takes `''` as NULL, so that a text mark reads nothing there.
- A decimal mark comes back from the state file as a string, and from then on
  "10" is not above "9": the same rows are read in each pass. Even when a mark
  read later is a decimal again it may be too low, because "100" was passed over
  for it. Equal `f64`s above 2^53 and a collation that is not the byte order have
  rows read again too, and so has a schema query that failed on the first run of
  a text mark: the literal is then 0, the rows MySQL takes for no more than 0 are
  left out of the first pass and selected by the mark afterwards
  (`RereadsHaveACause`).
- The PostgreSQL plugin reads `int2`, `numeric`, `uuid` and `json` as NULL and
  binds values to the types the driver takes only. A mark column that `columns`
  leaves out is never stored.
- Two jobs whose names differ only in replaced characters share a state file
  (`state.rs` 84), and each may start from the other's mark: rows at or below it
  are never read, or rows are read again (`MarkIsARowRead`). Where the file
  holds a text and the job's mark is a number, every query to a database other
  than MySQL fails. So does the query by a mark that PostgreSQL gives as NULL
  under a custom `select`, since the mark is then probed as a text, `''`
  (`WellSetNeverFails`).
- Rows of one batch with different columns are filled up with NULL, and
  PostgreSQL refuses the batch when one of these columns holds no text
  (`WellSetNeverFails`).
- A key repeated in one batch is the last row to MySQL; to PostgreSQL and Oracle
  it is an error, which fails the pass. Whether two rows of a key share a batch
  depends on pages and thresholds (`PluginsAgree`). MySQL goes by the
  key of the table: a table without one gets the rows of a repeated upsert twice,
  and an upsert whose columns are all key columns is sent as a plain insert
  (`UpsertIsRepeatable`). Oracle matches by whatever columns the job declares:
  rows with a NULL in them, or repeated ones, are inserted again when the batch
  is (`UpsertIsRepeatable`), and a row it takes for the same gets another key
  (`TargetHoldsNewest`). MySQL never sets the declared columns of a row that is
  there: when they are not the key of the table, they keep their first values
  (`TargetHoldsNewest`). A table other than the job's has no key for
  `batch_insert`, so rows that a step sends there are inserted.
- The detail table of order split gets rows only when the split is the last
  step: `EtlPipeline::run` hands on the row of an output and drops its table
  (`pipeline.rs` 270), so that behind another step header and details all go to
  the table of the job (`DetailsReachTheirTable`); its query uses `?`, which of
  the three databases MySQL alone takes.
- NULL passes a filter's `ne` and `lte`, and `gte` against a number or `''`, or
  `lt` against another text; texts are filtered in the order of their bytes, not
  in that of the source's collation; and `eq` and `ne` take two numbers less than
  `f64::EPSILON` apart for equal (`builtin.rs` 265), which small fractions can be
  (`FiltersLikeWhere`).
- A format that holds `%%` passes the check of `templates.rs` 171 and makes
  chrono panic when it is printed: the thread of the job ends and the process
  goes on without it. An unknown token is an error, where `templates.rs` 13 says
  it stays as it is.
- The single-step form of `etl:` and the bare name of a built-in step are parsed
  (`job.rs` 166-168, 226-232) into steps that do not build, or not from what the
  form says (`PipelinesMatchFiles`); a list under `primary_key` is an empty key;
  ports and retry counts wrap.
- The strings of a failed connect, a failed configure and a lookup are not freed
  (`StringsHaveOwners`).

## 5. Proofs

Checked by TLAPS for every value of the constants, from the named assumptions
only. TLC evaluates each assumption on the instances of the runs, and has
checked each inductive invariant below before it was proved.

| Assumption | Says |
|---|---|
| `GateAssumption` | a finite set of threads, a natural number of workers |
| `SchedulerAssumption` | each entry of the configuration has a thread, and cron sets are sets of times up to `MaxTime` |
| `RunnerAssumption`, `PoolAssumption` | the types of the constants; pages, thresholds and channels hold at least one row |
| `SourceAssumption` | the hash is one of the key; output rows are told apart; what a later page or pass reads of a row is not an older version of it. The code does not see to that (the query it generates has no `ORDER BY`, `reader.rs` 229-247): it holds of a source whose rows are updated in place while they are read. `JobRunner` has a source that changes during a pass (`short_page`) |
| `PluginCallsAssumption`, `StartupAssumption` | the ids of instances and threads are those the modules make, one for each connection, job and plugin step that an accepted file names |
| `FilesAssumption` | what a YAML parser gives: the lists in an accepted file are sequences, its numbers integers, and its `etl` is not a list and a mapping at once |
| `ValuesAssumption` | `Lex` is a sequence of texts, whose order stands for the byte order; the empty text can only be the first; the numerals are some of its texts, not the empty one, and have whole numbers; 1 has one or more parts, f64::EPSILON is at least a part and at most 1, 2^63 and 2^53 are whole, the latter even and not above the former |
| `CollateAssumption` | a database puts every text in some place of its order |
| `JobsAssumption` | each job has a page and batches of at least one row, columns of types the model has, one of which it takes its mark from, cells of these types (a decimal cell is a numeral, only a double may be a fraction), marks that are whole numbers if they are numbers, one of the three modes, a natural number of retries, filter conditions of a column, an operator and a number or a text, one of the three databases on either side, steps that are built-in or the order split (with a natural `limit` and a detail table that has a name), and target tables whose rows have the table's columns and keep its key |
| `BoundsAssumption` | passes, faults and crashes are bounded by naturals |

`JobScheduler_proofs`, of the gate on its own:

- `GateTypeCorrect` (`GateTypeOK`): in particular the `usize` counter is never
  decremented at zero.
- `GateConservesSlots` (`SlotsConserved`): free slots and holders add up to the
  number of workers. The equation alone is not inductive: taking a slot adds
  one to the holders only if the thread was not one already, so the invariant
  also says that waiting, woken and holding threads are disjoint.
- `GateLosesNoWakeup` (`NoLostWakeup`): inductive relative to the two above. A
  release adds a slot and moves one waiter to woken; a woken thread leaves
  either with a slot or, when there is none, back to a state where the
  inequality is trivial; an arriving thread only lowers `available`.
- `GateRefinesSemaphore` (`GateIsSemaphore`): acquire, first wait and drop are
  take, ask and give of the semaphore; wakeups and waiting again are stutters.

`JobScheduler_proofs`, of the whole scheduler:

- `SchedulerUsesGate`: every step of the scheduler is a step of the gate or
  leaves it alone, whence `SchedulerConservesSlots`, `SchedulerLosesNoWakeup`
  and `SchedulerGateIsSemaphore` for the whole scheduler.
- `SchedulerInvariant`: `SchedInv`, the inductive invariant behind the next
  two. `RunsInCronOrder` speaks of the passes that have started; to keep it a
  step needs to know how the iterator stands to them, so `SchedInv` adds, per
  job, that the last occurrence returned is the last pass (`iterate`,
  `running`, `stopped`) or the cron successor of the last pass (`sleeping`,
  `gated`), and that a job is at the gate only when it is due. It also says
  that jobs the spawn loop has not reached have no thread.
- `SchedulerTypeCorrect` (`SchedTypeOK`) and `SchedulerRunsInCronOrder`
  (`RunsInCronOrder`).

`JobRunner_proofs`. That the reader's query yields the rows above the mark and no
others is a lemma, by the least counterexample (`InductionTo` in `DataFacts`), for
the induction theorems of the library take an operator as a parameter.

- `RunnerTypeCorrect` (`RunnerTypeOK`): the bound on the buckets needs
  `BucketsBounded`, that a bucket at the threshold is being flushed.
- `MarkNotBehindFile` (`MarkInMemory`) and `MarksOnlyGrow` (`MarkNeverFalls`):
  `MarkInv` adds `MarksBounded`, that no mark is ahead of the clock.
- `OnlyErrorsLoseRows` (`LostOnlyAfterError`): `PassInv` accounts for every row
  below the mark in memory: it is written, or in the page, a bucket or the call
  of the running pass, or a pass of this process has failed. It is proved for
  `Mode # "full"`, a target that commits and a source that is quiet during a
  pass. The last two are needed: `no_commit` and `short_page` are the runs
  without them.

`WriterPool_proofs`, for any number of writers and passes:

- `PoolTypeCorrect` (`PoolTypeOK`): the type and the memory bounds. `TypeInv`
  adds who may have a call, which threads exist, and `BucketsBounded`.
- `TruncatersAreUnique` (`OneTruncater`): `TruncInv` adds that whoever is about
  to truncate a table has marked it in the set its pass shares.
- `OkPassesAreQuiet` (`OkMeansQuiet`): `ControlInv` adds what the join loop has
  seen so far, and that a thread that is done stays so.
- `OkPassesHaveWritten` (`OkMeansWritten`): `RowsInv` is a conservation law.
  Each output row of the running pass is ahead of the job thread, in a channel,
  in a bucket, written, or lost with a writer of the pass that has failed; when
  the pass returns Ok the first three are empty and there is no such writer.
  For `Mode # "full"`: `truncate_race` is the run without it.
- `FullPassesReplace` (`FullReplaces`): `ReplaceInv` says that a table in the
  truncate-once set holds only rows of the pass, or is about to be truncated,
  or a writer fails. For `MaxPasses = 1`, since the writers of a failed pass
  may insert after the truncate of the next.

`WriterRows_proofs`, for any number of writers and passes:

- `KeyOrderHolds` (`KeyOrder`) and `NewestStaysOnTop` (`NewestOnTopAfterOk`).
  `OrderInv` orders a row's versions along their whole way: what is ahead of
  the job thread is not older than what its writer holds, the channel not older
  than the bucket, and the channel not older than the target. The
  bucket itself may be older than the target, because a batch whose answer was
  lost is in both; it then ends with a version as new as any that is written
  (`Outdone`), which is why a repeated batch leaves the newest version last.
  Across passes the order needs that no pass has failed (`OthersHoldNothing`):
  `stragglers` is the run in which one has.
- `RowsWrittenOncePerFault` (`OncePerFault`). `OnceInv`: a row is in one place
  before it is handed to `write_batch` and not yet in the target; while it is
  in a bucket whose call is not acknowledged, it is in the target at most once
  per failed call. The difference of one between the two counts is what
  makes it inductive.

`Startup_proofs`, for any installations, connections and jobs:

- `StartsAllOrNothingHolds` (`StartsAllOrNothing`): `Startup` implements
  `AllOrNothing`, initial state and every step. `StartInv` says where main is
  when a job has a thread, and which connections are open by then.
- `InstancesHaveOneOwner` (`OneInstanceOneOwner`): `OwnerInv` follows each
  connection on its way from its thread to the channel to the manager; between
  two of its steps main may have given up and dropped the receiver.
- `SettingsAreUsable` (`SettingsMeetAssumptions`): `JobsInv` says that the jobs
  are those of accepted files, with different names, and that the jobs with a
  thread are the enabled ones before the one main builds.
- `StackInv` is what the next three need. `BuiltInv` says that each plugin step
  of a job with a thread is ready, and of the next job each step before the one
  main is at, which main may be configuring; two jobs share no processor because
  their names differ, so a step of a pipeline that fails to build drops no
  processor that is in use. On top of it `StackInv` says what each stack of
  calls looks like: main and a connect thread make one call at a time, on the
  step being built and on their own connection; a job thread makes one on its
  connections or on one of its plugin steps, and inside such a step at most a
  lookup and the query that answers it. `AllocIsFresh` is why the model needs
  no bound on the strings: with finitely many alive, some address is free.
- `PipelinesAreBuilt` (`PipelinesMatchFiles`): on top of `BuiltInv`, `FitInv`
  says that the jobs are those of the files in their order, and that each step
  main has passed could be built. What the single-step form comes to is the
  lemma `StepsOfFile`: the whole job document is taken for the step (`job.rs`
  166-168), so that a file runs only by a `plugin` or `builtin` key of its own,
  or by a first key that names a step. The attempt to prove an earlier form of
  the property, that no job with the single-step form runs at all, showed these
  files, and the run has one of them since.
- `CallsStaySafe` (`CallsAreSafe`): `LockInv`, a mutex is held by a thread just
  when the innermost call of that thread is inside its datasource. All calls
  further out are inside an ETL plugin, which has no mutex; hence nobody waits
  with one in hand, and a lookup closes no circle.
- `StringsAreOwned` (`StringsHaveOwners`): `OutInv`, the out pointer of an
  innermost call is the very string its callee allocated, with the outcome the
  call had, so that what `Keeps` leaves is what the property lets lie.
- `StartupTypesHold` (`StartupTypeOK`): no stack has more than three calls.

`DataPath_proofs`, for any jobs, cells, databases and collations. `PathInv` has
three parts, and `HighestInv` builds on them:

- `PathTypeCorrect`: `PathTyped`, the types of marks, literals and pages. What
  comes back from a state file is a mark again.
- `MarkComesFromARow` (`MarkIsARowRead`): `MarksHaveOrigins` says it of the
  mark in memory and of the one in the file, as literals, because a mark that
  went through the file may be another value. `MarkSurvivesFile` is the lemma
  that it has the same literal; a wrapping conversion to JSON, the mutant of
  the property, breaks that lemma.
- `NoRowIsSkipped` (`NothingSkipped`): `RowsAreAccountedFor`. Between passes the
  row of the mark in the file was last read when the source had no more rows
  than the last good pass found, and each row the last good pass found is read,
  or not above the mark of a row read before it came, or not above the first
  literal. The last but one needs more to be inductive: the query by the mark
  in the file does not select that other row, since if it did, it would be read
  again, and later than the row it excuses. During a pass the mark in memory is
  the one in the file or that of a row of the query, which is above it; so the
  rows that a higher mark hides are still hidden (`AboveMeansHigher`). The
  pages of the pass are those of its query (`QuerySelectsAll`, by the least
  counterexample). Nothing is said of rows once a pass has failed, where the
  mark in memory is already above what was saved (`lost_rows`).
- `RereadsAreExplained` (`RereadsHaveACause`): `HighestInv`. Nothing read in a
  pass is above its mark, by what `value_gt` compares (`Height`: an `f64` for a
  number, a place in the byte order for a text), unless two rows were read which
  the database orders otherwise. That a page is folded from left to right with a
  comparison that is no order of all values, and the result compared with the
  stored mark, is `HighestOfPage`; it needs `MarksFit`, the kinds of value a
  column can leave in memory or in the file, and that a text in a column of
  numbers is the mark the query goes by, so that rows of the query are always
  taken for it. `LowIsLower` says that what the mark selects after the pass the
  query of the pass had selected; `OnlyF64Hides` then leaves the equal `f64`s.
  The attempt to prove an earlier form of the property showed the failed schema
  query above, and the run has a job for it since.
- `DataTypeCorrect` (`DataTypeOK`): `DataInv`, which adds to `PathTyped` that a
  page is a sequence of rows the source has, and a bucket one of its own
  elements, so that `Append` makes it longer by one and it becomes a batch just
  when it reaches the threshold (`PushFits`).
- `FiltersAreWheres` (`FiltersLikeWhere`): a consequence of the two types. A
  cell is read as a value of its own number or text (`CellIsRead`), a condition
  goes by equality and by the sign of one difference (`FilterDecides`), and so
  does the database (`SqlDecides`). A text has a place of its own and `''` the
  first one (`EmptyIsFirst`). Where `eq` or `ne` compares two different numbers
  less than `Epsilon` apart the property says that filter and database disagree:
  the tolerance is stated from both sides. The proof showed three cases that the
  earlier property had left out and the run did not have: `''` as the literal,
  texts that collate otherwise, and numbers below `-2^53`.

`DataRows_proofs`, for any jobs, tables and batches:

- `UpsertsCanBeRepeated` (`UpsertIsRepeatable`) and `PluginsWriteAlike`
  (`PluginsAgree`). Of the state both need `TablesHold` only: each target table
  has rows of its columns that keep its key, which no statement breaks
  (`BatchStaysTable`), and the batch is a sequence of rows. The rest is about
  statements. `WithUpserts` goes on row by row (`UpsertsGoOn`; the inductions
  are again by the least counterexample): a row that is there stays, with its key
  (`KeysStay`), each row of the batch then has a row of its key (`RowsOfBatch`),
  which holds the last of them (`LastRowWins`), so that the batch again changes
  nothing (`AgainChangesNothing`) and the key holds (`UpsertsKeepKey`). `MERGE`
  goes by the rows the table had before; that what it inserts is what an upsert
  would append, if the result keeps the key or no two rows of the batch are alike,
  is `MergePuts`, and that a plain insert is one that finds nothing
  `InsertsArePuts`. Hence all statements come down to one fold
  (`StatementsAgree`). The proof of the first showed the cases of keys of §4,
  which the earlier property and the run did not have.
- `NewestIsInTarget` (`TargetHoldsNewest`): `NewestInv`, while no pass has failed.
  The rows this process has put out for the job's table are, in their order,
  those the table holds, then the batch, then the bucket, then what of the last
  row's outputs is still to be bucketed. `Picks` says it by positions in `sent`,
  as a growing function, for the rows of other tables come in between. What a
  table holds is `HasNewest`: each row was there before or has the key of one of
  these rows, and the last row of each key is there, with its values; what it
  has no value for is an earlier one of that key, one from before, or NULL. In
  mode full no row was there before once the table is truncated, so that each row
  has the key of one that was put out; until the pass has truncated it, none of
  its batches has been written. After a failed attempt (`attempt > 0`) the batch
  may be in the table or not, and is still to be written: `Holds` is said of the
  rows without the batch or with it. A pass that gives up after its retries has
  failed, and nothing is said from then on.
  `BatchIsFold` brings every statement to one fold of upserts, `FoldHasNewest`
  says that this fold keeps the law when the batch is joined to the rows before
  it, and `OnceIsEnough` that a batch that went in twice is as one. That the
  outputs are a sequence at all is `OutputsAreSeq`, for any chain of steps. TLC
  checked the invariant with the rows that are neither in the batch nor in the
  bucket as the table's; it is the lemma `RowsAreDelivered`. The proof showed that
  an earlier form of the property was false for rows that are there before the
  process, and for MySQL with other declared columns than the table's key; the
  run has jobs for both since.
- `DetailsArrive` (`DetailsReachTheirTable`): `DetailsInv`. Outputs, buckets and
  the batch name only the table of the job and, when a split is its last step,
  the detail table, so no statement goes to another; and what has been sent is a
  sequence of groups, each a header followed by the details ranked 1, 2, ... up
  to the limit (`Grouped`). That only the last step of a chain names the tables
  is `RunIsMade`, from `RunIsSteps`, which follows a chain step by step. The
  property counts the details of a key up to a given one; `DetailsAreFound` and
  `DetailsAreRanked` relate that count to the query's list and its limit, by the
  least counterexample, and `GroupsJoin` says that groups put after groups are
  groups again. An earlier form told details apart by a column the instance gave
  to them alone; it is now stated for what the step makes.
- `WellSetJobsNeverFail` (`WellSetNeverFails`): `WellInv`. While a job is well
  set, its marks are values that the source compares with the column
  (`ReadsOn`), the rows of a pass come in increasing places (`InOrder`), and what
  is in `out`, the buckets and the batch are outputs of rows of the job, apart
  from each other and from those of the rows that are still to come in the pass
  (`OnItsWay`). The last is what keeps a batch free of a repeated key wherever it
  ends: a key is that of one output of the whole source, and a row comes once in
  a pass. In the next pass, or in a repeated batch, it comes again, and meets only
  the table, whose row it then updates. So each batch binds and goes in
  (`WellSetBatch`, `BatchGoesIn`), and after a lost answer again. A pass can then
  fail only by the last of `retry` + 1 attempts at one batch, and each attempt
  that failed has been counted (`AttemptsFail`); hence the property has
  `faults > job.retry`, and no job must have a retry. That
  the query goes through is `WellSetCompares`, from `MarksHaveOrigins`: a mark in
  the file is one of this job's rows, unless the file is shared. It rests on
  `DataInv`, `TablesHold`, `NewestInv` and the origin of the marks.

So every invariant, action property and refinement of the passing runs is stated
by a theorem. Only model-checked is liveness, which is out of the prover's reach:
`SlotsAreServed`, `DuePassRuns`, `EveryPassReturns`, `EventuallyWritten` and
`StartupEnds`. The properties of the runs that expect a violation are false.

## 6. Not modelled

- Panics, but for that of a time format, and a poisoned mutex.
- The length of the backoff sleeps (a retry is a step).
- The connection pools of the drivers: a call may take any time, and waiting for
  a pool slot is part of it.
- What is I/O of a driver: the connect and schema statements of the plugins, the
  date formats Oracle tries, SQL text and quoting.
- `load_dir` of both registries, which nothing calls; NULL pointer arguments,
  which the host never passes; `get_schema`, `execute`, `query` and `ping` as
  calls of their own in `PluginCalls`, where they behave like `query_page`,
  `batch_insert` or `truncate`.
- Marks that are bytes, booleans or fractions (a JSON text of a fraction need not
  read back as the same `f64`); the text of a date, and offsets of `sys.now` that
  leave the range of dates.
- In `DataPath`, failing calls other than inserts, truncates and schema queries: a
  page query that fails is in `JobRunner` and `WriterPool`.
- What is done with the pool size and the port: they are narrowed like the other
  numbers of `Config`, and handed to the plugins.
- Two processes that share a temp file.
- The cron parser, the YAML parser, and logging.

## 7. Plan

Done: `Semaphore`, `WorkerGate`, `JobScheduler`, `Writer`, `WriterPool`,
`JobRunner` and the proofs above, in this order because losing, reordering or
repeating rows and blocking for ever are what matters most here; then
`AllOrNothing`, `Config`, `PluginCalls` and `Startup`; then `Values`, `EtlSteps`,
`Dialects` and `DataPath`.

The proofs of §5 followed in the order of the modules, and cover every property
but liveness. What could be added to the models:

1. The length of the backoff sleeps: `writer.rs` 89 shifts 1 by the number of the
   attempt, which no property covers.
2. What of the plugins is I/O of a driver (§6), above all which date formats
   Oracle takes.
3. `FullReplaces` for more than one pass, with the writers of a failed pass still
   running, as the property of what such writers may leave behind.
