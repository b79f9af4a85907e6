----------------------------- MODULE JobRunner -----------------------------
(***************************************************************************)
(* A job with one writer (JobRunner::run_once and drain_single in          *)
(* runtime/runner.rs), its reader (datasource/reader.rs) and its           *)
(* high-water mark (runtime/state.rs), pass after pass, with failing       *)
(* calls, crashes of the process and restarts.                             *)
(*                                                                         *)
(* The source is the sequence of its rows in the order the database        *)
(* returns them (the generated query has no ORDER BY); wm is the column of *)
(* the job's `max` state key, which the WHERE template compares with the   *)
(* stored mark: WHERE wm > ${state.key}.                                   *)
(***************************************************************************)
EXTENDS Naturals, Sequences, SequencesExt, FiniteSetsExt

CONSTANTS Ids,         \* primary keys of the source rows
          Tables, Main,
          Initial,     \* the source rows before the first pass
          EtlTables,   \* id -> the target tables of its ETL output rows
          PageSize,    \* batch_limit or runtime.page_size
          Threshold,   \* flush_threshold
          Mode, Retry,
          None,        \* no value stored under the state key
          LiveSource,  \* whether the source may change during a pass
          AutoCommit,  \* the target session commits each insert: MySQL, PostgreSQL
          MaxClock, MaxFaults, MaxCrashes  \* bounds

SourceRows == [id : Ids, wm : 1..MaxClock]
Rows == SourceRows
Marks == {None} \cup 1..MaxClock

ASSUME RunnerAssumption ==
    /\ Main \in Tables
    /\ Initial \in Seq(SourceRows)
    /\ EtlTables \in [Ids -> Seq(Tables)]
    /\ PageSize \in Nat \ {0}
    /\ Threshold \in Nat \ {0}
    /\ {LiveSource, AutoCommit} \subseteq BOOLEAN
    /\ Mode \in {"full", "upsert", "append"}
    /\ {Retry, MaxClock, MaxFaults, MaxCrashes} \subseteq Nat
    /\ None \notin Nat

VARIABLES truncated, target, call, faults,  \* of Writer
          committed, \* what the target keeps when the session is lost
          source,   \* the rows of the source table
          clock,    \* the largest wm given out
          up,       \* whether the process runs
          step,     \* where run_once is
          mem,      \* StateStore.values: the mark in memory
          disk,     \* the state file: the mark it holds
          low,      \* the literal in the reader's query
          offset,   \* Reader.offset
          todo,     \* source rows of the page the ETL has not seen
          out,      \* ETL output rows of the source row still to be bucketed
          buckets,  \* the HashMap of drain_single
          erred,    \* a pass of this process has returned Err
          crashes

\* One Writer at a time, with a truncate-once set that run_once creates anew.
Writers == {"main"}
Passes == {"current"}
PassOf == [w \in Writers |-> "current"]
W == INSTANCE Writer

writerVars == <<truncated, target, committed, call, faults>>
sourceVars == <<source, clock>>
processVars == <<up, step, mem, disk, low, offset, todo, out, buckets, erred, crashes>>
runnerVars == <<truncated, target, committed, call, faults, source, clock, up, step,
                mem, disk, low, offset, todo, out, buckets, erred, crashes>>

RoutedRow == [table : Tables, row : Rows]
NoBuckets == [t \in Tables |-> <<>>]

RunnerTypeOK ==
    /\ W!WriterTypeOK
    /\ committed \in [Tables -> Seq(Rows)]
    /\ source \in Seq(SourceRows)
    /\ clock \in 0..MaxClock
    /\ up \in BOOLEAN
    /\ step \in {"idle", "reading", "rows", "flushing", "draining", "write_tmp", "rename"}
    /\ mem \in Marks /\ disk \in Marks
    /\ low \in 0..MaxClock
    /\ offset \in Nat
    /\ todo \in Seq(Rows) /\ out \in Seq(RoutedRow)
    /\ buckets \in [Tables -> Seq(Rows)]
    /\ \A t \in Tables : Len(buckets[t]) <= Threshold
    /\ erred \in BOOLEAN
    /\ crashes \in 0..MaxCrashes

RunnerInit ==
    /\ W!WriterInit([t \in Tables |-> <<>>]) /\ committed = target
    /\ source = Initial /\ clock = Max({0} \cup {r.wm : r \in ToSet(Initial)})
    /\ up = TRUE /\ step = "idle"
    /\ mem = None /\ disk = None
    /\ low = 0 /\ offset = 0
    /\ todo = <<>> /\ out = <<>> /\ buckets = NoBuckets
    /\ erred = FALSE /\ crashes = 0

-----------------------------------------------------------------------------
(* The source (external): rows are inserted at the end, and an update      *)
(* gives a row a new wm and leaves it in place or moves it to the end, as  *)
(* the storage of the database decides.                                    *)

Tick == clock < MaxClock /\ clock' = clock + 1
Quiet == LiveSource \/ step = "idle"

SourceInsert ==
    /\ Quiet /\ Tick
    /\ \E id \in Ids :
         /\ \A i \in DOMAIN source : source[i].id # id
         /\ source' = Append(source, [id |-> id, wm |-> clock'])
    /\ UNCHANGED writerVars /\ UNCHANGED processVars

SourceUpdate ==
    /\ Quiet /\ Tick
    /\ \E i \in DOMAIN source :
         LET new == [source[i] EXCEPT !.wm = clock']
         IN  source' \in {ReplaceAt(source, i, new), Append(RemoveAt(source, i), new)}
    /\ UNCHANGED writerVars /\ UNCHANGED processVars

-----------------------------------------------------------------------------
(* run_once.                                                               *)

\* resolve_state_default: the stored mark, or the schema's low bound.
LowBound == IF mem = None THEN 0 ELSE mem

\* Every `?`: the buckets and the reader are locals and go, the mark stays.
ReturnErr ==
    /\ step' = "idle" /\ todo' = <<>> /\ out' = <<>> /\ buckets' = NoBuckets
    /\ erred' = TRUE

\* A cron occurrence: Reader::new fixes the query for the whole pass.  It
\* can fail (no connection, a template that does not expand).
StartPass ==
    /\ up /\ step = "idle"
    /\ \/ /\ step' = "reading"
          /\ low' = LowBound /\ offset' = 0
          /\ truncated' = [truncated EXCEPT !["current"] = {}]
          /\ UNCHANGED <<faults, todo, out, buckets, erred>>
       \/ ReturnErr /\ W!Fault /\ UNCHANGED <<truncated, low, offset>>
    /\ UNCHANGED <<target, committed, call, up, mem, disk, crashes>>
    /\ UNCHANGED sourceVars

\* query_page: the rows of the query now, from the offset on.
RowsAbove(rows, mark) ==
    LET f[n \in 0..Len(rows)] ==
            IF n = 0 THEN <<>>
            ELSE IF rows[n].wm > mark THEN Append(f[n - 1], rows[n]) ELSE f[n - 1]
    IN  f[Len(rows)]
Query == RowsAbove(source, low)
Page == SubSeq(Query, offset + 1, Min({offset + PageSize, Len(Query)}))

\* Plausible bug: the mark is taken from the last row instead of the largest.
UpdateStateToLast(page) == page[Len(page)].wm

\* update_state: the largest value of the page, if it is above the mark.
UpdateState(page) ==
    LET best == Max({r.wm : r \in ToSet(page)})
    IN  IF mem = None \/ best > mem THEN best ELSE mem

EtlOutput(r) == [i \in DOMAIN EtlTables[r.id] |-> [table |-> EtlTables[r.id][i], row |-> r]]

\* next_page and update_state, the pass ending on what `last` says of a page.
ReadPage(last) ==
    /\ offset' = offset + PageSize
    /\ IF last THEN step' = "draining" /\ UNCHANGED <<mem, todo>>
       ELSE step' = "rows" /\ mem' = UpdateState(Page) /\ todo' = Page
    /\ UNCHANGED <<faults, out, buckets, erred>>

\* Plausible bug: a page shorter than page_size ends the pass unread.
NextPageStoppingShort ==
    /\ up /\ step = "reading"
    /\ ReadPage(Len(Page) < PageSize)
    /\ UNCHANGED <<truncated, target, committed, call, up, disk, low, crashes>>
    /\ UNCHANGED sourceVars

\* The outer loop of drain_single: the mark in memory advances before any
\* row of the page has been written.
NextPage ==
    /\ up /\ step = "reading"
    /\ \/ ReadPage(Page = <<>>)
       \/ ReturnErr /\ W!Fault /\ UNCHANGED <<offset, mem>>
    /\ UNCHANGED <<truncated, target, committed, call, up, disk, low, crashes>>
    /\ UNCHANGED sourceVars

\* The next source row of the page through the ETL, or the end of the page.
RunEtl ==
    /\ up /\ step = "rows" /\ out = <<>>
    /\ \/ /\ todo # <<>>
          /\ out' = EtlOutput(Head(todo)) /\ todo' = Tail(todo)
          /\ UNCHANGED <<step, faults, buckets, erred>>
       \/ todo # <<>> /\ ReturnErr /\ W!Fault
       \/ todo = <<>> /\ step' = "reading" /\ UNCHANGED <<faults, todo, out, buckets, erred>>
    /\ UNCHANGED <<truncated, target, committed, call, up, mem, disk, low, offset, crashes>>
    /\ UNCHANGED sourceVars

\* A row goes into its table's bucket, which is written once it holds `limit`.
Bucket(limit) ==
    /\ up /\ step = "rows" /\ out # <<>>
    /\ LET t == Head(out).table
           bucket == Append(buckets[t], Head(out).row)
       IN  /\ buckets' = [buckets EXCEPT ![t] = bucket]
           /\ IF Len(bucket) >= limit
              THEN /\ step' = "flushing"
                   /\ call' = [call EXCEPT !["main"] = W!NewCall(t, bucket)]
              ELSE UNCHANGED <<step, call>>
    /\ out' = Tail(out)
    /\ UNCHANGED <<truncated, target, committed, faults, up, mem, disk, low, offset, todo,
                   erred, crashes>>
    /\ UNCHANGED sourceVars

\* Plausible bug: the bucket is flushed one row after the threshold.
PushRowFlushingLate == Bucket(Threshold + 1)

\* The inner loop of drain_single.
PushRow == Bucket(Threshold)

\* Plausible bug: the state is saved without flushing the remaining buckets.
DrainNothing ==
    /\ up /\ step = "draining"
    /\ call["main"] = W!NoCall
    /\ step' = "write_tmp" /\ buckets' = NoBuckets
    /\ UNCHANGED <<up, mem, disk, low, offset, todo, out, erred, crashes>>
    /\ UNCHANGED writerVars
    /\ UNCHANGED sourceVars

\* run_once after drain_single: flush_bucket for every remaining table.
Drain ==
    /\ up /\ step = "draining"
    /\ call["main"] = W!NoCall
    /\ \/ \E t \in Tables :
             /\ buckets[t] # <<>>
             /\ call' = [call EXCEPT !["main"] = W!NewCall(t, buckets[t])]
             /\ UNCHANGED step
       \/ buckets = NoBuckets /\ step' = "write_tmp" /\ UNCHANGED call
    /\ UNCHANGED <<truncated, target, committed, faults, up, mem, disk, low, offset, todo,
                   out, buckets, erred, crashes>>
    /\ UNCHANGED sourceVars

\* The Oracle plugin neither commits nor turns autocommit on; a TRUNCATE of
\* its session commits what was inserted before, and is itself final.
Commit == committed' = IF AutoCommit \/ W!At("main", "truncate") THEN target' ELSE committed

InWriteBatch ==
    up /\ W!WriteStep("main") /\ Commit /\ UNCHANGED sourceVars /\ UNCHANGED processVars

\* flush_bucket: the bucket was removed before write_batch was called.
Written ==
    /\ up
    /\ LET c == call["main"]
       IN  \/ /\ c.step = "ok"
              /\ buckets' = [buckets EXCEPT ![c.table] = <<>>]
              /\ step' = IF step = "flushing" THEN "rows" ELSE step
              /\ UNCHANGED <<todo, out, erred>>
           \/ c.step = "err" /\ ReturnErr
    /\ call' = [call EXCEPT !["main"] = W!NoCall]
    /\ UNCHANGED <<truncated, target, committed, faults, up, mem, disk, low, offset, crashes>>
    /\ UNCHANGED sourceVars

\* StateStore::save, first half: the temp file.  The state file itself is
\* untouched, so a crash or an error here leaves it as it was.
SaveTmp ==
    /\ up /\ step = "write_tmp"
    /\ \/ step' = "rename" /\ UNCHANGED <<faults, todo, out, buckets, erred>>
       \/ ReturnErr /\ W!Fault
    /\ UNCHANGED <<truncated, target, committed, call, up, mem, disk, low, offset, crashes>>
    /\ UNCHANGED sourceVars

\* Second half: the rename publishes the mark; run_once returns Ok.
SaveRename ==
    /\ up /\ step = "rename"
    /\ \/ step' = "idle" /\ disk' = mem /\ UNCHANGED <<faults, todo, out, buckets, erred>>
       \/ ReturnErr /\ W!Fault /\ UNCHANGED disk
    /\ UNCHANGED <<truncated, target, committed, call, up, mem, low, offset, crashes>>
    /\ UNCHANGED sourceVars

RunnerStep ==
    \/ StartPass \/ NextPage \/ RunEtl \/ PushRow
    \/ Drain \/ InWriteBatch \/ Written \/ SaveTmp \/ SaveRename

-----------------------------------------------------------------------------
(* The process dies with everything it holds in memory, and the database   *)
(* rolls back what its session has not committed.                          *)

Crash ==
    /\ up /\ crashes < MaxCrashes
    /\ up' = FALSE /\ crashes' = crashes + 1
    /\ step' = "idle" /\ todo' = <<>> /\ out' = <<>> /\ buckets' = NoBuckets
    /\ erred' = FALSE
    /\ mem' = None /\ low' = 0 /\ offset' = 0
    /\ call' = [w \in Writers |-> W!NoCall]
    /\ truncated' = [p \in Passes |-> {}]
    /\ target' = committed
    /\ UNCHANGED <<committed, faults, disk>> /\ UNCHANGED sourceVars

\* Plausible bug: a restarted job does not load its state file.
RestartEmpty ==
    /\ ~up
    /\ up' = TRUE
    /\ mem' = None
    /\ UNCHANGED <<step, disk, low, offset, todo, out, buckets, erred, crashes>>
    /\ UNCHANGED writerVars /\ UNCHANGED sourceVars

\* The process is started again: JobRunner::build loads the state file.
Restart ==
    /\ ~up
    /\ up' = TRUE
    /\ mem' = disk
    /\ UNCHANGED <<step, disk, low, offset, todo, out, buckets, erred, crashes>>
    /\ UNCHANGED writerVars /\ UNCHANGED sourceVars

RunnerNext == SourceInsert \/ SourceUpdate \/ RunnerStep \/ Crash \/ Restart

\* The job's thread runs, calls return and the cron expression always has
\* another occurrence.  Nothing restarts a dead process.
RunnerSpec == RunnerInit /\ [][RunnerNext]_runnerVars /\ WF_runnerVars(RunnerStep)

-----------------------------------------------------------------------------
IsWritten(r) == \A i \in DOMAIN EtlTables[r.id] : r \in ToSet(target[EtlTables[r.id][i]])

(* The mark in the state file is not above a source row that has not been  *)
(* written: every later pass, of this process or of a restarted one, reads *)
(* only rows above the mark and would never write that row.                *)
MarkCoversWritten ==
    disk # None => \A i \in DOMAIN source : source[i].wm <= disk => IsWritten(source[i])

(* Only a save in a process that has had a failed pass breaks this: passes *)
(* that fail, crash at any point or are repeated after a crash do not.     *)
LostOnlyAfterError ==
    [][MarkCoversWritten /\ ~MarkCoversWritten' => erred /\ step = "rename"]_runnerVars

(* The marks only grow, in the file for ever and in memory for the life of *)
(* the process.                                                            *)
MarkNeverFalls ==
    [][/\ disk # None => disk' # None /\ disk' >= disk
       /\ up /\ up' /\ mem # None => mem' # None /\ mem' >= mem]_runnerVars

(* The mark in memory is never behind the file that a restart would load,  *)
(* and a mark above the file means work of a pass that was not finished.   *)
MarkInMemory ==
    /\ up /\ disk # None => mem # None /\ mem >= disk
    /\ up /\ mem # disk => step # "idle" \/ erred

(* A source row above the mark of the state file is written in the end,    *)
(* unless it is updated first, a pass fails or the process dies.           *)
EventuallyWritten ==
    \A r \in SourceRows :
        (r \in ToSet(source) /\ (disk = None \/ r.wm > disk))
            ~> (IsWritten(r) \/ r \notin ToSet(source) \/ erred \/ ~up)
=============================================================================
