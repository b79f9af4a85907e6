------------------------------ MODULE DataPath ------------------------------
(***************************************************************************)
(* The data of a job's passes: from the cells of the source table to the   *)
(* rows of the target tables, and from the marks of the rows that were     *)
(* read to the next query (reader.rs, templates.rs, state.rs, runner.rs,   *)
(* the writer's batches and the database plugins).  Passes follow one      *)
(* another while the source grows, a call into the target may fail or its  *)
(* answer be lost, the process may end and start again, and a second job   *)
(* saves its own state in the same directory.                              *)
(*                                                                         *)
(* JobRunner has the interleavings of a pass with its source and its       *)
(* crashes over abstract rows; here a pass has one writer, and the values, *)
(* dialects and steps are the program's own.                               *)
(***************************************************************************)
EXTENDS Dialects, FiniteSets

CONSTANTS Jobs_,      \* the jobs and their databases, a sequence
          Clean,      \* the characters of a name that a file name keeps
          Env,        \* the names of the environment variables
          MaxPasses, MaxFaults, MaxCrashes  \* bounds

VARIABLES job,      \* this job and its databases, one of Jobs_
          have,     \* how many of the job's source rows are there
          up,       \* whether the process runs
          step,     \* where run_once is, or "gone": the thread of the job has ended
          mem,      \* StateStore.values: the mark, or NoMark
          files,    \* state_dir: file name -> the JSON of the mark in it
          low,      \* the literal of the mark in the reader's query
          offset,   \* Reader.offset
          todo,     \* the rows of the page the ETL has not seen
          out,      \* the outputs of a row still to be bucketed
          buckets,  \* table -> rows
          batch,    \* the batch in write_batch, or NoBatch
          truncated, \* the tables this pass has truncated
          attempt,  \* the failed attempts to insert the batch
          target,   \* table -> its columns, its key and its rows
          from,     \* how many source rows there were when the pass started
          read,     \* history: source row -> how many there were when it was last read
          passed,   \* history: from, of the last pass that returned Ok
          sent,     \* history: the rows this process (for mode full: this pass) has
                    \* put out, with their tables
          began,    \* history: the target before the first of these was written
          erred,    \* history: a pass has returned Err
          passes, faults, crashes  \* counted for the bounds

sourceVars == <<job, have>>
writerVars == <<truncated, attempt>>
passVars == <<step, low, offset, todo, out, buckets, batch, from, writerVars>>
historyVars == <<read, passed, sent, began>>
pathVars == <<sourceVars, up, mem, files, passVars, target, historyVars, erred, passes, faults, crashes>>

NoMark == [none |-> TRUE]

\* The cells a column of a type can have, and the values marks are made of.
Cells(type) ==
    {Null} \cup IF type \in NumberTypes \ {"decimal"} THEN [n : IF type = "double" THEN Int ELSE Whole]
                ELSE [s : IF type = "decimal" THEN DOMAIN Numeral ELSE ToSet(Lex)]
MarkValues ==
    [int : Int] \cup [uint : Nat] \cup [float : Int]
    \cup [decimal : ToSet(Lex)] \cup [string : ToSet(Lex)] \cup [date : ToSet(Lex)]

\* The filter conditions whose operand is a number or a text, as
\* resolve_literal reads it.
Conditions(types) ==
    [column : DOMAIN types, op : {"eq", "ne", "gt", "gte", "lt", "lte"},
     literal : [int : Whole] \cup [float : Int] \cup [string : ToSet(Lex)]]

\* A table has its columns, a key of some of them and rows of all of them
\* that keep the key.
IsTable(table) ==
    LET columns == DOMAIN table.columns
    IN  /\ table = [columns |-> table.columns, key |-> table.key, rows |-> table.rows]
        /\ table.key \subseteq columns /\ Len(table.rows) \in Nat
        /\ table.rows = [i \in 1..Len(table.rows) |-> [c \in columns |-> table.rows[i][c]]]
        /\ KeyHolds(table.rows, table.key)

ASSUME JobsAssumption ==
    \A w \in DOMAIN Jobs_ :
        LET j == Jobs_[w]
        IN  /\ Len(j.rows) \in Nat /\ j.initial \in 0..Len(j.rows)
            /\ {j.page, j.threshold} \subseteq Nat \ {0}
            /\ j.mode \in {"full", "upsert", "append"} /\ j.retry \in Nat
            /\ j.mark \in DOMAIN j.types
            /\ \A c \in DOMAIN j.types :
                  /\ j.types[c] \in NumberTypes \cup TimeTypes \cup TextTypes
                  /\ \A i \in 1..Len(j.rows) : j.rows[i][c] \in Cells(j.types[c])
            /\ \A i \in 1..Len(j.rows) : j.rows[i][j.mark] \in [n : Int] => j.rows[i][j.mark].n \in Whole
            /\ j.neighbour_mark \in MarkValues \cup {NoMark}
            /\ j.neighbour_mark \in [float : Int] => j.neighbour_mark.float \in Whole
            /\ j.conditions \subseteq Conditions(j.types)
            /\ {j.source, j.target} \subseteq {"mysql", "postgresql", "oracle"}
            /\ Len(j.etl) \in Nat /\ Len(j.details) \in Nat
            /\ \A k \in 1..Len(j.etl) :
                  /\ j.etl[k].name \in {"rename", "set", "cast", "filter", "order_split"}
                  /\ j.etl[k].name = "order_split" => j.etl[k].limit \in Nat /\ j.etl[k].detail_table # NoTable
            /\ \A t \in DOMAIN j.tables : IsTable(j.tables[t])
ASSUME BoundsAssumption == {MaxPasses, MaxFaults, MaxCrashes} \subseteq Nat
NoBatch == [table |-> "", rows |-> <<>>]

\* safe_file_name.
safe_file_name(name) == [i \in DOMAIN name |-> IF name[i] \in Clean THEN name[i] ELSE "_"]
StateFile == safe_file_name(job.name)

PathInit ==
    /\ \E w \in DOMAIN Jobs_ : job = Jobs_[w]
    /\ have = job.initial
    /\ up = TRUE /\ step = "idle" /\ mem = NoMark /\ files = <<>>
    /\ low = NoMark /\ offset = 0 /\ todo = <<>> /\ out = <<>>
    /\ buckets = <<>> /\ batch = NoBatch /\ truncated = {} /\ attempt = 0
    /\ target = job.tables /\ began = target
    /\ from = 0 /\ read = <<>> /\ passed = 0 /\ sent = <<>>
    /\ erred = FALSE /\ passes = 0 /\ faults = 0 /\ crashes = 0

\* The source table grows between the passes (external).
SourceInsert ==
    /\ step = "idle" /\ have < Len(job.rows)
    /\ have' = have + 1
    /\ UNCHANGED <<job, up, mem, files, passVars, target, historyVars, erred, passes, faults, crashes>>

-----------------------------------------------------------------------------
(* The source rows as the plugin returns them, and as the database keeps   *)
(* or skips them.                                                          *)

Selected == IF job.select \/ job.source_columns = <<>> THEN DOMAIN job.types ELSE ToSet(job.source_columns)
Row(i) == [c \in Selected |-> Reads(job.source, job.types[c], job.rows[i][c])]
MarkCell(i) == job.rows[i][job.mark]
MarkType == job.types[job.mark]
MarkRead(i) == ValueAt(Row(i), job.mark)
Mark(i) == state_to_literal(MarkRead(i))

\* The rows of `WHERE mark > literal`, in the order of the table.
Query(n, literal) ==
    LET found[i \in 0..n] ==
            IF i = 0 THEN <<>>
            ELSE IF Above(job.source, MarkType, MarkCell(i), literal) THEN Append(found[i - 1], i)
            ELSE found[i - 1]
    IN  found[n]

-----------------------------------------------------------------------------
(* Reader::new.                                                            *)

Template == job.where
UsesMark == \E i \in DOMAIN Template : "state" \in DOMAIN Template[i]

\* expand_token: an environment variable has to be set, a format has to be
\* made of the documented specifiers, an offset of a number and a unit, a
\* state key has to be declared; any other token is an error.  `%%` is handed
\* on as a bare %, with which chrono cannot print a time: it panics.
Expands(token) ==
    CASE "text" \in DOMAIN token -> TRUE
      [] "state" \in DOMAIN token -> token.state = job.key
      [] "env" \in DOMAIN token -> token.env \in Env
      [] "now" \in DOMAIN token ->
            /\ token.now \in {"Y", "y", "m", "d", "H", "M", "S", "F", "T", "z", "Z"}
            /\ token.unit \in {"", "S", "M", "H", "D"}
      [] OTHER -> FALSE
Panics(token) == "now" \in DOMAIN token /\ token.now = "%" /\ token.unit \in {"", "S", "M", "H", "D"}

\* resolve_state_default: `schema` gives the type of the marked column, or "".
Resolved(schema) ==
    IF mem # NoMark THEN state_to_literal(mem)
    ELSE IF schema = "" THEN [number |-> 0] ELSE default_literal(schema)

\* The schema is that of the table.  A custom select is probed for one row
\* instead, with the literal that is used when there is no schema.
ProbedType ==
    LET literal == Resolved("")
        sample == Query(have, literal)
    IN  IF ~Comparable(job.source, MarkType, literal) \/ sample = <<>> THEN ""
        ELSE infer_type(MarkRead(sample[1]))

Schema == IF job.select THEN ProbedType ELSE MarkType

\* Every `?` of run_once.
ReturnErr ==
    /\ step' = "idle" /\ erred' = TRUE
    /\ todo' = <<>> /\ out' = <<>> /\ batch' = NoBatch /\ buckets' = <<>>
    /\ truncated' = {} /\ attempt' = 0
    /\ UNCHANGED <<low, offset, from>>

\* A cron occurrence.  get_schema or the probe may fail, which is no error of
\* the pass.  A panic ends the thread of the job.  (The history of a full job
\* starts anew, for its pass will truncate.)
StartPass ==
    /\ up /\ step = "idle" /\ passes < MaxPasses
    /\ passes' = passes + 1
    /\ \E schema \in {Schema} \cup IF faults < MaxFaults THEN {""} ELSE {} :
         /\ faults' = IF schema = Schema THEN faults ELSE faults + 1
         /\ LET bad == SelectInSeq(Template, LAMBDA token : ~Expands(token))
            IN  IF bad = 0
                THEN /\ step' = "reading" /\ offset' = 0 /\ from' = have
                     /\ low' = IF UsesMark THEN Resolved(schema) ELSE NoMark
                     /\ UNCHANGED <<todo, out, buckets, batch, writerVars, erred>>
                ELSE IF Panics(Template[bad])
                THEN step' = "gone" /\ UNCHANGED <<low, offset, todo, out, buckets, batch, writerVars, from, erred>>
                ELSE ReturnErr
    /\ IF job.mode = "full" THEN sent' = <<>> /\ began' = target ELSE UNCHANGED <<sent, began>>
    /\ UNCHANGED <<sourceVars, up, mem, files, target, read, passed, crashes>>

-----------------------------------------------------------------------------
(* Reading a page.                                                         *)

\* Plausible bug: the marks of a page are compared as text.
UpdateStateAsText(page) ==
    LET Later(best, i) ==
            LET v == MarkRead(i)
            IN  IF v = Null THEN best
                ELSE IF best = NoMark \/ (IsText(v) /\ IsText(best) /\ Place(TextOf(v)) > Place(TextOf(best)))
                     THEN v ELSE best
    IN  FoldLeft(Later, mem, page)

\* update_state: the best of the page, then that against the stored mark.
\* A state key whose type is not max is ignored.
UpdateState(page) ==
    LET best[n \in 0..Len(page)] ==
            IF n = 0 THEN NoMark
            ELSE LET v == MarkRead(page[n])
                 IN  IF v # Null /\ (best[n - 1] = NoMark \/ value_gt(v, best[n - 1])) THEN v ELSE best[n - 1]
        found == best[Len(page)]
    IN  IF job.kind = "max" /\ found # NoMark /\ (mem = NoMark \/ value_gt(found, mem)) THEN found ELSE mem

\* Plausible bug: the rows of a page are counted from 1.
PageCountedFromOne(all) == SubSeq(all, offset + 2, IF offset + job.page < Len(all) THEN offset + job.page + 1 ELSE Len(all))

\* LIMIT and OFFSET.
Page(all) == SubSeq(all, offset + 1, IF offset + job.page < Len(all) THEN offset + job.page ELSE Len(all))

\* The rows the query of this pass selects.
Asked == IF UsesMark THEN Query(have, low) ELSE [i \in 1..have |-> i]

\* next_page and update_state.
NextPage ==
    /\ up /\ step = "reading"
    /\ LET page == Page(Asked)
       IN  IF UsesMark /\ ~Comparable(job.source, MarkType, low)
           THEN ReturnErr /\ UNCHANGED <<mem, read>>
           ELSE /\ offset' = offset + job.page
                /\ step' = IF page = <<>> THEN "draining" ELSE "rows"
                /\ todo' = page /\ mem' = UpdateState(page) /\ read' = [i \in DOMAIN read \cup ToSet(page) |-> IF i \in ToSet(page) THEN have ELSE read[i]]
                /\ UNCHANGED <<low, out, buckets, batch, writerVars, from, erred>>
    /\ UNCHANGED <<sourceVars, up, files, target, passed, sent, began, passes, faults, crashes>>

-----------------------------------------------------------------------------
(* From a source row to the batches.                                       *)

\* The lookup callback: order_split writes its condition with `?`, which
\* only the MySQL plugin takes as a parameter.
Details == IF job.source = "mysql" THEN Ok(job.details) ELSE Err

\* run_etl.
Outputs(i) ==
    Run(job.etl, map_columns(Row(i), job.source_columns, job.target_columns), job.table, Details)

RunEtl ==
    /\ up /\ step = "rows" /\ out = <<>> /\ batch = NoBatch
    /\ IF todo = <<>>
       THEN step' = "reading" /\ UNCHANGED <<low, offset, todo, out, buckets, batch, writerVars, from, sent, erred>>
       ELSE IF ~IsOk(Outputs(todo[1])) THEN ReturnErr /\ UNCHANGED sent
       ELSE /\ out' = LET rows == Outputs(todo[1]).ok
                      IN  [k \in DOMAIN rows |-> [rows[k] EXCEPT !.table = target_table(@, job.table)]]
            /\ todo' = Tail(todo) /\ sent' = sent \o out'
            /\ UNCHANGED <<step, low, offset, buckets, batch, writerVars, from, erred>>
    /\ UNCHANGED <<sourceVars, up, mem, files, target, read, passed, began, passes, faults, crashes>>

\* The inner loop of drain_single; a full bucket is flushed.
PushUpTo(limit) ==
    /\ up /\ step = "rows" /\ out # <<>> /\ batch = NoBatch
    /\ LET t == Head(out).table
           bucket == Append(IF t \in DOMAIN buckets THEN buckets[t] ELSE <<>>, Head(out).row)
           full == Len(bucket) >= limit
       IN  /\ buckets' = IF full THEN Without(buckets, t) ELSE With(buckets, t, bucket)
           /\ batch' = IF full THEN [table |-> t, rows |-> bucket] ELSE NoBatch
    /\ out' = Tail(out)
    /\ UNCHANGED <<step, low, offset, todo, writerVars, from, sourceVars, up, mem, files, target, historyVars,
                   erred, passes, faults, crashes>>

\* Plausible bug: a bucket is flushed one row late.
PushRowLate == PushUpTo(job.threshold + 1)
PushRow == PushUpTo(job.threshold)

\* run_once after drain_single, table by table.
Drain ==
    /\ up /\ step = "draining" /\ batch = NoBatch
    /\ \E t \in DOMAIN buckets :
         /\ batch' = [table |-> t, rows |-> buckets[t]]
         /\ buckets' = Without(buckets, t)
    /\ UNCHANGED <<step, low, offset, todo, out, writerVars, from, sourceVars, up, mem, files, target, historyVars,
                   erred, passes, faults, crashes>>

-----------------------------------------------------------------------------
(* write_batch.                                                            *)

\* A call into the target fails.
Fault == faults < MaxFaults /\ faults' = faults + 1

\* Mode full: the first batch for a table in a pass truncates it.  A truncate
\* that fails is not tried again, and may have been applied.
Truncate ==
    LET emptied == [target EXCEPT ![batch.table].rows = <<>>]
    IN  /\ up /\ batch # NoBatch /\ job.mode = "full" /\ batch.table \notin truncated
        /\ \/ /\ batch.table \in DOMAIN target
              /\ target' = emptied /\ began' = [began EXCEPT ![batch.table].rows = <<>>]
              /\ truncated' = truncated \cup {batch.table}
              /\ UNCHANGED <<step, low, offset, todo, out, buckets, batch, attempt, from, erred, faults>>
           \/ /\ batch.table \in DOMAIN target /\ Fault /\ ReturnErr
              /\ target' \in {target, emptied} /\ UNCHANGED began
           \/ /\ batch.table \notin DOMAIN target /\ ReturnErr
              /\ UNCHANGED <<target, began, faults>>
        /\ UNCHANGED <<sourceVars, up, mem, files, read, passed, sent, passes, crashes>>

\* Plausible bug: the job's key is taken for the key of every table.
pk_for_every(table) == job.pk

\* pk_for.
pk_for(table) == IF table = job.table THEN job.pk ELSE {}
Inserted(dialect, table) ==
    BatchInsert(dialect, table, batch.rows, job.mode, pk_for(batch.table))

\* An attempt of write_batch.  One that goes in may fail all the same, before
\* or after, and is repeated up to `retry` times.  One that cannot go in (its
\* table is not there, say) fails each time.
WriteBatch ==
    LET result == IF batch.table \in DOMAIN target THEN Inserted(job.target, target[batch.table]) ELSE Failed(<<>>)
        written == [target EXCEPT ![batch.table] = result.table]
    IN  /\ up /\ batch # NoBatch /\ (job.mode = "full" => batch.table \in truncated)
        /\ \/ /\ result.ok
              /\ target' = written /\ batch' = NoBatch /\ attempt' = 0
              /\ UNCHANGED <<step, low, offset, todo, out, buckets, truncated, from, erred, faults>>
           \/ /\ result.ok /\ attempt < job.retry /\ Fault
              /\ target' \in {target, written} /\ attempt' = attempt + 1
              /\ UNCHANGED <<step, low, offset, todo, out, buckets, batch, truncated, from, erred>>
           \/ /\ result.ok /\ attempt = job.retry /\ Fault
              /\ target' \in {target, written} /\ ReturnErr
           \/ /\ ~result.ok /\ ReturnErr
              /\ UNCHANGED <<target, faults>>
        /\ UNCHANGED <<sourceVars, up, mem, files, historyVars, passes, crashes>>

-----------------------------------------------------------------------------
(* The state file.                                                         *)

Saved(file, mark) == [f \in DOMAIN files \cup {file} |-> IF f = file THEN mark ELSE files[f]]

\* StateStore::save, and run_once returns Ok.
Save ==
    /\ up /\ step = "draining" /\ batch = NoBatch /\ buckets = <<>>
    /\ step' = "idle" /\ passed' = from /\ truncated' = {}
    /\ files' = Saved(StateFile, IF mem = NoMark THEN NoMark ELSE ToJson(mem))
    /\ UNCHANGED <<low, offset, todo, out, buckets, batch, attempt, from, sourceVars, up, mem, target, read, sent, began,
                   erred, passes, faults, crashes>>

\* The other job of this directory saves the mark it has.
NeighbourSaves ==
    /\ job.neighbour # <<>>
    /\ files' = Saved(safe_file_name(job.neighbour), ToJson(job.neighbour_mark))
    /\ UNCHANGED <<sourceVars, up, mem, passVars, target, historyVars, erred, passes, faults, crashes>>

Crash ==
    /\ up /\ crashes < MaxCrashes
    /\ up' = FALSE /\ crashes' = crashes + 1 /\ step' = "idle" /\ mem' = NoMark
    /\ low' = NoMark /\ offset' = 0 /\ todo' = <<>> /\ out' = <<>> /\ batch' = NoBatch
    /\ buckets' = <<>> /\ truncated' = {} /\ attempt' = 0 /\ from' = 0 /\ sent' = <<>>
    /\ UNCHANGED <<sourceVars, files, target, read, passed, began, erred, passes, faults>>

\* StateStore::load.
Restart ==
    /\ ~up /\ up' = TRUE
    /\ mem' = IF StateFile \in DOMAIN files /\ files[StateFile] # NoMark
              THEN FromJson(files[StateFile]) ELSE NoMark
    /\ began' = target
    /\ UNCHANGED <<sourceVars, files, passVars, target, read, passed, sent, erred, passes, faults, crashes>>

PathStep == StartPass \/ NextPage \/ RunEtl \/ PushRow \/ Drain \/ Truncate \/ WriteBatch \/ Save
PathNext == PathStep \/ SourceInsert \/ NeighbourSaves \/ Crash \/ Restart
PathSpec == PathInit /\ [][PathNext]_pathVars

-----------------------------------------------------------------------------
DataTypeOK ==
    /\ have \in job.initial..Len(job.rows) /\ {from, passed} \subseteq 0..have
    /\ step \in {"idle", "reading", "rows", "draining", "gone"}
    /\ step # "idle" => up
    /\ {up, erred} \subseteq BOOLEAN
    /\ offset \in Nat /\ ToSet(todo) \cup DOMAIN read \subseteq 1..have
    /\ DOMAIN target = DOMAIN job.tables
    /\ \A t \in DOMAIN buckets : Len(buckets[t]) \in 1..(job.threshold - 1)
    /\ Len(batch.rows) <= job.threshold
    /\ truncated \subseteq DOMAIN target /\ attempt \in 0..job.retry
    /\ passes \in 0..MaxPasses /\ faults \in 0..MaxFaults /\ crashes \in 0..MaxCrashes

\* The last pass ended with Ok, and nothing has happened to the process since.
Settled == up /\ step = "idle" /\ ~erred /\ from = passed /\ passed > 0
SharesFile == job.neighbour # <<>> /\ safe_file_name(job.neighbour) = StateFile
\* The literal of a first run whose schema was read, was probed, or failed.
FirstRun == {default_literal(MarkType)} \cup IF job.select \/ faults > 0 THEN {[number |-> 0]} ELSE {}

(* A pass that ends with Ok has read every row the source had when it      *)
(* started, in this pass or an earlier one, whatever the type of the mark  *)
(* and however often it went through the state file.  What it does not     *)
(* read are NULL marks, rows that are not above the literal of the first   *)
(* run (0, '' or the earliest date), rows that came with a mark no higher  *)
(* than that of a row read before, and what a foreign mark hides.          *)
NothingSkipped ==
    ~erred /\ job.kind = "max" =>
        \A i \in 1..passed :
            \/ i \in DOMAIN read
            \/ \E k \in DOMAIN read : read[k] < i /\ ~Above(job.source, MarkType, MarkCell(i), Mark(k))
            \/ \E literal \in FirstRun : ~Above(job.source, MarkType, MarkCell(i), literal)
            \/ SharesFile

\* What the database orders the rows by.
Degree(i) ==
    IF MarkType \in NumberTypes THEN NumberIn(MarkCell(i)) ELSE Rank(job.source, MarkType, MarkCell(i).s)

\* Two marks that were read have another order as text, and marks are compared
\* as text: those of a text column are, and those of a decimal column from when
\* one has come back from the state file.
OrdersDiffer ==
    /\ MarkType \in TextTypes \/ (MarkType = "decimal" /\ crashes > 0)
    /\ \E j, k \in {k \in DOMAIN read : MarkCell(k) # Null} :
          Degree(j) < Degree(k) /\ Place(MarkCell(j).s) > Place(MarkCell(k).s)

(* A source that does not change is read once: after a pass that returned  *)
(* Ok its mark selects no row again, unless                                *)
(*  - the plugin cannot read the mark's type or the query does not select  *)
(*    it, so that there is no mark,                                        *)
(*  - the database orders the marks in another way than the program,       *)
(*  - two marks are the same f64,                                          *)
(*  - the row was not above the literal of the first run, which is a       *)
(*    number for a text, too, when the schema could not be read, or        *)
(*  - the mark is another job's.                                           *)
RereadsHaveACause ==
    LET again == Query(have, IF mem = NoMark THEN low ELSE state_to_literal(mem))
        Cause(i) ==
            \/ mem = NoMark /\ MarkRead(i) = Null
            \/ OrdersDiffer
            \/ IsNumber(mem) /\ AsF64(MarkRead(i)) = AsF64(mem)
            \/ \E first \in FirstRun : ~Above(job.source, MarkType, MarkCell(i), first)
    IN  Settled /\ passed = have /\ UsesMark /\ job.kind = "max" /\ ~SharesFile =>
            \A i \in ToSet(again) : Cause(i)

(* The mark, in memory or after a restart, is one that this job has read,  *)
(* and stands in the query as it would have without the state file.  Two   *)
(* jobs whose names differ in replaced characters only have one file, and  *)
(* each may start from the other's mark.                                   *)
MarkIsARowRead ==
    mem # NoMark =>
        \/ \E i \in DOMAIN read : Mark(i) = state_to_literal(mem)
        \/ SharesFile /\ state_to_literal(mem) = state_to_literal(job.neighbour_mark)

(* The three plugins leave the same rows behind, whichever of them writes  *)
(* a batch whose declared key is the table's, and all of them write it,    *)
(* unless it repeats a key.  (A repeated key is the last row to MySQL and  *)
(* an error to the others: whether such a pass fails depends on where the  *)
(* batches end.)                                                           *)
PluginsAgree ==
    LET table == target[batch.table]
        pk == pk_for(batch.table)
        all == {"mysql", "postgresql", "oracle"}
        New(d, i) == AsInserted(d, table, batch.rows[i])
        ordinary ==
            /\ \A d \in all : Binds(d, table, Normalise(batch.rows))
            /\ \A i \in DOMAIN batch.rows : \A d, e \in all : New(d, i) = New(e, i)
            /\ \A i \in DOMAIN batch.rows : \A c \in pk : New("mysql", i)[c] # Null
    IN  /\ batch.rows # <<>> /\ batch.table \in DOMAIN target /\ job.mode = "upsert"
        /\ pk # {} /\ pk = table.key /\ ordinary
        =>  LET result == [d \in all |-> Inserted(d, table)]
                update == UpdateColumns(Normalise(batch.rows), pk)
            IN  /\ \A d, e \in all : result[d].ok /\ result[e].ok => result[d] = result[e]
                /\ result["mysql"].ok \/ update = {}
                /\ ~Repeats("mysql", table, batch.rows, pk) => result["postgresql"].ok /\ result["oracle"].ok

(* A batch that was applied although its answer was lost can be sent again *)
(* by an upsert job and changes nothing, but                               *)
(*  - MySQL goes by the key of the table: without one it inserts the rows  *)
(*    again, and when all columns of the job are key columns it is sent a  *)
(*    plain INSERT and rejects it;                                         *)
(*  - Oracle takes any columns for the key: unless they are that of the    *)
(*    table, rows that have a NULL in them or repeat one another are not   *)
(*    told apart.                                                          *)
UpsertIsRepeatable ==
    LET table == target[batch.table]
        rows == Normalise(batch.rows)
        pk == pk_for(batch.table)
        first == Inserted(job.target, table)
        New(n) == AsInserted("oracle", table, rows[n])
        byKey ==
            \/ job.target = "mysql" /\ table.key # {} /\ UpdateColumns(rows, pk) # {}
            \/ job.target # "mysql" /\ pk = table.key
            \/ job.target = "oracle" /\ \A n, m \in DOMAIN rows : SameKey(New(n), New(m), pk) <=> n = m
    IN  batch.table \in DOMAIN target /\ job.mode = "upsert" /\ pk # {} /\ byKey =>
            (first.ok => Inserted(job.target, first.table) = first)

(* After a pass that returned Ok every key that this process, or this pass *)
(* of mode full, has put out for the job's table has one row there, with   *)
(* the values of the last row of that key.  A column this last row does    *)
(* not have keeps an earlier value, or is NULL when another row of its     *)
(* batch had the column.  Not so where an upsert declares other columns    *)
(* than the key of the table: MySQL never sets those again, and Oracle     *)
(* sets those of the key in a row it takes for the same.  After a pass of  *)
(* mode full that has put out a row for the table, nothing else is there.  *)
TargetHoldsNewest ==
    LET table == target[job.table]
        mine == {n \in DOMAIN sent : sent[n].table = job.table}
        New(n) == AsInserted(job.target, table, sent[n].row)
        Newest == {n \in mine : \A m \in mine : SameKey(New(m), New(n), table.key) => m <= n}
        Before(n, c) == {New(m)[c] : m \in {m \in mine : m < n /\ SameKey(New(m), New(n), table.key)
                                                           /\ c \in DOMAIN sent[m].row}}
        AtFirst(n, c) == {row[c] : row \in {row \in ToSet(began[job.table].rows) : SameKey(row, New(n), table.key)}}
        There(n) == {p \in DOMAIN table.rows : SameKey(table.rows[p], New(n), table.key)}
    IN  /\ Settled /\ job.table \in DOMAIN target /\ table.key # {}
        /\ job.mode = "upsert" /\ job.target # "postgresql" => job.pk \in {{}, table.key}
        =>  /\ \A n \in Newest : \E p \in There(n) :
                /\ There(n) = {p}
                /\ \A c \in DOMAIN table.columns \ table.key :
                      IF c \in DOMAIN sent[n].row THEN table.rows[p][c] = New(n)[c]
                      ELSE table.rows[p][c] \in Before(n, c) \cup AtFirst(n, c) \cup {Null}
            /\ job.mode = "full" /\ mine # {} =>
                  \A p \in DOMAIN table.rows : \E n \in mine : SameKey(table.rows[p], New(n), table.key)

(* The details order_split makes go to their table when it is the last     *)
(* step; any step after it sends them to the table of the job, and no      *)
(* other table ever sees a row.  When it is the last step, each header     *)
(* that keeps its key is followed by the details of the source that have   *)
(* the key, in their order: all of them, or `limit`, and no others.        *)
DetailsReachTheirTable ==
    LET last == job.etl[Len(job.etl)]
        splits == Len(job.etl) > 0 /\ last.name = "order_split"
        tables == {job.table} \cup IF splits THEN {last.detail_table} ELSE {}
        Matches(n) ==
            LET key == ValueAt(sent[n].row, last.parent_key)
            IN  {m \in 1..Len(job.details) : key # Null /\ job.details[m][last.child_key] = key}
        Position(n, m) == Cardinality({x \in Matches(n) : x <= m})
        Total(n) == Cardinality(Matches(n))
        End(n) == n + 1 + IF Total(n) < last.limit THEN Total(n) ELSE last.limit
        FollowedByDetails(n) ==
            /\ \A m \in Matches(n) : Position(n, m) <= last.limit =>
                  /\ n + Position(n, m) \in DOMAIN sent
                  /\ sent[n + Position(n, m)] = Output(last.detail_table, Detail(last, job.details[m]))
            /\ End(n) \in DOMAIN sent => sent[End(n)].table = job.table
    IN  /\ \A n \in DOMAIN sent : sent[n].table \in tables
        /\ \A t \in DOMAIN target \ tables : target[t] = job.tables[t]
        /\ splits /\ last.detail_table # job.table =>
              /\ sent # <<>> => sent[1].table = job.table
              /\ \A n \in DOMAIN sent :
                    sent[n].table = job.table /\ (last.keep = {} \/ last.parent_key \in last.keep) => FollowedByDetails(n)

\* The rows a job puts out when all of its source rows are read, each at its
\* place: a source row, and which output of it.
Places == UNION {{<<i, m, Outputs(i).ok[m]>> : m \in DOMAIN Outputs(i).ok} : i \in 1..Len(job.rows)}
RowAt(p) == p[3].row
TableAt(p) == target_table(p[3].table, job.table)
KeyClash(r, s) ==
    LET table == job.tables[job.table]
    IN  SameKey(AsInserted(job.target, table, r), AsInserted(job.target, table, s), job.pk)

\* What a careful author of a job would see to.  The table of an output is
\* there and takes its row, with the columns of any other in its batch too;
\* a table beside the job's own has no key; a row of the job's has its key,
\* alone, and (for MySQL) more than its key.
TableTakes(p, q) ==
    /\ TableAt(p) \in DOMAIN job.tables
    /\ TableAt(p) # job.table => job.tables[TableAt(p)].key = {}
    /\ TableAt(q) = TableAt(p) =>
          Binds(job.target, job.tables[TableAt(p)], <<Only(RowAt(p), DOMAIN RowAt(q))>>)
KeyIsGood(p, q) ==
    /\ \A c \in job.pk : AsInserted(job.target, job.tables[job.table], RowAt(p))[c] # Null
    /\ q # p /\ TableAt(q) = job.table => ~KeyClash(RowAt(p), RowAt(q))
    /\ job.target = "mysql" /\ job.pk # {} => DOMAIN RowAt(p) # job.pk

\* Templates expand, the source can compare its column with any mark the job
\* may have, the declared key is the table's, and every row gets through.
WellSet ==
    /\ \A i \in 1..Len(job.where) : Expands(job.where[i])
    /\ \/ job.source = "mysql"
       \/ MarkType \in NumberTypes /\ ~SharesFile /\ (job.select => ~ReadAsNull(job.source, MarkType))
    /\ job.mode = "upsert" /\ job.table \in DOMAIN job.tables /\ job.pk = job.tables[job.table].key
    /\ \A i \in 1..Len(job.rows) : IsOk(Outputs(i))
    /\ \A p, q \in Places : TableTakes(p, q) /\ (TableAt(p) = job.table => KeyIsGood(p, q))

(* A job that is set up well never fails and its thread never ends, on any *)
(* of the databases, unless more calls fail than one batch may be tried    *)
(* again: not when rows are read again after a crash, when a batch is      *)
(* repeated, when the schema cannot be read or when batches end in unlucky *)
(* places.                                                                 *)
WellSetNeverFails == erred \/ step = "gone" => faults > job.retry \/ ~WellSet

\* The order of the two texts to the source database, and to the program.
Collated(type, s, t) == Rank(job.source, type, s) - Rank(job.source, type, t)
InOneOrder(type, s, t) ==
    /\ Collated(type, s, t) > 0 <=> Place(s) > Place(t)
    /\ Collated(type, s, t) < 0 <=> Place(s) < Place(t)

\* A filter condition as the source database would decide it.
SqlHolds(e, cell) ==
    LET literal == state_to_literal(e.literal)
        d == IF "number" \in DOMAIN literal THEN NumberIn(cell) - literal.number
             ELSE Collated(job.types[e.column], cell.s, literal.quoted)
    IN  CASE e.op = "eq" -> d = 0 [] e.op = "ne" -> d # 0
          [] e.op = "gt" -> d > 0 [] e.op = "gte" -> d >= 0
          [] e.op = "lt" -> d < 0 [] e.op = "lte" -> d <= 0

(* A filter keeps the rows the same condition keeps in the source's WHERE: *)
(* for numbers that an f64 holds, and for texts that the database has in   *)
(* the order of their bytes (nothing compares with '' to Oracle).  But     *)
(* `eq` and `ne` take numbers that are less than f64::EPSILON apart for    *)
(* the same, which the WHERE does not.  A NULL, which no WHERE keeps,      *)
(* passes `ne`, `lte`, against a number or '' `gte`, and against another   *)
(* text `lt`.                                                              *)
FiltersLikeWhere ==
    \A i \in ToSet(todo) : \A e \in job.conditions :
        LET v == ValueAt(Row(i), e.column)
            cell == job.rows[i][e.column]
            literal == state_to_literal(e.literal)
            kept == eval_condition(e, Row(i)).ok
            numbers == /\ IsNumber(e.literal) /\ IsNumber(v)
                       /\ {literal.number, NumberIn(cell)} \subseteq -Exact..Exact
            tooClose == /\ numbers /\ e.op \in {"eq", "ne"} /\ NumberIn(cell) # literal.number
                        /\ NumberIn(cell) - literal.number \in -(Epsilon - 1)..(Epsilon - 1)
            texts == /\ Is("string", e.literal) /\ Is("string", v)
                     /\ ~(job.source = "oracle" /\ literal = [quoted |-> ""])
                     /\ InOneOrder(job.types[e.column], cell.s, literal.quoted)
            others == IF literal = [quoted |-> ""] \/ IsNumber(e.literal) THEN {"gte"} ELSE {"lt"}
        IN  /\ v = Null => (kept <=> e.op \in {"ne", "lte"} \cup others)
            /\ numbers \/ texts => ((kept <=> SqlHolds(e, cell)) <=> ~tooClose)
=============================================================================
