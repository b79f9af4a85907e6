----------------------------- MODULE WriterPool -----------------------------
(***************************************************************************)
(* JobRunner::drain_multi and run_writer (runtime/runner.rs): the job      *)
(* thread reads pages, runs the ETL and routes every output row to one of  *)
(* N writer threads over a bounded channel; each writer collects rows per  *)
(* table and hands full buckets to its Writer.  The module covers several  *)
(* passes of one job, because a pass that returns an error leaves its      *)
(* writer threads running.                                                 *)
(***************************************************************************)
EXTENDS Naturals, Sequences, SequencesExt, FiniteSets

CONSTANTS N,          \* sync.writers of the job, more than one
          MaxPasses,  \* bound: passes of the job (cron occurrences)
          Tables, Main, Rows,
          KeyHash,    \* row -> hash_row of its primary key columns
          HasPk,      \* whether target.primary_key is not empty
          Output,     \* pass -> page -> source row -> its ETL output rows
          Capacity,   \* WRITER_CHANNEL_CAPACITY
          Threshold,  \* FLUSH_THRESHOLD
          Mode, Retry, MaxFaults,
          Prior       \* the target's tables before the first pass

\* A row says which table the ETL sent it to and which key and version of
\* the source row it carries.
TableOf(row) == row.table

Passes == 1..MaxPasses
Writers == Passes \X (1..N)
PassOf == [w \in Writers |-> w[1]]

ASSUME PoolAssumption ==
    /\ N \in Nat /\ N > 1
    /\ MaxPasses \in Nat
    /\ Main \in Tables
    /\ \A row \in Rows : row.table \in Tables
    /\ KeyHash \in [Rows -> Nat]
    /\ HasPk \in BOOLEAN
    /\ Output \in [Passes -> Seq(Seq(Seq(Rows)))]
    /\ Capacity \in Nat \ {0}
    /\ Threshold \in Nat \ {0}
    /\ Prior \in [Tables -> Seq(Rows)]
    /\ Mode \in {"full", "upsert", "append"}
    /\ {Retry, MaxFaults} \subseteq Nat

VARIABLES truncated, target, call, faults,  \* of Writer
          pass,     \* the pass that is running or was the last to run
          job,      \* [step, page, rows, out, joined] of the job thread
          result,   \* what run_once returned for each pass
          round,    \* Router.round of the current pass
          chan,     \* the bounded channel of each writer
          thread,   \* control state of each writer thread
          buckets,  \* HashMap<table, rows> of each writer thread
          written   \* rows each writer thread has counted as written

W == INSTANCE Writer

writerVars == <<truncated, target, call, faults>>
jobVars == <<pass, job, result, round>>
threadVars == <<chan, thread, buckets, written>>
poolVars == <<truncated, target, call, faults, pass, job, result, round,
              chan, thread, buckets, written>>

NoBuckets == [t \in Tables |-> <<>>]
Idle == [step |-> "idle", page |-> 0, rows |-> <<>>, out |-> <<>>, joined |-> 0]

(* The type of the state, and the bounds on the rows in memory: a pass does *)
(* not hold more than a page, the channels and the buckets at a time.       *)
PoolTypeOK ==
    /\ W!WriterTypeOK
    /\ pass \in 0..MaxPasses
    /\ job \in [step : {"idle", "reading", "sending", "joining"}, page : Nat,
                rows : Seq(Seq(Rows)), out : Seq(Rows), joined : 0..N]
    /\ result \in [Passes -> {"none", "running", "ok", "err"}]
    /\ round \in Nat
    /\ chan \in [Writers -> Seq(Rows)]
    /\ thread \in [Writers -> {"unborn", "recv", "flushing", "draining", "done", "failed"}]
    /\ buckets \in [Writers -> [Tables -> Seq(Rows)]]
    /\ written \in [Writers -> Nat]
    /\ \A w \in Writers : Len(chan[w]) <= Capacity
    /\ \A w \in Writers : \A t \in Tables : Len(buckets[w][t]) <= Threshold

PoolInit ==
    /\ W!WriterInit(Prior)
    /\ pass = 0
    /\ job = Idle
    /\ result = [p \in Passes |-> "none"]
    /\ round = 0
    /\ chan = [w \in Writers |-> <<>>]
    /\ thread = [w \in Writers |-> "unborn"]
    /\ buckets = [w \in Writers |-> NoBuckets]
    /\ written = [w \in Writers |-> 0]

-----------------------------------------------------------------------------
(* The job thread.                                                         *)

Ended(w) == thread[w] \in {"done", "failed"}
Mine(w) == w[1] = pass

\* `senders` lives in drain_multi: it is gone when the loop ends (drop) and
\* when the function returns early.
SendersOpen(w) == Mine(w) /\ job.step \in {"reading", "sending"}

\* The `?` on every call of run_once: senders and handles are dropped.
ReturnErr ==
    /\ job' = Idle
    /\ result' = [result EXCEPT ![pass] = "err"]

\* run_once up to the reading loop: a fresh truncate-once set and router,
\* and spawn_writers, which stops at the first thread it cannot create.
StartPass ==
    /\ job.step = "idle"
    /\ pass < MaxPasses
    /\ pass' = pass + 1
    /\ round' = 0
    /\ \E born \in 0..N :
         /\ thread' = [w \in Writers |-> IF w[1] = pass' /\ w[2] <= born
                                         THEN "recv" ELSE thread[w]]
         /\ \/ /\ born = N
               /\ job' = [Idle EXCEPT !.step = "reading"]
               /\ result' = [result EXCEPT ![pass'] = "running"]
               /\ UNCHANGED faults
            \/ /\ born < N
               /\ W!Fault
               /\ job' = Idle
               /\ result' = [result EXCEPT ![pass'] = "err"]
    /\ UNCHANGED <<truncated, target, call, chan, buckets, written>>

\* reader.next_page: the next page, the end of the source, or an error.
NextPage ==
    /\ job.step = "reading"
    /\ \/ /\ job.page < Len(Output[pass])
          /\ job' = [job EXCEPT !.step = "sending", !.page = @ + 1,
                                !.rows = Output[pass][job.page + 1]]
          /\ UNCHANGED <<result, faults>>
       \/ /\ job.page = Len(Output[pass])
          /\ job' = [job EXCEPT !.step = "joining"]
          /\ UNCHANGED <<result, faults>>
       \/ ReturnErr /\ W!Fault
    /\ UNCHANGED <<truncated, target, call, pass, round>>
    /\ UNCHANGED threadVars

\* Plausible bug: rows of the main table go round-robin as well.
RouteRoundRobin(row) == (round % N) + 1

\* Router::route.
Route(row) ==
    IF TableOf(row) = Main /\ HasPk THEN (KeyHash[row] % N) + 1 ELSE (round % N) + 1

RoundAfter(row) == IF TableOf(row) = Main /\ HasPk THEN round ELSE round + 1

\* Plausible bug: an unbounded channel.
SendRowUnbounded ==
    /\ job.step = "sending"
    /\ job.out # <<>>
    /\ LET row == Head(job.out)
           w == <<pass, Route(row)>>
       IN  /\ ~Ended(w)
           /\ round' = RoundAfter(row)
           /\ chan' = [chan EXCEPT ![w] = Append(@, row)]
           /\ job' = [job EXCEPT !.out = Tail(@)]
    /\ UNCHANGED <<truncated, target, call, faults, pass, result, thread, buckets, written>>

\* Plausible bug: the job thread waits for room in the channel of a writer
\* that is no longer there (a receiver kept alive past the thread's error).
SendRowBlocking ==
    /\ job.step = "sending"
    /\ job.out # <<>>
    /\ LET row == Head(job.out)
           w == <<pass, Route(row)>>
       IN  /\ ~Ended(w)
           /\ Len(chan[w]) < Capacity
           /\ round' = RoundAfter(row)
           /\ chan' = [chan EXCEPT ![w] = Append(@, row)]
           /\ job' = [job EXCEPT !.out = Tail(@)]
    /\ UNCHANGED <<truncated, target, call, faults, pass, result, thread, buckets, written>>

\* senders[idx].send: blocks while the channel is full, fails when the
\* receiver is gone.
SendRow ==
    /\ job.step = "sending"
    /\ job.out # <<>>
    /\ LET row == Head(job.out)
           w == <<pass, Route(row)>>
       IN  /\ round' = RoundAfter(row)
           /\ \/ /\ ~Ended(w)
                 /\ Len(chan[w]) < Capacity
                 /\ chan' = [chan EXCEPT ![w] = Append(@, row)]
                 /\ job' = [job EXCEPT !.out = Tail(@)]
                 /\ UNCHANGED result
              \/ /\ Ended(w)
                 /\ ReturnErr
                 /\ UNCHANGED chan
    /\ UNCHANGED <<truncated, target, call, faults, pass, thread, buckets, written>>

\* run_etl on the next source row of the page: its output rows, maybe none,
\* or an error.
RunEtl ==
    /\ job.step = "sending"
    /\ job.out = <<>>
    /\ job.rows # <<>>
    /\ \/ /\ job' = [job EXCEPT !.out = Head(job.rows), !.rows = Tail(@)]
          /\ UNCHANGED <<result, faults>>
       \/ ReturnErr /\ W!Fault
    /\ UNCHANGED <<truncated, target, call, pass, round>>
    /\ UNCHANGED threadVars

PageDone ==
    /\ job.step = "sending"
    /\ job.rows = <<>> /\ job.out = <<>>
    /\ job' = [job EXCEPT !.step = "reading"]
    /\ UNCHANGED <<pass, result, round>>
    /\ UNCHANGED writerVars /\ UNCHANGED threadVars

\* Plausible bug: the handles are dropped instead of joined, so the job
\* returns as soon as every row has been handed to a channel.
JoinNobody ==
    /\ job.step = "joining"
    /\ job' = Idle
    /\ result' = [result EXCEPT ![pass] = "ok"]
    /\ UNCHANGED <<pass, round>>
    /\ UNCHANGED writerVars /\ UNCHANGED threadVars

\* The join loop: handles in spawn order, returning at the first error.
Join ==
    /\ job.step = "joining"
    /\ \/ /\ job.joined < N
          /\ LET w == <<pass, job.joined + 1>>
             IN  \/ thread[w] = "done" /\ job' = [job EXCEPT !.joined = @ + 1]
                                       /\ UNCHANGED result
                 \/ thread[w] = "failed" /\ ReturnErr
       \/ /\ job.joined = N
          /\ job' = Idle
          /\ result' = [result EXCEPT ![pass] = "ok"]
    /\ UNCHANGED <<pass, round>>
    /\ UNCHANGED writerVars /\ UNCHANGED threadVars

JobStep == StartPass \/ NextPage \/ RunEtl \/ SendRow \/ PageDone \/ Join

-----------------------------------------------------------------------------
(* The writer threads (run_writer).                                        *)

\* rx.recv and the push to the row's bucket; at the threshold the bucket is
\* handed to write_batch.
Recv(w) ==
    /\ thread[w] = "recv"
    /\ chan[w] # <<>>
    /\ LET row == Head(chan[w])
           t == TableOf(row)
           bucket == Append(buckets[w][t], row)
       IN  /\ buckets' = [buckets EXCEPT ![w][t] = bucket]
           /\ IF Len(bucket) >= Threshold
              THEN /\ thread' = [thread EXCEPT ![w] = "flushing"]
                   /\ call' = [call EXCEPT ![w] = W!NewCall(t, bucket)]
              ELSE UNCHANGED <<thread, call>>
    /\ chan' = [chan EXCEPT ![w] = Tail(@)]
    /\ UNCHANGED <<truncated, target, faults, written>>
    /\ UNCHANGED jobVars

\* Plausible bug: buckets below the threshold are forgotten on shutdown.
DisconnectDroppingBuckets(w) ==
    /\ thread[w] = "recv"
    /\ chan[w] = <<>>
    /\ ~SendersOpen(w)
    /\ thread' = [thread EXCEPT ![w] = "draining"]
    /\ buckets' = [buckets EXCEPT ![w] = NoBuckets]
    /\ UNCHANGED <<chan, written>>
    /\ UNCHANGED writerVars /\ UNCHANGED jobVars

\* recv returns Err: the channel is empty and its sender was dropped.
Disconnect(w) ==
    /\ thread[w] = "recv"
    /\ chan[w] = <<>>
    /\ ~SendersOpen(w)
    /\ thread' = [thread EXCEPT ![w] = "draining"]
    /\ UNCHANGED <<chan, buckets, written>>
    /\ UNCHANGED writerVars /\ UNCHANGED jobVars

\* The loop over the remaining buckets, in HashMap order, then Ok(written).
Drain(w) ==
    /\ thread[w] = "draining"
    /\ call[w] = W!NoCall
    /\ \/ \E t \in Tables :
             /\ buckets[w][t] # <<>>
             /\ call' = [call EXCEPT ![w] = W!NewCall(t, buckets[w][t])]
             /\ UNCHANGED thread
       \/ /\ buckets[w] = NoBuckets
          /\ thread' = [thread EXCEPT ![w] = "done"]
          /\ UNCHANGED call
    /\ UNCHANGED <<truncated, target, faults, chan, buckets, written>>
    /\ UNCHANGED jobVars

\* write_batch has returned.  An error ends the thread, which drops the
\* receiver and every row still in the channel or in a bucket.
Written(w) ==
    /\ LET c == call[w]
       IN \/ /\ c.step = "ok"
             /\ written' = [written EXCEPT ![w] = @ + Len(c.rows)]
             /\ buckets' = [buckets EXCEPT ![w][c.table] = <<>>]
             /\ thread' = [thread EXCEPT ![w] = IF @ = "flushing" THEN "recv" ELSE @]
             /\ UNCHANGED chan
          \/ /\ c.step = "err"
             /\ thread' = [thread EXCEPT ![w] = "failed"]
             /\ buckets' = [buckets EXCEPT ![w] = NoBuckets]
             /\ chan' = [chan EXCEPT ![w] = <<>>]
             /\ UNCHANGED written
    /\ call' = [call EXCEPT ![w] = W!NoCall]
    /\ UNCHANGED <<truncated, target, faults>>
    /\ UNCHANGED jobVars

InWriteBatch(w) == W!WriteStep(w) /\ UNCHANGED jobVars /\ UNCHANGED threadVars

WriterStep(w) ==
    Recv(w) \/ Disconnect(w) \/ Drain(w) \/ InWriteBatch(w) \/ Written(w)

AllDone ==
    /\ pass = MaxPasses /\ job = Idle
    /\ \A w \in Writers : thread[w] = "unborn" \/ Ended(w)
    /\ UNCHANGED poolVars

PoolNext == JobStep \/ (\E w \in Writers : WriterStep(w)) \/ AllDone

\* Every thread is scheduled, calls into a datasource return, and cron has
\* another occurrence while the bound on passes allows one.
PoolSpec ==
    /\ PoolInit /\ [][PoolNext]_poolVars
    /\ WF_poolVars(JobStep)
    /\ \A w \in Writers : WF_poolVars(WriterStep(w))

-----------------------------------------------------------------------------
\* The ETL output rows of a sequence of source rows, and of a whole pass.
OutputOf(rows) == UNION {ToSet(rows[i]) : i \in DOMAIN rows}
RowsOf(p) == UNION {OutputOf(Output[p][i]) : i \in DOMAIN Output[p]}

\* Two rows, and if they are versions of one row of the main table the second
\* is not behind the first.
Older(r, s) ==
    /\ r # s
    /\ TableOf(r) = Main /\ TableOf(s) = Main /\ r.key = s.key => r.ver <= s.ver

OlderThan(R, S) == \A r \in R : \A s \in S : Older(r, s)
Sorted(rows) == \A i, k \in DOMAIN rows : i < k => Older(rows[i], rows[k])
InTurn(page) ==
    /\ \A i \in DOMAIN page : Sorted(page[i])
    /\ \A i, k \in DOMAIN page : i < k => OlderThan(ToSet(page[i]), ToSet(page[k]))

\* Among the rows of a set in a table, the last one of each key is the newest:
\* with upsert the last one is what a reader of the table sees.
NewestLast(table, rows) ==
    LET at == {i \in DOMAIN table : table[i] \in rows}
    IN  \A j \in at :
            (\A i \in at : table[i].key = table[j].key => i <= j) =>
            (\A i \in at : table[i].key = table[j].key => table[i].ver <= table[j].ver)

Copies(table, row) == Cardinality({i \in DOMAIN table : table[i] = row})

\* The hash is one of the key; every output row of the ETL is told apart, and
\* what is read later of a row of the source is not older.
ASSUME SourceAssumption ==
    /\ \A r, s \in Rows : r.key = s.key => KeyHash[r] = KeyHash[s]
    /\ \A row \in Rows : row.ver \in Nat
    /\ \A p \in Passes : \A i \in DOMAIN Output[p] :
          /\ InTurn(Output[p][i])
          /\ \A k \in DOMAIN Output[p] :
                i < k => OlderThan(OutputOf(Output[p][i]), OutputOf(Output[p][k]))
    /\ \A p, q \in Passes : p < q => OlderThan(RowsOf(p), RowsOf(q))
    /\ \A t \in Tables : \A p \in Passes : OlderThan(ToSet(Prior[t]), RowsOf(p))
    /\ NewestLast(Prior[Main], Rows) /\ \A row \in ToSet(Prior[Main]) : TableOf(row) = Main

(* A pass that returns Ok has written every output row of its ETL: none is *)
(* left in a channel or in a bucket below the flush threshold, and none    *)
(* was dropped with a writer that failed.                                  *)
OkMeansWritten ==
    \A p \in Passes : result[p] = "ok" =>
        \A row \in RowsOf(p) : row \in ToSet(target[TableOf(row)])

(* A pass that returns Ok has no writer thread left and hides no failure:  *)
(* each of its writers has returned Ok.                                    *)
OkMeansQuiet ==
    \A w \in Writers : result[w[1]] = "ok" => thread[w] = "done"

(* Within a pass an upsert never leaves an older version of a row over a   *)
(* newer one, whatever the interleaving of the writers, retries included:  *)
(* the rows of one key go through one channel and one bucket.              *)
KeyOrder == HasPk => \A p \in Passes : NewestLast(target[Main], RowsOf(p))

(* When a pass has returned Ok the newest version of every key is visible  *)
(* and stays so until the next pass.                                       *)
OkLeavesNewest ==
    HasPk /\ pass > 0 /\ job = Idle /\ result[pass] = "ok" => NewestLast(target[Main], Rows)

(* The newest version is always the visible one as long as no pass has     *)
(* returned an error: the next pass then starts only after the last row of *)
(* the one before it has been written.                                     *)
NewestOnTopAfterOk ==
    HasPk /\ (\A p \in Passes : result[p] # "err") => NewestLast(target[Main], Rows)

(* A row is written once, and once more at most for each call that failed  *)
(* (a retry repeats a batch whose acknowledgement was lost): neither the   *)
(* threshold flush and the final drain nor two writers write a row twice.  *)
OncePerFault ==
    \A t \in Tables : \A row \in ToSet(target[t]) \ ToSet(Prior[t]) :
        Copies(target[t], row) <= 1 + faults

(* After a full pass that returned Ok the tables it wrote hold nothing but *)
(* its own rows: nothing from before the pass survives.  (One pass: see    *)
(* the README for what the writers of a failed pass do to the next one.)   *)
FullReplaces ==
    Mode = "full" /\ result[1] = "ok" =>
        \A t \in Tables : (\E row \in RowsOf(1) : TableOf(row) = t) =>
                              ToSet(target[t]) \subseteq RowsOf(1)

(* A full pass that returned Ok leaves nothing older in the main table,    *)
(* whatever the source held.                                               *)
FullTruncates ==
    Mode = "full" /\ result[1] = "ok" => ToSet(target[Main]) \subseteq RowsOf(1)

(* The shared set lets one writer of a pass at a time truncate a table.    *)
OneTruncater ==
    \A v, w \in Writers :
        v # w /\ v[1] = w[1] /\ W!At(v, "truncate") /\ W!At(w, "truncate")
            => call[v].table # call[w].table

(* No deadlock between the blocking sends and the writers: every pass      *)
(* returns and every writer thread ends, whichever calls fail.             *)
EveryPassReturns ==
    /\ \A p \in Passes : result[p] = "running" ~> result[p] \in {"ok", "err"}
    /\ \A w \in Writers : thread[w] # "unborn" ~> Ended(w)
=============================================================================
