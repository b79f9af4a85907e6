------------------------------- MODULE Writer -------------------------------
(***************************************************************************)
(* Writer::write_batch (datasource/writer.rs): one batch of rows for one   *)
(* table, truncated first when the mode is full, inserted with retries.    *)
(* Several writers of one job pass share a truncate-once set, and all of   *)
(* them share the target.                                                  *)
(*                                                                         *)
(* A target table is the sequence of rows applied to it since it was last  *)
(* truncated: with mode append that is its contents, with mode upsert the  *)
(* last row of a key is the one that is visible.  One call into the target *)
(* plugin is one action: ds_truncate and ds_batch_insert hold the mutex of *)
(* the plugin instance (LibDatasource/src/plugin_api.rs) and the plugins   *)
(* send a batch as a single statement.                                     *)
(***************************************************************************)
EXTENDS Naturals, Sequences

CONSTANTS Writers,    \* the Writer values of all job passes
          Passes,     \* the job passes, each with its own truncate-once set
          PassOf,     \* the pass a writer belongs to
          Tables, Rows,
          Mode,       \* sync.mode of the job
          Retry,      \* runtime.retry, the attempts after the first one
          MaxFaults   \* bound: failing calls into the target

VARIABLES truncated,  \* Arc<Mutex<HashSet<String>>> of each pass
          target,     \* the tables of the target datasource
          call,       \* where each writer is inside write_batch
          faults      \* failing calls so far

writerVars == <<truncated, target, call, faults>>

NoCall == [step |-> "none"]

CallType ==
    {NoCall} \cup
    [step : {"mark", "truncate", "insert", "ok", "err"},
     table : Tables, rows : Seq(Rows), attempt : Nat]

WriterTypeOK ==
    /\ truncated \in [Passes -> SUBSET Tables]
    /\ target \in [Tables -> Seq(Rows)]
    /\ call \in [Writers -> CallType]
    /\ faults \in 0..MaxFaults

WriterInit(prior) ==
    /\ truncated = [p \in Passes |-> {}]
    /\ target = prior
    /\ call = [w \in Writers |-> NoCall]
    /\ faults = 0

\* The call as write_batch enters it; an empty batch returns Ok(0) at once.
NewCall(t, rows) ==
    [step |-> IF rows = <<>> THEN "ok" ELSE "mark",
     table |-> t, rows |-> rows, attempt |-> 0]

At(w, step) == call[w].step = step

Goto(w, step) == call' = [call EXCEPT ![w].step = step]

Fault == faults < MaxFaults /\ faults' = faults + 1

\* Plausible bug: every writer keeps a truncate-once set of its own.
MarkPrivately(w) ==
    /\ At(w, "mark")
    /\ Goto(w, IF Mode = "full" THEN "truncate" ELSE "insert")
    /\ UNCHANGED <<truncated, target, faults>>

\* The critical section on the shared set.  Only the marking is inside it:
\* the truncate itself runs after the mutex has been released.
Mark(w) ==
    /\ At(w, "mark")
    /\ LET p == PassOf[w]
           t == call[w].table
       IN  IF Mode = "full" /\ t \notin truncated[p]
           THEN truncated' = [truncated EXCEPT ![p] = @ \cup {t}] /\ Goto(w, "truncate")
           ELSE UNCHANGED truncated /\ Goto(w, "insert")
    /\ UNCHANGED <<target, faults>>

\* Plausible bug: an error of truncate is logged and the batch inserted.
TruncateIgnoringErrors(w) ==
    /\ At(w, "truncate")
    /\ \/ target' = [target EXCEPT ![call[w].table] = <<>>] /\ UNCHANGED faults
       \/ UNCHANGED target /\ Fault
    /\ Goto(w, "insert")
    /\ UNCHANGED truncated

\* ds.truncate.  A failing call may or may not have reached the table; the
\* table stays in the truncate-once set either way.
Truncate(w) ==
    /\ At(w, "truncate")
    /\ LET cleared == [target EXCEPT ![call[w].table] = <<>>]
       IN  \/ target' = cleared /\ Goto(w, "insert") /\ UNCHANGED faults
           \/ target' \in {target, cleared} /\ Goto(w, "err") /\ Fault
    /\ UNCHANGED truncated

Applied(w) == [target EXCEPT ![call[w].table] = @ \o call[w].rows]

\* Plausible bug: the batch is sent a second time after a success.
InsertAgain(w) ==
    /\ At(w, "insert")
    /\ target' = Applied(w)
    /\ IF call[w].attempt = 0 /\ Retry > 0 THEN call' = [call EXCEPT ![w].attempt = 1]
       ELSE Goto(w, "ok")
    /\ UNCHANGED <<truncated, faults>>

\* One turn of the retry loop (the backoff sleep changes no state).  A call
\* that fails after the statement was committed has applied the batch too.
Insert(w) ==
    /\ At(w, "insert")
    /\ \/ target' = Applied(w) /\ Goto(w, "ok") /\ UNCHANGED faults
       \/ /\ target' \in {target, Applied(w)}
          /\ Fault
          /\ IF call[w].attempt >= Retry THEN Goto(w, "err")
             ELSE call' = [call EXCEPT ![w].attempt = @ + 1]
    /\ UNCHANGED truncated

WriteStep(w) == Mark(w) \/ Truncate(w) \/ Insert(w)
=============================================================================
