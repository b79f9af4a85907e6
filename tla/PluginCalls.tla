---------------------------- MODULE PluginCalls ----------------------------
(***************************************************************************)
(* The C ABI between the host and its plugins: LibDatasource's             *)
(* plugin_registry.rs (host) and plugin_api.rs (plugin), LibETL's          *)
(* registry.rs and plugin_api.rs, and the lookup callback of               *)
(* etl/pipeline.rs.                                                        *)
(*                                                                         *)
(* A call hands out an instance pointer and an out pointer.  Datasource    *)
(* instances are behind a mutex, ETL instances are not.  A string that     *)
(* comes back through the out pointer was allocated by the callee; the     *)
(* caller reads it and hands it to free_string, or does not.  While an ETL *)
(* plugin processes a row it may call the host back, which then calls a    *)
(* datasource: a thread's calls are a stack.                               *)
(***************************************************************************)
EXTENDS Naturals, Sequences, SequencesExt, FiniteSetsExt

CONSTANTS Threads,
          Datasources,  \* ids of datasource instances
          Processors,   \* ids of ETL instances
          Nobody,       \* no thread, no instance
          MaxLeaks      \* bound: strings left behind, before new passes stop

Instances == Datasources \cup Processors
NoString == 0

\* What a successful call leaves in the out pointer.
PayloadCalls == {"query_page", "query_params", "process", "lookup"}
EmptyCalls == {"batch_insert"}        \* and execute: alloc_string("")
SilentCalls == {"connect", "truncate", "configure"}
Calls == PayloadCalls \cup EmptyCalls \cup SilentCalls

ASSUME PluginCallsAssumption ==
    /\ MaxLeaks \in Nat
    /\ Nobody \notin Threads \cup Instances
    /\ Datasources \cap Processors = {}

VARIABLES inst,   \* instance -> "none", "created", "ready" or "destroyed"
          lock,   \* datasource instance -> the thread in its mutex
          heap,   \* live string -> the call it was allocated for, and whether that failed
          frames  \* thread -> its calls, the innermost last

callVars == <<inst, lock, heap, frames>>

Frame == [fn : Calls, inst : Instances \cup {Nobody},
          at : {"entry", "inside", "returned", "done"},
          ok : BOOLEAN, out : Nat]

CallsTypeOK ==
    /\ inst \in [Instances -> {"none", "created", "ready", "destroyed"}]
    /\ lock \in [Datasources -> Threads \cup {Nobody}]
    /\ IsFiniteSet(DOMAIN heap) /\ DOMAIN heap \subseteq Nat \ {NoString}
    /\ \A s \in DOMAIN heap : heap[s] \in [fn : Calls, ok : BOOLEAN]
    /\ \A t \in Threads : Len(frames[t]) <= 3 /\ \A i \in DOMAIN frames[t] : frames[t][i] \in Frame

CallsInit ==
    /\ inst = [i \in Instances |-> "none"]
    /\ lock = [i \in Datasources |-> Nobody]
    /\ heap = <<>>
    /\ frames = [t \in Threads |-> <<>>]

Idle(t) == frames[t] = <<>>
Top(t) == Last(frames[t])
In(t, fn, where) == ~Idle(t) /\ Top(t).fn = fn /\ Top(t).at = where
SetTop(t, f) == [frames EXCEPT ![t] = Front(@) \o <<f>>]
NewCall(fn, i) == [fn |-> fn, inst |-> i, at |-> "entry", ok |-> TRUE, out |-> NoString]

\* The allocator may hand out the address of a string that was freed.
Alloc(fn, ok) ==
    LET s == Min((1..(Cardinality(DOMAIN heap) + 1)) \ DOMAIN heap)
    IN  [ptr |-> s, heap |-> [x \in DOMAIN heap \cup {s} |->
                                IF x = s THEN [fn |-> fn, ok |-> ok] ELSE heap[x]]]
Free(s) == [x \in DOMAIN heap \ {s} |-> heap[x]]

-----------------------------------------------------------------------------
(* Creating and destroying.                                                *)

\* ds_create and etl_create, and what the host makes of the instance.
Put(i, s) == [inst EXCEPT ![i] = s]

\* ds_destroy and etl_destroy, from an error path or from the Drop of
\* LoadedDatasource and LoadedProcessor.
Destroyed(is) == [i \in Instances |-> IF i \in is THEN "destroyed" ELSE inst[i]]

-----------------------------------------------------------------------------
(* One call, from the host wrapper's argument strings to its result.       *)

Pushed(t, fn, i) == [frames EXCEPT ![t] = Append(@, NewCall(fn, i))]
Popped(t) == [frames EXCEPT ![t] = Front(@)]
Call(t, fn, i) == frames' = Pushed(t, fn, i) /\ UNCHANGED <<inst, lock, heap>>

\* Plausible bug: the mutex is entered without waiting for its holder.
EnterUnguarded(t) ==
    /\ ~Idle(t) /\ Top(t).at = "entry"
    /\ lock' = IF Top(t).inst \in Datasources THEN [lock EXCEPT ![Top(t).inst] = t] ELSE lock
    /\ frames' = SetTop(t, [Top(t) EXCEPT !.at = "inside"])
    /\ UNCHANGED <<inst, heap>>

\* instance and guard: the arguments are decoded, then a datasource call
\* waits for the instance's mutex.
Enter(t) ==
    /\ ~Idle(t) /\ Top(t).at = "entry"
    /\ Top(t).inst \in Datasources => lock[Top(t).inst] = Nobody
    /\ lock' = IF Top(t).inst \in Datasources THEN [lock EXCEPT ![Top(t).inst] = t] ELSE lock
    /\ frames' = SetTop(t, [Top(t) EXCEPT !.at = "inside"])
    /\ UNCHANGED <<inst, heap>>

\* The callee is done: ds_call, ds_connect, ds_truncate, ds_batch_insert,
\* etl_configure, etl_process and etl_lookup_cb set rc and the out pointer;
\* the guard is dropped.
Return(t, ok) ==
    /\ ~Idle(t) /\ Top(t).at = "inside"
    /\ LET f == Top(t)
           string == Alloc(f.fn, ok)
           silent == ok /\ f.fn \in SilentCalls
       IN  /\ heap' = IF silent THEN heap ELSE string.heap
           /\ frames' = SetTop(t, [f EXCEPT !.at = "returned", !.ok = ok,
                                            !.out = IF silent THEN NoString ELSE string.ptr])
           /\ lock' = IF f.inst \in Datasources THEN [lock EXCEPT ![f.inst] = Nobody] ELSE lock
    /\ UNCHANGED inst

\* Who reads the out string but does not free it: create_datasource and
\* instantiate when the call failed, and CbLookup::lookup in either case.
Keeps(f) == f.fn = "lookup" \/ (f.fn \in {"connect", "configure"} /\ ~f.ok)

Read(t, kept) ==
    /\ ~Idle(t) /\ Top(t).at = "returned"
    /\ heap' = IF kept THEN heap ELSE Free(Top(t).out)
    /\ frames' = SetTop(t, [Top(t) EXCEPT !.at = "done", !.out = NoString])
    /\ UNCHANGED <<inst, lock>>

\* Plausible bug: the error path of check and read_out does not free.
ReadOutKeepingErrors(t) == Read(t, Keeps(Top(t)) \/ ~Top(t).ok)

\* check, read_out, and their like: the message or the payload is copied,
\* the string is freed.
ReadOut(t) == Read(t, Keeps(Top(t)))

-----------------------------------------------------------------------------
(* etl_lookup_cb: inside process, the plugin calls the host, and the host  *)
(* queries the datasource `c`; an unknown connection is an error at once.  *)

Lookup(t) ==
    /\ In(t, "process", "inside")
    /\ Cardinality(DOMAIN heap) < MaxLeaks
    /\ Call(t, "lookup", Nobody)

DoLookup(t, c) == In(t, "lookup", "inside") /\ Call(t, "query_params", c)

LookupQueried(t) ==
    /\ In(t, "query_params", "done")
    /\ LET f == Top(t)
           below == frames[t][Len(frames[t]) - 1]
           string == Alloc("lookup", f.ok)
       IN  /\ heap' = string.heap
           /\ frames' = [frames EXCEPT ![t] = Front(Front(@)) \o
                <<[below EXCEPT !.at = "returned", !.ok = f.ok, !.out = string.ptr]>>]
    /\ UNCHANGED <<inst, lock>>

\* The plugin has its rows or its error and goes on with the row.
LookupDone(t) == In(t, "lookup", "done") /\ frames' = Popped(t) /\ UNCHANGED <<inst, lock, heap>>
=============================================================================
