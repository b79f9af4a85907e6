---------------------------- MODULE JobScheduler ----------------------------
(***************************************************************************)
(* The main thread that starts the jobs (main.rs), the thread of each job  *)
(* that runs its cron schedule (run_on_schedule in runtime/scheduler.rs)   *)
(* and the worker gate every pass has to go through.  What a pass does is  *)
(* the subject of JobRunner and WriterPool; here it takes a while and      *)
(* returns, and Ok and Err make no difference to the schedule.             *)
(***************************************************************************)
EXTENDS WorkerGate, Sequences

CONSTANTS Jobs,     \* the jobs in the order of the configuration
          Enabled,  \* job -> its `enabled` flag
          Cron,     \* job -> the times its cron expression matches
          MaxTime   \* bound: the clock

\* Threads, the constant of the gate, is the set of jobs: every entry of the
\* configuration has a thread of its own.
ASSUME SchedulerAssumption ==
    /\ Jobs \in Seq(Threads)
    /\ \A i, k \in DOMAIN Jobs : Jobs[i] = Jobs[k] => i = k
    /\ Threads = {Jobs[i] : i \in DOMAIN Jobs}
    /\ Enabled \in [Threads -> BOOLEAN]
    /\ MaxTime \in Nat
    /\ Cron \in [Threads -> SUBSET (1..MaxTime)]

VARIABLES main,    \* the main thread: starting, parked or exited
          spawned, \* jobs of the spawn loop done so far
          now,
          pc,      \* job thread: unspawned, spawned, iterate, sleeping, gated, running, stopped
          cursor,  \* the last occurrence the iterator has returned
          ran      \* the occurrences whose pass has started, in order

schedVars == <<available, waiting, woken, holding, main, spawned, now, pc, cursor, ran>>

SchedTypeOK ==
    /\ GateTypeOK
    /\ main \in {"starting", "parked", "exited"}
    /\ spawned \in 0..Len(Jobs)
    /\ now \in 0..MaxTime
    /\ pc \in [Threads -> {"unspawned", "spawned", "iterate", "sleeping", "gated",
                           "running", "stopped"}]
    /\ cursor \in [Threads -> 0..MaxTime]
    /\ ran \in [Threads -> Seq(1..MaxTime)]
    /\ \A j \in Threads : /\ pc[j] = "running" <=> j \in holding
                          /\ j \in waiting \cup woken => pc[j] = "gated"

SchedInit ==
    /\ GateInit
    /\ main = "starting" /\ spawned = 0 /\ now = 0
    /\ pc = [j \in Threads |-> "unspawned"]
    /\ cursor = [j \in Threads |-> 0]
    /\ ran = [j \in Threads |-> <<>>]

Goto(j, step) == pc' = [pc EXCEPT ![j] = step]

-----------------------------------------------------------------------------
(* main: the spawn loop, then park.  The pipeline and the runner of a job  *)
(* are built just before its thread is spawned, when the threads of the    *)
(* jobs before it already run; an error ends the process under them.       *)

SpawnNext ==
    /\ main = "starting" /\ spawned < Len(Jobs)
    /\ LET j == Jobs[spawned + 1]
       IN  IF Enabled[j] THEN Goto(j, "spawned") ELSE UNCHANGED pc
    /\ spawned' = spawned + 1
    /\ UNCHANGED <<main, now, cursor, ran>> /\ UNCHANGED gateVars

Fatal ==
    /\ main = "starting" /\ spawned < Len(Jobs)
    /\ Enabled[Jobs[spawned + 1]]
    /\ main' = "exited"
    /\ UNCHANGED <<spawned, now, pc, cursor, ran>> /\ UNCHANGED gateVars

Park ==
    /\ main = "starting" /\ spawned = Len(Jobs)
    /\ main' = "parked"
    /\ UNCHANGED <<spawned, now, pc, cursor, ran>> /\ UNCHANGED gateVars

-----------------------------------------------------------------------------
(* run_on_schedule.                                                        *)

\* schedule.after(&Utc::now()): occurrences strictly after the thread's start.
Start(j) ==
    /\ pc[j] = "spawned"
    /\ cursor' = [cursor EXCEPT ![j] = now]
    /\ Goto(j, "iterate")
    /\ UNCHANGED <<main, spawned, now, ran>> /\ UNCHANGED gateVars

Upcoming(j) == {c \in Cron[j] : c > cursor[j]}

StopOrSleep(j, coming) ==
    /\ pc[j] = "iterate"
    /\ \/ coming = {} /\ Goto(j, "stopped") /\ UNCHANGED cursor
       \/ \E c \in coming :
             /\ \A d \in coming : c <= d
             /\ cursor' = [cursor EXCEPT ![j] = c]
             /\ Goto(j, "sleeping")
    /\ UNCHANGED <<main, spawned, now, ran>> /\ UNCHANGED gateVars

\* Plausible bug: the next occurrence is computed from the clock, so what was
\* due while a pass overran is skipped.
IterateFromNow(j) == StopOrSleep(j, {c \in Upcoming(j) : c >= now})

\* iterator.next(): the occurrence after the last one returned, which may be
\* in the past; without one run_on_schedule returns Err and the thread ends.
Iterate(j) == StopOrSleep(j, Upcoming(j))

\* The sleep of next - now, or none at all when the occurrence is past.
Wake(j) ==
    /\ pc[j] = "sleeping"
    /\ now >= cursor[j]
    /\ Goto(j, "gated")
    /\ UNCHANGED <<main, spawned, now, cursor, ran>> /\ UNCHANGED gateVars

\* The closure: gate.acquire(), then the pass.
Enter(j) ==
    /\ pc[j] = "gated"
    /\ AcquireNow(j) \/ AcquireWait(j) \/ Retake(j)
    /\ IF j \in holding'
       THEN Goto(j, "running") /\ ran' = [ran EXCEPT ![j] = Append(@, cursor[j])]
       ELSE UNCHANGED <<pc, ran>>
    /\ UNCHANGED <<main, spawned, now, cursor>>

Spurious(j) ==
    /\ SpuriousWakeup(j)
    /\ UNCHANGED <<main, spawned, now, pc, cursor, ran>>

\* run_once has returned, Ok or Err, and the guard goes out of scope.
Finish(j) ==
    /\ pc[j] = "running"
    /\ Release(j)
    /\ Goto(j, "iterate")
    /\ UNCHANGED <<main, spawned, now, cursor, ran>>

JobThread(j) == Start(j) \/ Iterate(j) \/ Wake(j) \/ Enter(j) \/ Finish(j)

Tick ==
    /\ now < MaxTime
    /\ now' = now + 1
    /\ UNCHANGED <<main, spawned, pc, cursor, ran>> /\ UNCHANGED gateVars

Running == main # "exited"

SchedNext ==
    /\ Running
    /\ \/ SpawnNext \/ Fatal \/ Park \/ Tick
       \/ \E j \in Threads : JobThread(j) \/ Spurious(j)

\* Time passes, threads are scheduled, passes return and main gets through
\* its startup one way or the other.
SchedSpec ==
    /\ SchedInit /\ [][SchedNext]_schedVars
    /\ WF_schedVars(Running /\ Tick)
    /\ WF_schedVars(Running /\ (SpawnNext \/ Fatal \/ Park))
    /\ \A j \in Threads : WF_schedVars(Running /\ JobThread(j))

-----------------------------------------------------------------------------
(* A pass that overruns delays the occurrences that fall due meanwhile and *)
(* drops none: the passes of a job take its occurrences one by one in cron *)
(* order, however late, and never before their time.                       *)
RunsInCronOrder ==
    \A j \in Threads : LET s == ran[j] IN
        /\ \A i \in DOMAIN s : s[i] \in Cron[j] /\ s[i] <= now
        /\ \A i \in 1..(Len(s) - 1) :
              s[i] < s[i + 1] /\ \A c \in Cron[j] : ~(s[i] < c /\ c < s[i + 1])

(* A pass that is due gets its slot, unless the process exits.  The cron   *)
(* expressions of the instance end; against jobs that arrive for ever the  *)
(* gate does not promise this to an individual job (see Semaphore).        *)
DuePassRuns == \A j \in Threads : pc[j] = "gated" ~> (pc[j] = "running" \/ ~Running)

(* A slot that is free while jobs are blocked in acquire is taken, until   *)
(* the process exits.                                                      *)
SlotsAreServed ==
    (available > 0 /\ waiting \cup woken # {})
        ~> (available = 0 \/ waiting \cup woken = {} \/ ~Running)
=============================================================================
