----------------------------- MODULE WorkerGate -----------------------------
(***************************************************************************)
(* The gate that limits concurrent job runs (runtime/scheduler.rs): a      *)
(* Mutex<usize> of free slots and a Condvar.  Every critical section under *)
(* the mutex is one action.  A thread in cond.wait is in "waiting"; one    *)
(* that was notified (or woke spuriously) and has not yet re-locked the    *)
(* mutex is in "woken".  A thread that arrives may lock the mutex before a *)
(* woken one does and take the slot the woken one was notified for.        *)
(***************************************************************************)
EXTENDS Integers, FiniteSets

CONSTANTS Threads,   \* the job threads that share the gate
          Workers    \* runtime.workers, the argument of WorkerGate::new

ASSUME GateAssumption == IsFiniteSet(Threads) /\ Workers \in Nat

\* WorkerGate::new never builds a gate without a slot: max.max(1).
Slots == IF Workers = 0 THEN 1 ELSE Workers

VARIABLES available,  \* the usize under the mutex
          waiting,    \* threads blocked in Condvar::wait
          woken,      \* threads about to re-lock the mutex and re-check
          holding     \* threads that own a WorkerGuard

gateVars == <<available, waiting, woken, holding>>

GateTypeOK ==
    /\ available \in Nat
    /\ waiting \in SUBSET Threads
    /\ woken \in SUBSET Threads
    /\ holding \in SUBSET Threads

GateInit == available = Slots /\ waiting = {} /\ woken = {} /\ holding = {}

Outside(t) == t \notin waiting \cup woken \cup holding

\* Plausible bug: the guard is handed out without taking the slot.
TakeSlotUncounted(t) == available > 0 /\ available' = available /\ holding' = holding \cup {t}

\* acquire, the while condition false: take a slot and return the guard.
TakeSlot(t) ==
    /\ available > 0
    /\ available' = available - 1
    /\ holding' = holding \cup {t}

\* First pass through acquire.
AcquireNow(t) ==
    /\ Outside(t)
    /\ TakeSlot(t)
    /\ UNCHANGED <<waiting, woken>>

AcquireWait(t) ==
    /\ Outside(t)
    /\ available = 0
    /\ waiting' = waiting \cup {t}
    /\ UNCHANGED <<available, woken, holding>>

\* Plausible bug: `if` instead of `while`, so that a woken thread does not see
\* that an arriving one has stolen the slot.
RetakeWithoutRecheck(t) ==
    /\ t \in woken
    /\ woken' = woken \ {t}
    /\ available' = available - 1
    /\ holding' = holding \cup {t}
    /\ UNCHANGED waiting

\* cond.wait returned with the mutex held: the while condition is read again.
Retake(t) ==
    /\ t \in woken
    /\ woken' = woken \ {t}
    /\ \/ TakeSlot(t) /\ UNCHANGED waiting
       \/ /\ available = 0
          /\ waiting' = waiting \cup {t}
          /\ UNCHANGED <<available, holding>>

\* Condvar::wait may return without a notification.
SpuriousWakeup(t) ==
    /\ t \in waiting
    /\ waiting' = waiting \ {t}
    /\ woken' = woken \cup {t}
    /\ UNCHANGED <<available, holding>>

NotifyOne ==
    IF waiting = {} THEN UNCHANGED <<waiting, woken>>
    ELSE \E u \in waiting : /\ waiting' = waiting \ {u}
                            /\ woken' = woken \cup {u}

\* Plausible bug: drop notifies only when the counter was zero.
ReleaseNotifyIfEmpty(t) ==
    /\ t \in holding
    /\ available' = available + 1
    /\ holding' = holding \ {t}
    /\ IF available = 0 THEN NotifyOne ELSE UNCHANGED <<waiting, woken>>

\* Plausible bug: drop does not notify at all.
ReleaseSilently(t) ==
    /\ t \in holding
    /\ available' = available + 1
    /\ holding' = holding \ {t}
    /\ UNCHANGED <<waiting, woken>>

\* WorkerGuard::drop, at the end of the closure that ran the job.
Release(t) ==
    /\ t \in holding
    /\ available' = available + 1
    /\ holding' = holding \ {t}
    /\ NotifyOne

GateNext == \E t \in Threads : \/ AcquireNow(t)
                               \/ AcquireWait(t)
                               \/ Retake(t)
                               \/ SpuriousWakeup(t)
                               \/ Release(t)

GateSafety == GateInit /\ [][GateNext]_gateVars

-----------------------------------------------------------------------------
(* Every slot is free or owned by exactly one running job: an early return *)
(* or a failed job pass does not leak one (the guard is dropped on every   *)
(* path), so no more than Slots jobs run and none is lost for later runs.  *)
SlotsConserved ==
    /\ available + Cardinality(holding) = Slots
    /\ holding \cap (waiting \cup woken) = {}
    /\ waiting \cap woken = {}

(* No wakeup is lost: while threads sleep in the condvar there are at least *)
(* as many woken threads as free slots, even though arriving threads steal  *)
(* slots from woken ones and a stolen-from thread goes back to sleep.  This *)
(* is why one notify_one per drop is enough.                                *)
NoLostWakeup == waiting # {} => available <= Cardinality(woken)

(* The gate implements a semaphore, blocked threads being the asking ones:  *)
(* acquire and drop change the free slots as a counting semaphore does, and *)
(* wakeups and going back to sleep are invisible.                           *)
Sem == INSTANCE Semaphore WITH free <- available, owning <- holding,
                               asking <- waiting \cup woken
GateIsSemaphore == Sem!SemSafety

=============================================================================
