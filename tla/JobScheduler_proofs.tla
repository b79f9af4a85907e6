------------------------ MODULE JobScheduler_proofs ------------------------
(***************************************************************************)
(* Proofs about the worker gate, for every finite set of job threads and   *)
(* every number of workers, and about the scheduler.  What the gate        *)
(* guarantees holds of the whole scheduler: startup, cron and exit touch   *)
(* the gate only through acquire and drop.                                 *)
(***************************************************************************)
EXTENDS JobScheduler, FiniteSetTheorems, TLAPS

LEMMA SlotsPositive == Slots \in Nat /\ Slots > 0
BY GateAssumption DEF Slots

(* The cardinality facts the steps of the gate need. *)
LEMMA SubsetFinite ==
  ASSUME NEW S \in SUBSET Threads
  PROVE  IsFiniteSet(S) /\ Cardinality(S) \in Nat
BY GateAssumption, FS_Subset, FS_CardinalityType

LEMMA AddOne ==
  ASSUME NEW S \in SUBSET Threads, NEW t, t \notin S
  PROVE  Cardinality(S \cup {t}) = Cardinality(S) + 1
BY SubsetFinite, FS_AddElement

LEMMA RemoveOne ==
  ASSUME NEW S \in SUBSET Threads, NEW t \in S
  PROVE  Cardinality(S \ {t}) = Cardinality(S) - 1
BY SubsetFinite, FS_RemoveElement

-----------------------------------------------------------------------------
(* The gate's state always has its type. *)
THEOREM GateTypeCorrect == GateSafety => []GateTypeOK
<1>1. GateInit => GateTypeOK
  BY SlotsPositive DEF GateInit, GateTypeOK
<1>2. GateTypeOK /\ [GateNext]_gateVars => GateTypeOK'
  <2> SUFFICES ASSUME GateTypeOK, [GateNext]_gateVars
               PROVE  GateTypeOK'
    OBVIOUS
  <2> USE DEF GateTypeOK
  <2>1. ASSUME NEW t \in Threads, AcquireNow(t) PROVE GateTypeOK'
    BY <2>1 DEF AcquireNow, TakeSlot
  <2>2. ASSUME NEW t \in Threads, AcquireWait(t) PROVE GateTypeOK'
    BY <2>2 DEF AcquireWait
  <2>3. ASSUME NEW t \in Threads, Retake(t) PROVE GateTypeOK'
    BY <2>3 DEF Retake, TakeSlot
  <2>4. ASSUME NEW t \in Threads, SpuriousWakeup(t) PROVE GateTypeOK'
    BY <2>4 DEF SpuriousWakeup
  <2>5. ASSUME NEW t \in Threads, Release(t) PROVE GateTypeOK'
    BY <2>5 DEF Release, NotifyOne
  <2>6. CASE UNCHANGED gateVars
    BY <2>6 DEF gateVars
  <2>7. QED
    BY <2>1, <2>2, <2>3, <2>4, <2>5, <2>6 DEF GateNext
<1>3. QED
  BY <1>1, <1>2, PTL DEF GateSafety

-----------------------------------------------------------------------------
(* No slot is leaked or handed out twice: the free slots and the running   *)
(* jobs always add up to the configured number of workers.                 *)
THEOREM GateConservesSlots == GateSafety => []SlotsConserved
<1>1. GateInit => SlotsConserved
  BY SlotsPositive, FS_EmptySet DEF GateInit, SlotsConserved
<1>2. GateTypeOK /\ SlotsConserved /\ [GateNext]_gateVars => SlotsConserved'
  <2> SUFFICES ASSUME GateTypeOK, SlotsConserved, [GateNext]_gateVars
               PROVE  SlotsConserved'
    OBVIOUS
  <2>t. available \in Nat /\ Cardinality(holding) \in Nat /\ Slots \in Nat
    BY SlotsPositive, SubsetFinite DEF GateTypeOK
  <2>1. ASSUME NEW t \in Threads, AcquireNow(t) PROVE SlotsConserved'
    <3>1. Cardinality(holding') = Cardinality(holding) + 1
      BY <2>1, AddOne DEF AcquireNow, Outside, TakeSlot, GateTypeOK
    <3>2. QED BY <3>1, <2>1, <2>t DEF AcquireNow, Outside, TakeSlot, SlotsConserved
  <2>2. ASSUME NEW t \in Threads, AcquireWait(t) PROVE SlotsConserved'
    BY <2>2 DEF AcquireWait, Outside, SlotsConserved
  <2>3. ASSUME NEW t \in Threads, Retake(t) PROVE SlotsConserved'
    <3>1. CASE TakeSlot(t) /\ UNCHANGED waiting
      <4>1. Cardinality(holding') = Cardinality(holding) + 1
        BY <2>3, <3>1, AddOne DEF Retake, TakeSlot, GateTypeOK, SlotsConserved
      <4>2. QED BY <4>1, <3>1, <2>3, <2>t DEF Retake, TakeSlot, SlotsConserved
    <3>2. CASE available = 0 /\ waiting' = waiting \cup {t} /\ UNCHANGED <<available, holding>>
      BY <3>2, <2>3 DEF Retake, SlotsConserved
    <3>3. QED BY <3>1, <3>2, <2>3 DEF Retake
  <2>4. ASSUME NEW t \in Threads, SpuriousWakeup(t) PROVE SlotsConserved'
    BY <2>4 DEF SpuriousWakeup, SlotsConserved
  <2>5. ASSUME NEW t \in Threads, Release(t) PROVE SlotsConserved'
    <3>1. Cardinality(holding') = Cardinality(holding) - 1
      BY <2>5, RemoveOne DEF Release, GateTypeOK
    <3>2. QED BY <3>1, <2>5, <2>t DEF Release, NotifyOne, SlotsConserved
  <2>6. CASE UNCHANGED gateVars
    BY <2>6 DEF gateVars, SlotsConserved
  <2>7. QED
    BY <2>1, <2>2, <2>3, <2>4, <2>5, <2>6 DEF GateNext
<1>3. QED
  BY <1>1, <1>2, GateTypeCorrect, PTL DEF GateSafety

-----------------------------------------------------------------------------
(* notify_one per drop is enough: no free slot is left without a woken     *)
(* thread to claim it while other threads sleep in the condvar.            *)
THEOREM GateLosesNoWakeup == GateSafety => []NoLostWakeup
<1>1. GateInit => NoLostWakeup
  BY DEF GateInit, NoLostWakeup
<1>2. GateTypeOK /\ SlotsConserved /\ NoLostWakeup /\ [GateNext]_gateVars => NoLostWakeup'
  <2> SUFFICES ASSUME GateTypeOK, SlotsConserved, NoLostWakeup, [GateNext]_gateVars
               PROVE  NoLostWakeup'
    OBVIOUS
  <2>t. available \in Nat /\ Cardinality(woken) \in Nat
    BY SubsetFinite DEF GateTypeOK
  <2>1. ASSUME NEW t \in Threads, AcquireNow(t) PROVE NoLostWakeup'
    BY <2>1, <2>t DEF AcquireNow, TakeSlot, NoLostWakeup
  <2>2. ASSUME NEW t \in Threads, AcquireWait(t) PROVE NoLostWakeup'
    BY <2>2, <2>t DEF AcquireWait, NoLostWakeup
  <2>3. ASSUME NEW t \in Threads, Retake(t) PROVE NoLostWakeup'
    <3>1. Cardinality(woken') = Cardinality(woken) - 1 /\ Cardinality(woken') \in Nat
      BY <2>3, RemoveOne, SubsetFinite DEF Retake, GateTypeOK
    <3>2. QED BY <3>1, <2>3, <2>t DEF Retake, TakeSlot, NoLostWakeup
  <2>4. ASSUME NEW t \in Threads, SpuriousWakeup(t) PROVE NoLostWakeup'
    <3>1. Cardinality(woken') = Cardinality(woken) + 1
      BY <2>4, AddOne DEF SpuriousWakeup, GateTypeOK, SlotsConserved
    <3>2. QED BY <3>1, <2>4, <2>t DEF SpuriousWakeup, NoLostWakeup
  <2>5. ASSUME NEW t \in Threads, Release(t) PROVE NoLostWakeup'
    <3>1. CASE waiting = {}
      BY <3>1, <2>5 DEF Release, NotifyOne, NoLostWakeup
    <3>2. CASE waiting # {}
      <4>1. PICK u \in waiting : waiting' = waiting \ {u} /\ woken' = woken \cup {u}
        BY <3>2, <2>5 DEF Release, NotifyOne
      <4>2. Cardinality(woken') = Cardinality(woken) + 1
        BY <4>1, AddOne DEF GateTypeOK, SlotsConserved
      <4>3. QED BY <4>2, <3>2, <2>5, <2>t DEF Release, NoLostWakeup
    <3>3. QED BY <3>1, <3>2
  <2>6. CASE UNCHANGED gateVars
    BY <2>6 DEF gateVars, NoLostWakeup
  <2>7. QED
    BY <2>1, <2>2, <2>3, <2>4, <2>5, <2>6 DEF GateNext
<1>3. QED
  BY <1>1, <1>2, GateTypeCorrect, GateConservesSlots, PTL DEF GateSafety

-----------------------------------------------------------------------------
(* Every step of the gate is a step of the semaphore or leaves it alone    *)
(* (a wakeup, and a woken thread that goes back to sleep).                 *)
THEOREM GateRefinesSemaphore == GateSafety => GateIsSemaphore
<1>1. GateInit => Sem!SemInit
  BY DEF GateInit, Sem!SemInit
<1>2. GateTypeOK /\ SlotsConserved /\ [GateNext]_gateVars => [Sem!SemNext]_Sem!semVars
  <2> SUFFICES ASSUME GateTypeOK, SlotsConserved, [GateNext]_gateVars
               PROVE  [Sem!SemNext]_Sem!semVars
    OBVIOUS
  <2> USE DEF Sem!SemNext, Sem!semVars, GateTypeOK, SlotsConserved
  <2>1. ASSUME NEW t \in Threads, AcquireNow(t) PROVE Sem!Take(t)
    BY <2>1 DEF AcquireNow, Outside, TakeSlot, Sem!Take
  <2>2. ASSUME NEW t \in Threads, AcquireWait(t) PROVE Sem!Ask(t)
    BY <2>2 DEF AcquireWait, Outside, Sem!Ask
  <2>3. ASSUME NEW t \in Threads, Retake(t) PROVE Sem!Take(t) \/ UNCHANGED Sem!semVars
    BY <2>3 DEF Retake, TakeSlot, Sem!Take
  <2>4. ASSUME NEW t \in Threads, SpuriousWakeup(t) PROVE UNCHANGED Sem!semVars
    BY <2>4 DEF SpuriousWakeup
  <2>5. ASSUME NEW t \in Threads, Release(t) PROVE Sem!Give(t)
    <3>1. (waiting \cup woken)' = waiting \cup woken
      BY <2>5 DEF Release, NotifyOne
    <3>2. QED BY <2>5, <3>1 DEF Release, Sem!Give
  <2>6. CASE UNCHANGED gateVars
    BY <2>6 DEF gateVars
  <2>7. QED
    BY <2>1, <2>2, <2>3, <2>4, <2>5, <2>6 DEF GateNext
<1>3. QED
  BY <1>1, <1>2, GateTypeCorrect, GateConservesSlots, PTL DEF GateSafety, GateIsSemaphore, Sem!SemSafety
-----------------------------------------------------------------------------

(* Every step of the scheduler is a step of the gate or leaves it alone.   *)
LEMMA SchedulerUsesGate == SchedSpec => GateSafety
<1>1. SchedInit => GateInit
  BY DEF SchedInit
<1>2. [SchedNext]_schedVars => [GateNext]_gateVars
  <2> SUFFICES ASSUME [SchedNext]_schedVars
               PROVE  [GateNext]_gateVars
    OBVIOUS
  <2>1. CASE SpawnNext \/ Fatal \/ Park \/ Tick
    BY <2>1 DEF SpawnNext, Fatal, Park, Tick
  <2>2. ASSUME NEW j \in Threads, JobThread(j) PROVE [GateNext]_gateVars
    <3>1. CASE Start(j) \/ Iterate(j) \/ Wake(j)
      BY <3>1 DEF Start, Iterate, StopOrSleep, Wake
    <3>2. CASE Enter(j)
      BY <3>2 DEF Enter, GateNext
    <3>3. CASE Finish(j)
      BY <3>3 DEF Finish, GateNext
    <3>4. QED BY <2>2, <3>1, <3>2, <3>3 DEF JobThread
  <2>3. ASSUME NEW j \in Threads, Spurious(j) PROVE [GateNext]_gateVars
    BY <2>3 DEF Spurious, GateNext
  <2>4. CASE UNCHANGED schedVars
    BY <2>4 DEF schedVars, gateVars
  <2>5. QED
    BY <2>1, <2>2, <2>3, <2>4 DEF SchedNext
<1>3. QED
  BY <1>1, <1>2, PTL DEF SchedSpec, GateSafety

(* No pass leaks a worker slot and no more passes run than there are       *)
(* workers, for any jobs, schedules and number of workers.                 *)
THEOREM SchedulerConservesSlots == SchedSpec => []SlotsConserved
BY SchedulerUsesGate, GateConservesSlots, PTL

(* No wakeup of the gate is lost under the scheduler.                      *)
THEOREM SchedulerLosesNoWakeup == SchedSpec => []NoLostWakeup
BY SchedulerUsesGate, GateLosesNoWakeup, PTL

(* The gate is a semaphore under the scheduler.                            *)
THEOREM SchedulerGateIsSemaphore == SchedSpec => GateIsSemaphore
BY SchedulerUsesGate, GateRefinesSemaphore, PTL

-----------------------------------------------------------------------------
(* The inductive invariant behind the order of the passes: where a job's   *)
(* thread is, what the iterator has returned and which passes it started.  *)

\* c follows s in the cron sequence of j with nothing in between.
Follows(j, s, c) == s < c /\ \A d \in Cron[j] : ~(s < d /\ d < c)

InOrder(j) ==
    /\ \A i \in 1..Len(ran[j]) : ran[j][i] \in Cron[j] /\ ran[j][i] <= now
    /\ \A i \in 1..(Len(ran[j]) - 1) : Follows(j, ran[j][i], ran[j][i + 1])

AtCursor(j) ==
    /\ pc[j] \in {"unspawned", "spawned"} => ran[j] = <<>>
    /\ pc[j] \in {"iterate", "running", "stopped"} /\ ran[j] # <<>> =>
          ran[j][Len(ran[j])] = cursor[j]
    /\ pc[j] \in {"sleeping", "gated"} =>
          /\ cursor[j] \in Cron[j]
          /\ ran[j] # <<>> => Follows(j, ran[j][Len(ran[j])], cursor[j])
    /\ pc[j] = "gated" => cursor[j] <= now

Unspawned == \A i \in DOMAIN Jobs : i > spawned => pc[Jobs[i]] = "unspawned"

SchedInv == SchedTypeOK /\ Unspawned /\ \A j \in Threads : InOrder(j) /\ AtCursor(j)

(* A step of the scheduler leaves alone every job but the one it is of.    *)
JobAlone(j) == UNCHANGED <<pc[j], cursor[j], ran[j]>>

(* A job that takes no step keeps its part of the invariant: time passes,  *)
(* but never backwards.                                                    *)
LEMMA JobAloneKeeps ==
  ASSUME NEW j \in Threads, InOrder(j), AtCursor(j), JobAlone(j),
         now \in Nat, now' \in Nat, now <= now', SchedTypeOK
  PROVE  InOrder(j)' /\ AtCursor(j)'
<1>1. \A i \in 1..Len(ran[j]) : ran[j][i] \in Nat
  <2>1. Cron[j] \subseteq Nat
    BY SchedulerAssumption
  <2>2. QED BY <2>1 DEF InOrder
<1>2. InOrder(j)'
  BY <1>1 DEF InOrder, JobAlone, Follows
<1>3. cursor[j] \in Nat
  BY SchedulerAssumption DEF SchedTypeOK
<1>4. AtCursor(j)'
  BY <1>3 DEF AtCursor, JobAlone, Follows
<1>5. QED BY <1>2, <1>4

(* The types after a step of job j that leaves the others where they are.  *)
Steps == {"unspawned", "spawned", "iterate", "sleeping", "gated", "running", "stopped"}

LEMMA TypeAfterStep ==
  ASSUME SchedTypeOK, GateTypeOK', NEW j \in Threads, NEW s \in Steps,
         main' \in {"starting", "parked", "exited"}, spawned' \in 0..Len(Jobs),
         now' \in 0..MaxTime,
         pc' = [pc EXCEPT ![j] = s],
         cursor' \in [Threads -> 0..MaxTime],
         ran' \in [Threads -> Seq(1..MaxTime)],
         holding' \ {j} = holding \ {j},
         (waiting' \cup woken') \ {j} \subseteq waiting \cup woken,
         s = "running" <=> j \in holding',
         j \in waiting' \cup woken' => s = "gated"
  PROVE  SchedTypeOK'
<1>1. pc \in [Threads -> Steps]
  BY DEF SchedTypeOK, Steps
<1>2. pc' \in [Threads -> Steps]
  BY <1>1
<1>3. ASSUME NEW k \in Threads
      PROVE  /\ pc'[k] = "running" <=> k \in holding'
             /\ k \in waiting' \cup woken' => pc'[k] = "gated"
  <2>1. CASE k = j
    BY <1>1, <2>1
  <2>2. CASE k # j
    <3>1. pc'[k] = pc[k]
      BY <1>1, <2>2
    <3>2. k \in holding' <=> k \in holding
      BY <2>2
    <3>3. k \in waiting' \cup woken' => k \in waiting \cup woken
      BY <2>2
    <3>4. QED BY <3>1, <3>2, <3>3 DEF SchedTypeOK
  <2>3. QED BY <2>1, <2>2
<1>4. QED BY <1>2, <1>3 DEF SchedTypeOK, Steps

(* Appending the occurrence the thread has waited for keeps the order.     *)
LEMMA AppendKeeps ==
  ASSUME NEW j \in Threads, SchedTypeOK, InOrder(j), AtCursor(j), pc[j] = "gated",
         ran'[j] = Append(ran[j], cursor[j]), now' = now
  PROVE  InOrder(j)' /\ ran'[j] # <<>> /\ ran'[j][Len(ran'[j])] = cursor[j]
<1> DEFINE s == ran[j]
           n == Len(s)
<1>1. s \in Seq(1..MaxTime) /\ n \in Nat /\ cursor[j] \in Cron[j] /\ cursor[j] <= now
  BY DEF SchedTypeOK, AtCursor
<1>2. /\ Len(ran'[j]) = n + 1
      /\ \A i \in 1..n : ran'[j][i] = s[i]
      /\ ran'[j][n + 1] = cursor[j]
  BY <1>1
<1>3. \A i \in 1..(n + 1) : ran'[j][i] \in Cron[j] /\ ran'[j][i] <= now'
  BY <1>1, <1>2 DEF InOrder
<1>4. \A i \in 1..n : Follows(j, ran'[j][i], ran'[j][i + 1])
  <2> TAKE i \in 1..n
  <2>1. CASE i < n
    BY <2>1, <1>1, <1>2 DEF InOrder
  <2>2. CASE i = n
    BY <2>2, <1>1, <1>2 DEF AtCursor
  <2>3. QED BY <2>1, <2>2, <1>1
<1>5. InOrder(j)'
  BY <1>1, <1>2, <1>3, <1>4 DEF InOrder, Follows
<1>6. QED BY <1>1, <1>2, <1>5

-----------------------------------------------------------------------------
(* The state of the scheduler keeps its type, the passes of every job are  *)
(* in cron order, and its thread stands where its iterator does.           *)
THEOREM SchedulerInvariant == SchedSpec => []SchedInv
<1>1. SchedInit => SchedInv
  <2> SUFFICES ASSUME SchedInit PROVE SchedInv
    OBVIOUS
  <2>1. GateTypeOK
    BY SlotsPositive DEF SchedInit, GateInit, GateTypeOK
  <2>2. SchedTypeOK
    BY <2>1, SchedulerAssumption DEF SchedInit, GateInit, SchedTypeOK
  <2>3. Unspawned
    BY SchedulerAssumption DEF SchedInit, Unspawned
  <2>4. ASSUME NEW j \in Threads PROVE InOrder(j) /\ AtCursor(j)
    BY DEF SchedInit, InOrder, AtCursor
  <2>5. QED BY <2>2, <2>3, <2>4 DEF SchedInv
<1>2. SchedInv /\ SlotsConserved /\ GateTypeOK' /\ [SchedNext]_schedVars => SchedInv'
  <2> SUFFICES ASSUME SchedInv, SlotsConserved, GateTypeOK', [SchedNext]_schedVars
               PROVE  SchedInv'
    OBVIOUS
  <2> USE SchedulerAssumption
  <2>a. SchedTypeOK /\ Unspawned /\ (\A j \in Threads : InOrder(j) /\ AtCursor(j))
    BY DEF SchedInv
  <2>b. now \in Nat /\ MaxTime \in Nat
    BY <2>a DEF SchedTypeOK
  <2>c. ASSUME now' \in Nat, now <= now', \A k \in Threads : JobAlone(k)
        PROVE  \A k \in Threads : InOrder(k)' /\ AtCursor(k)'
    BY <2>a, <2>b, <2>c, JobAloneKeeps
  <2>d. ASSUME NEW j \in Threads, now' = now, InOrder(j)' /\ AtCursor(j)',
               \A k \in Threads \ {j} : JobAlone(k)
        PROVE  \A k \in Threads : InOrder(k)' /\ AtCursor(k)'
    BY <2>a, <2>b, <2>d, JobAloneKeeps
  <2>1. CASE SpawnNext
    <3>1. spawned + 1 \in DOMAIN Jobs /\ spawned' = spawned + 1 /\ spawned' \in 0..Len(Jobs)
      BY <2>1, <2>a DEF SpawnNext, SchedTypeOK
    <3>2. PICK j \in Threads : j = Jobs[spawned + 1]
      BY <3>1
    <3>3. pc[j] = "unspawned"
      BY <3>1, <3>2, <2>a DEF SchedTypeOK, Unspawned
    <3>4. PICK s \in {"unspawned", "spawned"} : pc' = [pc EXCEPT ![j] = s]
      BY <2>1, <2>a, <3>2, <3>3 DEF SpawnNext, Goto, SchedTypeOK
    <3>5. UNCHANGED <<main, now, cursor, ran, waiting, woken, holding>>
      BY <2>1 DEF SpawnNext, gateVars
    <3>6. SchedTypeOK'
      <4>1. j \notin holding /\ j \notin waiting \cup woken
        BY <3>3, <2>a DEF SchedTypeOK
      <4>2. main \in {"starting", "parked", "exited"} /\ now \in 0..MaxTime
            /\ cursor \in [Threads -> 0..MaxTime] /\ ran \in [Threads -> Seq(1..MaxTime)]
        BY <2>a DEF SchedTypeOK
      <4>3. QED BY <4>1, <4>2, <3>1, <3>4, <3>5, <2>a, TypeAfterStep, GateTypeOK' DEF Steps
    <3>7. Unspawned'
      BY <3>1, <3>2, <3>4, <2>a DEF Unspawned, SchedTypeOK
    <3>8. InOrder(j)' /\ AtCursor(j)'
      <4>1. ran[j] = <<>> /\ pc'[j] \in {"unspawned", "spawned"}
        BY <3>3, <3>4, <2>a DEF AtCursor, SchedTypeOK
      <4>2. QED BY <4>1, <3>5 DEF InOrder, AtCursor
    <3>9. \A k \in Threads \ {j} : JobAlone(k)
      BY <3>4, <3>5, <2>a DEF JobAlone, SchedTypeOK
    <3>10. \A k \in Threads : InOrder(k)' /\ AtCursor(k)'
      BY <3>5, <3>8, <3>9, <2>d
    <3>11. QED BY <3>6, <3>7, <3>10 DEF SchedInv
  <2>2. CASE Fatal \/ Park \/ Tick \/ UNCHANGED schedVars
    <3>1. SchedTypeOK' /\ now' \in Nat /\ now <= now'
      <4>1. UNCHANGED <<spawned, pc, cursor, ran, waiting, woken, holding>>
        BY <2>2 DEF Fatal, Park, Tick, schedVars, gateVars
      <4>2. main' \in {"starting", "parked", "exited"}
        BY <2>2, <2>a DEF Fatal, Park, Tick, schedVars, SchedTypeOK
      <4>3. now' \in 0..MaxTime /\ now <= now'
        BY <2>2, <2>a, <2>b DEF Fatal, Park, Tick, schedVars, SchedTypeOK
      <4>4. QED BY <4>1, <4>2, <4>3, <2>a, <2>b, GateTypeOK' DEF SchedTypeOK
    <3>2. Unspawned'
      BY <2>2, <2>a DEF Fatal, Park, Tick, schedVars, Unspawned
    <3>3. \A k \in Threads : JobAlone(k)
      BY <2>2 DEF Fatal, Park, Tick, schedVars, JobAlone
    <3>4. QED BY <3>1, <3>2, <3>3, <2>c DEF SchedInv
  <2>3. ASSUME NEW j \in Threads, JobThread(j) \/ Spurious(j) PROVE SchedInv'
    <3>1. /\ now' = now /\ spawned' = spawned /\ main' = main
          /\ \A k \in Threads \ {j} : JobAlone(k)
      BY <2>3, <2>a DEF JobThread, Start, Iterate, StopOrSleep, Wake, Enter, Finish, Spurious,
                       Goto, JobAlone, SchedTypeOK
    <3>2. pc[j] # "unspawned"
      BY <2>3, <2>a DEF JobThread, Start, Iterate, StopOrSleep, Wake, Enter, Finish, Spurious,
                       SpuriousWakeup, SchedTypeOK
    <3>3. Unspawned'
      <4> SUFFICES ASSUME NEW i \in DOMAIN Jobs, i > spawned
                   PROVE  pc'[Jobs[i]] = "unspawned"
        BY <3>1 DEF Unspawned
      <4>1. pc[Jobs[i]] = "unspawned" /\ Jobs[i] \in Threads \ {j}
        BY <2>a, <3>2 DEF Unspawned
      <4>2. QED BY <4>1, <3>1 DEF JobAlone
    <3>4. SchedTypeOK' /\ InOrder(j)' /\ AtCursor(j)'
      <4>1. CASE Start(j)
        <5>1. SchedTypeOK'
          BY <4>1, <2>a DEF Start, Goto, gateVars, SchedTypeOK, GateTypeOK
        <5>2. InOrder(j)' /\ AtCursor(j)'
          BY <4>1, <2>a DEF Start, Goto, InOrder, AtCursor, Follows, SchedTypeOK
        <5>3. QED BY <5>1, <5>2
      <4>2. CASE Iterate(j)
        <5>1. CASE pc' = [pc EXCEPT ![j] = "stopped"] /\ UNCHANGED cursor
          <6>1. SchedTypeOK'
            BY <4>2, <5>1, <2>a DEF Iterate, StopOrSleep, gateVars, SchedTypeOK, GateTypeOK
          <6>2. InOrder(j)' /\ AtCursor(j)'
            BY <4>2, <5>1, <2>a DEF Iterate, StopOrSleep, InOrder, AtCursor, Follows, SchedTypeOK
          <6>3. QED BY <6>1, <6>2
        <5>2. ASSUME NEW c \in Upcoming(j), \A d \in Upcoming(j) : c <= d,
                     cursor' = [cursor EXCEPT ![j] = c],
                     pc' = [pc EXCEPT ![j] = "sleeping"]
              PROVE  SchedTypeOK' /\ InOrder(j)' /\ AtCursor(j)'
          <6>1. c \in Cron[j] /\ c \in 1..MaxTime /\ cursor[j] \in Nat /\ cursor[j] < c
            BY <5>2, <2>a DEF Upcoming, SchedTypeOK
          <6>2. SchedTypeOK'
            <7>1. UNCHANGED <<main, spawned, now, ran, waiting, woken, holding>> /\ pc[j] = "iterate"
              BY <4>2 DEF Iterate, StopOrSleep, gateVars
            <7>2. cursor' \in [Threads -> 0..MaxTime]
              BY <5>2, <6>1, <2>a DEF SchedTypeOK
            <7>3. j \notin holding /\ j \notin waiting \cup woken
              BY <7>1, <2>a DEF SchedTypeOK
            <7>4. main \in {"starting", "parked", "exited"} /\ spawned \in 0..Len(Jobs)
                  /\ now \in 0..MaxTime /\ ran \in [Threads -> Seq(1..MaxTime)]
              BY <2>a DEF SchedTypeOK
            <7>5. QED BY <7>1, <7>2, <7>3, <7>4, <5>2, <2>a, TypeAfterStep, GateTypeOK' DEF Steps
          <6>3. Follows(j, cursor[j], c)
            BY <5>2, <6>1 DEF Upcoming, Follows
          <6>4. InOrder(j)' /\ AtCursor(j)'
            BY <4>2, <5>2, <6>1, <6>3, <2>a
               DEF Iterate, StopOrSleep, InOrder, AtCursor, Follows, SchedTypeOK
          <6>5. QED BY <6>2, <6>4
        <5>3. QED BY <4>2, <5>1, <5>2 DEF Iterate, StopOrSleep, Goto
      <4>3. CASE Wake(j)
        <5>1. SchedTypeOK'
          BY <4>3, <2>a DEF Wake, Goto, gateVars, SchedTypeOK, GateTypeOK
        <5>2. InOrder(j)' /\ AtCursor(j)'
          BY <4>3, <2>a DEF Wake, Goto, InOrder, AtCursor, Follows, SchedTypeOK
        <5>3. QED BY <5>1, <5>2
      <4>4. CASE Enter(j)
        <5>1. CASE j \in holding'
          <6>1. /\ pc' = [pc EXCEPT ![j] = "running"] /\ cursor' = cursor
                /\ ran' = [ran EXCEPT ![j] = Append(@, cursor[j])] /\ pc[j] = "gated"
            BY <4>4, <5>1 DEF Enter, Goto
          <6>2. cursor[j] \in 1..MaxTime
            BY <6>1, <2>a DEF AtCursor
          <6>3. j \notin holding
            BY <6>1, <2>a DEF SchedTypeOK
          <6>4. SchedTypeOK'
            <7>1. holding' = holding \cup {j} /\ waiting' \subseteq waiting /\ woken' \subseteq woken
              BY <4>4, <5>1, <6>3 DEF Enter, AcquireNow, AcquireWait, Retake, TakeSlot
            <7>2. j \notin waiting' \cup woken'
              BY <4>4, <5>1, <6>3 DEF Enter, AcquireNow, AcquireWait, Retake, TakeSlot, Outside,
                                     SlotsConserved
            <7>3. ran' \in [Threads -> Seq(1..MaxTime)]
              BY <6>1, <6>2, <2>a DEF SchedTypeOK
            <7>4. main \in {"starting", "parked", "exited"} /\ spawned \in 0..Len(Jobs)
                  /\ now \in 0..MaxTime /\ cursor \in [Threads -> 0..MaxTime]
              BY <2>a DEF SchedTypeOK
            <7>5. QED BY <7>1, <7>2, <7>3, <7>4, <6>1, <6>3, <3>1, <2>a, TypeAfterStep, GateTypeOK'
                  DEF Steps
          <6>5. InOrder(j)' /\ ran'[j] # <<>> /\ ran'[j][Len(ran'[j])] = cursor[j]
            BY <6>1, <3>1, <2>a, AppendKeeps DEF SchedTypeOK
          <6>6. AtCursor(j)'
            BY <6>1, <6>5, <2>a DEF AtCursor, SchedTypeOK
          <6>7. QED BY <6>4, <6>5, <6>6
        <5>2. CASE j \notin holding'
          <6>1. pc' = pc /\ ran' = ran /\ cursor' = cursor /\ pc[j] = "gated"
            BY <4>4, <5>2 DEF Enter
          <6>2. holding' = holding /\ waiting' \cup woken' \subseteq waiting \cup woken \cup {j}
            BY <4>4, <5>2 DEF Enter, AcquireNow, AcquireWait, Retake, TakeSlot
          <6>3. SchedTypeOK'
            BY <6>1, <6>2, <3>1, <2>a, GateTypeOK' DEF SchedTypeOK
          <6>4. JobAlone(j)
            BY <6>1 DEF JobAlone
          <6>5. QED BY <6>3, <6>4, <3>1, <2>a, <2>b, JobAloneKeeps
        <5>3. QED BY <5>1, <5>2
      <4>5. CASE Finish(j)
        <5>1. /\ holding' = holding \ {j} /\ waiting' \cup woken' = waiting \cup woken
              /\ pc[j] = "running" /\ pc' = [pc EXCEPT ![j] = "iterate"]
              /\ UNCHANGED <<cursor, ran>>
          BY <4>5 DEF Finish, Goto, Release, NotifyOne
        <5>2. SchedTypeOK'
          BY <5>1, <3>1, <2>a, GateTypeOK' DEF SchedTypeOK
        <5>3. InOrder(j)' /\ AtCursor(j)'
          BY <5>1, <3>1, <2>a DEF InOrder, AtCursor, Follows, SchedTypeOK
        <5>4. QED BY <5>2, <5>3
      <4>6. CASE Spurious(j)
        <5>1. /\ holding' = holding /\ waiting' \cup woken' = waiting \cup woken
              /\ UNCHANGED <<pc, cursor, ran>>
          BY <4>6 DEF Spurious, SpuriousWakeup
        <5>2. SchedTypeOK'
          BY <5>1, <3>1, <2>a, GateTypeOK' DEF SchedTypeOK
        <5>3. JobAlone(j)
          BY <5>1 DEF JobAlone
        <5>4. QED BY <5>2, <5>3, <3>1, <2>a, <2>b, JobAloneKeeps
      <4>7. QED BY <2>3, <4>1, <4>2, <4>3, <4>4, <4>5, <4>6 DEF JobThread
    <3>5. \A k \in Threads : InOrder(k)' /\ AtCursor(k)'
      BY <3>1, <3>4, <2>d
    <3>6. QED BY <3>3, <3>4, <3>5 DEF SchedInv
  <2>4. QED
    BY <2>1, <2>2, <2>3 DEF SchedNext
<1>3. QED
  BY <1>1, <1>2, SchedulerUsesGate, GateTypeCorrect, SchedulerConservesSlots, PTL DEF SchedSpec

(* The state of the scheduler always has its type.                         *)
THEOREM SchedulerTypeCorrect == SchedSpec => []SchedTypeOK
<1>1. SchedInv => SchedTypeOK
  BY DEF SchedInv
<1>2. QED BY <1>1, SchedulerInvariant, PTL

(* However long passes overrun and wherever slots are contended, the       *)
(* passes of a job take its occurrences one by one in cron order and never *)
(* early, for any jobs, schedules and number of workers.                   *)
THEOREM SchedulerRunsInCronOrder == SchedSpec => []RunsInCronOrder
<1>1. SchedInv => RunsInCronOrder
  <2> SUFFICES ASSUME SchedInv, NEW j \in Threads
               PROVE  /\ \A i \in DOMAIN ran[j] : ran[j][i] \in Cron[j] /\ ran[j][i] <= now
                      /\ \A i \in 1..(Len(ran[j]) - 1) :
                            /\ ran[j][i] < ran[j][i + 1]
                            /\ \A c \in Cron[j] : ~(ran[j][i] < c /\ c < ran[j][i + 1])
    BY Zenon DEF RunsInCronOrder
  <2>1. InOrder(j)
    BY DEF SchedInv
  <2>2. DOMAIN ran[j] = 1..Len(ran[j])
    <3>1. ran[j] \in Seq(1..MaxTime)
      BY DEF SchedInv, SchedTypeOK
    <3>2. QED BY <3>1
  <2>3. QED BY <2>1, <2>2 DEF InOrder, Follows
<1>2. QED BY <1>1, SchedulerInvariant, PTL
=============================================================================
