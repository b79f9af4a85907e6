------------------------- MODULE WriterPool_proofs -------------------------
(***************************************************************************)
(* Proofs about a job with several writers: the memory it holds, who       *)
(* truncates a table, and what a pass that returned Ok has done.           *)
(***************************************************************************)
EXTENDS WriterPool, DataFacts

-----------------------------------------------------------------------------
(* The type of the state.  Inductive with what a full bucket means (it is  *)
(* the one being written), with a running pass being one of the passes,    *)
(* with the threads of later passes being unborn and with only a thread    *)
(* that flushes or drains being inside write_batch.                        *)

BucketsBounded ==
    \A w \in Writers : \A t \in Tables : Len(buckets[w][t]) >= Threshold =>
        thread[w] = "flushing" /\ call[w].table = t

PassRuns == job.step # "idle" => pass \in Passes

Unborn == \A w \in Writers : w[1] > pass => thread[w] = "unborn"

CallOwned == \A w \in Writers : call[w] # W!NoCall => thread[w] \in {"flushing", "draining"}

TypeInv == PoolTypeOK /\ BucketsBounded /\ PassRuns /\ Unborn /\ CallOwned

LEMMA WritersArePairs ==
  /\ \A w \in Writers : w[1] \in Passes /\ w[2] \in 1..N /\ PassOf[w] = w[1]
  /\ \A w \in Writers : w = <<w[1], w[2]>>
  /\ \A p \in Passes, i \in 1..N : /\ <<p, i>> \in Writers
                                   /\ <<p, i>>[1] = p /\ <<p, i>>[2] = i
BY DEF Writers, PassOf

(* A row is routed to one of the writers of the pass. *)
LEMMA RouteTyped ==
  ASSUME PoolTypeOK, NEW row \in Rows
  PROVE  Route(row) \in 1..N /\ RoundAfter(row) \in Nat
<1>1. N \in Nat \ {0} /\ KeyHash[row] \in Nat /\ round \in Nat
  BY PoolAssumption DEF PoolTypeOK
<1>2. \A k \in Nat : (k % N) + 1 \in 1..N
  BY <1>1
<1>3. QED BY <1>1, <1>2 DEF Route, RoundAfter

(* The call into a writer keeps its table and its rows while it runs, and  *)
(* its types, and leaves every other writer alone.                         *)
LEMMA WriteTyped ==
  ASSUME W!WriterTypeOK, NEW w \in Writers, W!WriteStep(w)
  PROVE  /\ W!WriterTypeOK'
         /\ call[w] # W!NoCall /\ call'[w] # W!NoCall
         /\ call[w].table \in Tables /\ call[w].rows \in Seq(Rows)
         /\ call'[w].table = call[w].table
         /\ call'[w].rows = call[w].rows
         /\ \A v \in Writers : v # w => call'[v] = call[v]
<1> DEFINE c == call[w]
<1>1. /\ c \in W!CallType /\ c.step \in {"mark", "truncate", "insert"} /\ c # W!NoCall
      /\ c.table \in Tables /\ c.rows \in Seq(Rows) /\ c.attempt \in Nat
      /\ call \in [Writers -> W!CallType]
      /\ {Retry, MaxFaults} \subseteq Nat
  <2>1. c.step \in {"mark", "truncate", "insert"}
    BY DEF W!WriteStep, W!Mark, W!Truncate, W!Insert, W!At
  <2>2. call \in [Writers -> W!CallType] /\ c \in W!CallType
    BY DEF W!WriterTypeOK
  <2>3. c # W!NoCall
    BY <2>1 DEF W!NoCall
  <2>4. QED BY <2>1, <2>2, <2>3, PoolAssumption DEF W!CallType
<1>2. ASSUME NEW s \in {"mark", "truncate", "insert", "ok", "err"},
             call' = [call EXCEPT ![w].step = s]
      PROVE  /\ call' \in [Writers -> W!CallType] /\ call'[w] # W!NoCall
             /\ call'[w].table = c.table /\ call'[w].rows = c.rows
             /\ \A v \in Writers : v # w => call'[v] = call[v]
  BY <1>1, <1>2 DEF W!CallType, W!NoCall
<1>3. ASSUME call' = [call EXCEPT ![w].attempt = @ + 1]
      PROVE  /\ call' \in [Writers -> W!CallType] /\ call'[w] # W!NoCall
             /\ call'[w].table = c.table /\ call'[w].rows = c.rows
             /\ \A v \in Writers : v # w => call'[v] = call[v]
  BY <1>1, <1>3 DEF W!CallType, W!NoCall
<1>4. CASE W!Mark(w)
  <2>1. truncated' \in [Passes -> SUBSET Tables] /\ UNCHANGED <<target, faults>>
    BY <1>1, <1>4, WritersArePairs DEF W!Mark, W!WriterTypeOK
  <2>2. PICK s \in {"truncate", "insert"} : call' = [call EXCEPT ![w].step = s]
    BY <1>4 DEF W!Mark, W!Goto
  <2>3. QED BY <1>1, <1>2, <2>1, <2>2 DEF W!WriterTypeOK
<1>5. CASE W!Truncate(w)
  <2>1. [target EXCEPT ![c.table] = <<>>] \in [Tables -> Seq(Rows)]
    BY <1>1, EmptySeq DEF W!WriterTypeOK
  <2>2. target' \in [Tables -> Seq(Rows)]
    BY <1>5, <2>1 DEF W!Truncate, W!WriterTypeOK
  <2>3. faults' \in 0..MaxFaults /\ truncated' \in [Passes -> SUBSET Tables]
    BY <1>1, <1>5 DEF W!Truncate, W!Fault, W!WriterTypeOK
  <2>4. PICK s \in {"insert", "err"} : call' = [call EXCEPT ![w].step = s]
    BY <1>5 DEF W!Truncate, W!Goto
  <2>5. QED BY <1>1, <1>2, <2>2, <2>3, <2>4 DEF W!WriterTypeOK
<1>6. CASE W!Insert(w)
  <2>1. W!Applied(w) \in [Tables -> Seq(Rows)]
    BY <1>1, ConcatProperties DEF W!WriterTypeOK, W!Applied
  <2>2. target' \in [Tables -> Seq(Rows)]
    BY <1>6, <2>1 DEF W!Insert, W!WriterTypeOK
  <2>3. faults' \in 0..MaxFaults /\ truncated' \in [Passes -> SUBSET Tables]
    BY <1>1, <1>6 DEF W!Insert, W!Fault, W!WriterTypeOK
  <2>4. CASE \E s \in {"ok", "err"} : call' = [call EXCEPT ![w].step = s]
    <3>1. PICK s \in {"ok", "err"} : call' = [call EXCEPT ![w].step = s]
      BY <2>4
    <3>2. QED BY <1>1, <1>2, <2>2, <2>3, <3>1 DEF W!WriterTypeOK
  <2>5. CASE call' = [call EXCEPT ![w].attempt = @ + 1]
    BY <1>1, <1>3, <2>2, <2>3, <2>5 DEF W!WriterTypeOK
  <2>6. QED BY <1>6, <2>4, <2>5 DEF W!Insert, W!Goto
<1>7. QED BY <1>4, <1>5, <1>6 DEF W!WriteStep

-----------------------------------------------------------------------------
JobType ==
    [step : {"idle", "reading", "sending", "joining"}, page : Nat,
     rows : Seq(Seq(Rows)), out : Seq(Rows), joined : 0..N]

LEMMA IdleTyped == Idle \in JobType /\ Idle.step = "idle"
<1>1. <<>> \in Seq(Seq(Rows)) /\ <<>> \in Seq(Rows) /\ 0 \in 0..N
  BY EmptySeq, PoolAssumption
<1>2. QED BY <1>1 DEF Idle, JobType

(* The constants and the state, typed one by one. *)
LEMMA Types ==
  ASSUME TypeInv
  PROVE  /\ N \in Nat \ {0} /\ MaxPasses \in Nat /\ MaxFaults \in Nat
         /\ Threshold \in Nat \ {0} /\ Capacity \in Nat \ {0}
         /\ \A p \in Passes : Output[p] \in Seq(Seq(Seq(Rows)))
         /\ Passes = 1..MaxPasses /\ pass \in 0..MaxPasses
         /\ job \in JobType /\ faults \in 0..MaxFaults /\ round \in Nat
         /\ result \in [Passes -> {"none", "running", "ok", "err"}]
         /\ thread \in [Writers -> {"unborn", "recv", "flushing", "draining", "done", "failed"}]
         /\ chan \in [Writers -> Seq(Rows)]
         /\ buckets \in [Writers -> [Tables -> Seq(Rows)]]
         /\ call \in [Writers -> W!CallType]
         /\ truncated \in [Passes -> SUBSET Tables] /\ target \in [Tables -> Seq(Rows)]
         /\ written \in [Writers -> Nat]
<1>1. PoolTypeOK
  BY DEF TypeInv
<1>2. QED BY <1>1, PoolAssumption DEF PoolTypeOK, JobType, W!WriterTypeOK, Passes

\* An error of run_once, and a failing call, keep the types.
LEMMA ReturnErrTyped ==
  ASSUME TypeInv, ReturnErr
  PROVE  /\ job' \in JobType /\ job' = Idle /\ job'.step = "idle"
         /\ result' \in [Passes -> {"none", "running", "ok", "err"}]
BY Types, IdleTyped DEF ReturnErr

LEMMA FaultTyped ==
  ASSUME TypeInv, W!Fault \/ UNCHANGED faults
  PROVE  faults' \in 0..MaxFaults
<1>1. faults \in 0..MaxFaults /\ MaxFaults \in Nat
  BY Types
<1>2. QED BY <1>1 DEF W!Fault

(* What a step of the job thread may change. *)
LEMMA JobTypeStep ==
  ASSUME TypeInv, JobStep
  PROVE  TypeInv'
<1>1. PoolTypeOK /\ BucketsBounded /\ PassRuns /\ Unborn /\ CallOwned
  BY DEF TypeInv
<1>2. CASE StartPass
  <2>1. /\ pass' = pass + 1 /\ pass < MaxPasses /\ round' = 0
        /\ UNCHANGED <<truncated, target, call, chan, buckets, written>>
    BY <1>2 DEF StartPass
  <2>2. pass' \in Passes /\ pass' \in 0..MaxPasses /\ pass \in Nat
    BY <2>1, Types
  <2>3. PICK born \in 0..N :
           /\ thread' = [w \in Writers |-> IF w[1] = pass' /\ w[2] <= born
                                           THEN "recv" ELSE thread[w]]
           /\ \/ /\ job' = [Idle EXCEPT !.step = "reading"]
                 /\ result' = [result EXCEPT ![pass'] = "running"]
                 /\ UNCHANGED faults
              \/ /\ W!Fault /\ job' = Idle
                 /\ result' = [result EXCEPT ![pass'] = "err"]
    BY <1>2 DEF StartPass
  <2>4. job' \in JobType
    BY <2>3, IdleTyped DEF JobType
  <2>5. result' \in [Passes -> {"none", "running", "ok", "err"}]
    BY <2>2, <2>3, Types
  <2>6. faults' \in 0..MaxFaults
    BY <2>3, FaultTyped
  <2>7. thread' \in [Writers -> {"unborn", "recv", "flushing", "draining", "done", "failed"}]
    BY <2>3, Types
  <2>8. \A w \in Writers : thread[w] # "unborn" => w[1] # pass' /\ thread'[w] = thread[w]
    BY <1>1, <2>1, <2>2, <2>3, WritersArePairs, Types DEF Unborn
  <2>9. BucketsBounded'
    BY <1>1, <2>1, <2>8 DEF BucketsBounded
  <2>10. Unborn'
    BY <1>1, <2>1, <2>2, <2>3, WritersArePairs, Types DEF Unborn
  <2>11. PoolTypeOK'
    BY <1>1, <2>1, <2>2, <2>4, <2>5, <2>6, <2>7
       DEF PoolTypeOK, W!WriterTypeOK, JobType
  <2>12. CallOwned'
    BY <1>1, <2>1, <2>8 DEF CallOwned
  <2>13. QED BY <2>2, <2>9, <2>10, <2>11, <2>12 DEF TypeInv, PassRuns
<1>3. CASE ~StartPass
  <2>1. UNCHANGED <<truncated, target, call, thread, buckets, written, pass>>
        /\ job.step # "idle" /\ pass \in Passes
    BY <1>1, <1>3 DEF JobStep, NextPage, RunEtl, SendRow, PageDone, Join, writerVars, threadVars, PassRuns
  <2>2. job' \in JobType /\ result' \in [Passes -> {"none", "running", "ok", "err"}]
        /\ round' \in Nat /\ faults' \in 0..MaxFaults
        /\ chan' \in [Writers -> Seq(Rows)] /\ \A w \in Writers : Len(chan'[w]) <= Capacity
    <3>0. \A w \in Writers : Len(chan[w]) <= Capacity
      BY <1>1 DEF PoolTypeOK
    <3>1. CASE NextPage
      <4>1. UNCHANGED <<chan, round>> /\ faults' \in 0..MaxFaults
        BY <3>1, FaultTyped DEF NextPage, threadVars
      <4>2. CASE ReturnErr
        BY <3>0, <4>1, <4>2, ReturnErrTyped, Types
      <4>3. CASE /\ job.page < Len(Output[pass])
                 /\ job' = [job EXCEPT !.step = "sending", !.page = @ + 1,
                                       !.rows = Output[pass][job.page + 1]]
                 /\ UNCHANGED result
        <5>1. Output[pass][job.page + 1] \in Seq(Seq(Rows))
          <6>1. Output[pass] \in Seq(Seq(Seq(Rows))) /\ job.page \in Nat
            BY <2>1, Types DEF JobType
          <6>2. job.page + 1 \in 1..Len(Output[pass])
            BY <4>3, <6>1, LenProperties
          <6>3. QED BY <6>1, <6>2, ElementOfSeq
        <5>2. job' \in JobType
          <6>1. job \in JobType
            BY Types
          <6>2. job.page + 1 \in Nat /\ "sending" \in {"idle", "reading", "sending", "joining"}
            BY <6>1 DEF JobType
          <6>3. QED BY <4>3, <5>1, <6>1, <6>2 DEF JobType
        <5>3. QED BY <3>0, <4>1, <4>3, <5>2, Types
      <4>4. CASE job' = [job EXCEPT !.step = "joining"] /\ UNCHANGED result
        <5>1. job' \in JobType
          BY <4>4, Types DEF JobType
        <5>2. QED BY <3>0, <4>1, <4>4, <5>1, Types
      <4>5. QED BY <3>1, <4>2, <4>3, <4>4 DEF NextPage
    <3>2. CASE RunEtl
      <4>1. UNCHANGED <<chan, round>> /\ faults' \in 0..MaxFaults
        BY <3>2, FaultTyped DEF RunEtl, threadVars
      <4>2. CASE ReturnErr
        BY <3>0, <4>1, <4>2, ReturnErrTyped, Types
      <4>3. CASE job' = [job EXCEPT !.out = Head(job.rows), !.rows = Tail(@)] /\ UNCHANGED result
        <5>1. job.rows \in Seq(Seq(Rows)) /\ job.rows # <<>>
          BY <3>2, Types DEF RunEtl, JobType
        <5>2. Head(job.rows) \in Seq(Rows) /\ Tail(job.rows) \in Seq(Seq(Rows))
          BY <5>1, HeadTailProperties
        <5>3. job' \in JobType
          BY <4>3, <5>2, Types DEF JobType
        <5>4. QED BY <3>0, <4>1, <4>3, <5>3, Types
      <4>4. QED BY <3>2, <4>2, <4>3 DEF RunEtl
    <3>3. CASE SendRow
      <4> DEFINE row == Head(job.out)
                 w == <<pass, Route(row)>>
      <4>1. job.out \in Seq(Rows) /\ job.out # <<>> /\ row \in Rows /\ Tail(job.out) \in Seq(Rows)
        <5>1. job.out \in Seq(Rows) /\ job.out # <<>>
          BY <3>3, Types DEF SendRow, JobType
        <5>2. QED BY <5>1, HeadTailProperties
      <4>2. w \in Writers /\ RoundAfter(row) \in Nat
        BY <1>1, <2>1, <4>1, RouteTyped, WritersArePairs
      <4>3. round' \in Nat /\ faults' \in 0..MaxFaults
        BY <3>3, <4>2, Types DEF SendRow
      <4>4. CASE ReturnErr /\ UNCHANGED chan
        BY <3>0, <4>3, <4>4, ReturnErrTyped, Types
      <4>5. CASE /\ Len(chan[w]) < Capacity /\ chan' = [chan EXCEPT ![w] = Append(@, row)]
                 /\ job' = [job EXCEPT !.out = Tail(@)] /\ UNCHANGED result
        <5>1. job' \in JobType
          BY <4>1, <4>5, Types DEF JobType
        <5>2. /\ Append(chan[w], row) \in Seq(Rows)
              /\ Len(Append(chan[w], row)) = Len(chan[w]) + 1 /\ Len(chan[w]) \in Nat
          BY <4>1, <4>2, Types, AppendProperties, LenProperties
        <5>3. \A v \in Writers : chan'[v] = IF v = w THEN Append(chan[w], row) ELSE chan[v]
          BY <4>2, <4>5, Types
        <5> HIDE DEF w
        <5>4. chan' \in [Writers -> Seq(Rows)]
          BY <4>2, <4>5, <5>2, Types
        <5>5. \A v \in Writers : Len(chan'[v]) <= Capacity
          BY <3>0, <4>5, <5>2, <5>3, Types
        <5>6. QED BY <4>3, <4>5, <5>1, <5>4, <5>5, Types
      <4>6. QED BY <3>3, <4>4, <4>5 DEF SendRow
    <3>4. CASE PageDone
      <4>1. job' \in JobType
        BY <3>4, Types DEF PageDone, JobType
      <4>2. QED BY <3>0, <3>4, <4>1, Types DEF PageDone, writerVars, threadVars
    <3>5. CASE Join
      <4>1. UNCHANGED <<chan, round, faults>>
        BY <3>5 DEF Join, writerVars, threadVars
      <4>2. CASE ReturnErr
        BY <3>0, <4>1, <4>2, ReturnErrTyped, Types
      <4>3. CASE job.joined < N /\ job' = [job EXCEPT !.joined = @ + 1] /\ UNCHANGED result
        <5>1. job' \in JobType
          <6>1. job \in JobType /\ N \in Nat
            BY Types
          <6>2. job.joined + 1 \in 0..N
            BY <4>3, <6>1 DEF JobType
          <6>3. QED BY <4>3, <6>1, <6>2 DEF JobType
        <5>2. QED BY <3>0, <4>1, <4>3, <5>1, Types
      <4>4. CASE job' = Idle /\ result' = [result EXCEPT ![pass] = "ok"]
        BY <3>0, <4>1, <4>4, IdleTyped, Types
      <4>5. QED BY <3>5, <4>2, <4>3, <4>4 DEF Join
    <3>6. QED BY <1>3, <3>1, <3>2, <3>3, <3>4, <3>5 DEF JobStep
  <2>3. BucketsBounded' /\ Unborn' /\ PassRuns' /\ CallOwned'
    BY <1>1, <2>1 DEF BucketsBounded, Unborn, PassRuns, CallOwned
  <2>4. PoolTypeOK'
    BY <1>1, <2>1, <2>2 DEF PoolTypeOK, W!WriterTypeOK, JobType
  <2>5. QED BY <2>3, <2>4 DEF TypeInv
<1>4. QED BY <1>2, <1>3

-----------------------------------------------------------------------------
(* What each step of a writer thread does to its channel, its buckets and  *)
(* its call.                                                               *)

\* A step of w that leaves the job thread and the other writers alone.
OthersAlone(w) ==
    /\ UNCHANGED jobVars
    /\ \A v \in Writers \ {w} :
          UNCHANGED <<chan[v], thread[v], buckets[v], call[v]>>

LEMMA RecvDoes ==
  ASSUME TypeInv, NEW w \in Writers, Recv(w)
  PROVE  LET row == Head(chan[w])
             t == TableOf(row)
         IN  /\ row \in Rows /\ t \in Tables
             /\ chan' \in [Writers -> Seq(Rows)] /\ Len(chan'[w]) < Len(chan[w])
             /\ ToSet(chan[w]) = {row} \cup ToSet(chan'[w])
             /\ buckets' \in [Writers -> [Tables -> Seq(Rows)]]
             /\ buckets'[w][t] = Append(buckets[w][t], row)
             /\ Len(buckets'[w][t]) = Len(buckets[w][t]) + 1
             /\ ToSet(buckets'[w][t]) = ToSet(buckets[w][t]) \cup {row}
             /\ \A u \in Tables : u # t => buckets'[w][u] = buckets[w][u]
             /\ \/ /\ Len(buckets'[w][t]) >= Threshold
                   /\ thread' = [thread EXCEPT ![w] = "flushing"]
                   /\ call' = [call EXCEPT ![w] = [step |-> "mark", table |-> t,
                                                   rows |-> buckets'[w][t], attempt |-> 0]]
                \/ /\ Len(buckets'[w][t]) < Threshold
                   /\ UNCHANGED <<thread, call>>
             /\ thread[w] = "recv" /\ OthersAlone(w)
             /\ UNCHANGED <<truncated, target, faults, written>>
<1> DEFINE row == Head(chan[w])
           t == TableOf(row)
           bucket == Append(buckets[w][t], row)
<1>1. /\ thread[w] = "recv" /\ chan[w] # <<>> /\ chan[w] \in Seq(Rows)
      /\ chan' = [chan EXCEPT ![w] = Tail(@)]
      /\ buckets' = [buckets EXCEPT ![w][t] = bucket]
      /\ \/ /\ Len(bucket) >= Threshold
            /\ thread' = [thread EXCEPT ![w] = "flushing"]
            /\ call' = [call EXCEPT ![w] = W!NewCall(t, bucket)]
         \/ ~(Len(bucket) >= Threshold) /\ UNCHANGED <<thread, call>>
      /\ UNCHANGED <<truncated, target, faults, written>> /\ UNCHANGED jobVars
  BY Types DEF Recv
<1>2. row \in Rows /\ Tail(chan[w]) \in Seq(Rows) /\ Len(Tail(chan[w])) = Len(chan[w]) - 1
      /\ ToSet(chan[w]) = {row} \cup ToSet(Tail(chan[w])) /\ Len(chan[w]) \in Nat
  BY <1>1, HeadTailProperties, ToSetHeadTail, LenProperties
<1>3. t \in Tables
  BY <1>2, PoolAssumption DEF TableOf
<1> HIDE DEF row, t
<1>4. buckets[w] \in [Tables -> Seq(Rows)] /\ buckets[w][t] \in Seq(Rows)
  BY <1>3, Types
<1>5. /\ bucket \in Seq(Rows) /\ Len(bucket) = Len(buckets[w][t]) + 1 /\ bucket # <<>>
      /\ ToSet(bucket) = ToSet(buckets[w][t]) \cup {row} /\ Len(bucket) \in Nat
  BY <1>2, <1>4, AppendProperties, ToSetAppend, LenProperties
<1>6. W!NewCall(t, bucket) = [step |-> "mark", table |-> t, rows |-> bucket, attempt |-> 0]
  BY <1>5 DEF W!NewCall
<1> HIDE DEF bucket
<1>7. /\ buckets' \in [Writers -> [Tables -> Seq(Rows)]]
      /\ buckets'[w][t] = bucket
      /\ \A u \in Tables : u # t => buckets'[w][u] = buckets[w][u]
      /\ \A v \in Writers : v # w => buckets'[v] = buckets[v]
  BY <1>1, <1>3, <1>4, <1>5, Types
<1>8. /\ chan' \in [Writers -> Seq(Rows)] /\ chan'[w] = Tail(chan[w])
      /\ \A v \in Writers : v # w => chan'[v] = chan[v]
  BY <1>1, <1>2, Types
<1>9. \A v \in Writers : v # w => thread'[v] = thread[v] /\ call'[v] = call[v]
  BY <1>1, Types
<1>10. Len(bucket) < Threshold \/ Len(bucket) >= Threshold
  BY <1>5, Types
<1>11. OthersAlone(w)
  BY <1>1, <1>7, <1>8, <1>9 DEF OthersAlone
<1>12. Len(chan'[w]) < Len(chan[w])
  BY <1>2, <1>8
<1>13. QED
  BY <1>1, <1>2, <1>3, <1>5, <1>6, <1>7, <1>8, <1>10, <1>11, <1>12, Types DEF row, t, bucket

LEMMA DisconnectDoes ==
  ASSUME TypeInv, NEW w \in Writers, Disconnect(w)
  PROVE  /\ thread[w] = "recv" /\ thread' = [thread EXCEPT ![w] = "draining"]
         /\ chan[w] = <<>> /\ ~SendersOpen(w)
         /\ UNCHANGED <<truncated, target, call, faults, chan, buckets, written>>
         /\ OthersAlone(w)
BY Types DEF Disconnect, OthersAlone, writerVars

LEMMA DrainDoes ==
  ASSUME TypeInv, NEW w \in Writers, Drain(w)
  PROVE  /\ thread[w] = "draining" /\ call[w] = W!NoCall
         /\ UNCHANGED <<truncated, target, faults, chan, buckets, written>>
         /\ OthersAlone(w)
         /\ \/ \E t \in Tables :
                  call' = [call EXCEPT ![w] = [step |-> "mark", table |-> t,
                                               rows |-> buckets[w][t], attempt |-> 0]]
               /\ UNCHANGED thread
            \/ /\ buckets[w] = NoBuckets /\ UNCHANGED call
               /\ thread' = [thread EXCEPT ![w] = "done"]
<1>1. \A t \in Tables : buckets[w][t] # <<>> =>
         W!NewCall(t, buckets[w][t]) =
            [step |-> "mark", table |-> t, rows |-> buckets[w][t], attempt |-> 0]
  BY DEF W!NewCall
<1>2. CASE \E t \in Tables : /\ buckets[w][t] # <<>>
                             /\ call' = [call EXCEPT ![w] = W!NewCall(t, buckets[w][t])]
                             /\ UNCHANGED thread
  <2>1. PICK t \in Tables : /\ buckets[w][t] # <<>>
                            /\ call' = [call EXCEPT ![w] = W!NewCall(t, buckets[w][t])]
                            /\ UNCHANGED thread
    BY <1>2
  <2>2. call' = [call EXCEPT ![w] = [step |-> "mark", table |-> t,
                                     rows |-> buckets[w][t], attempt |-> 0]]
    BY <1>1, <2>1
  <2>3. \A v \in Writers : v # w => call'[v] = call[v]
    BY <2>2, Types
  <2>4. QED BY <2>1, <2>2, <2>3 DEF Drain, OthersAlone
<1>3. CASE /\ buckets[w] = NoBuckets /\ UNCHANGED call
           /\ thread' = [thread EXCEPT ![w] = "done"]
  BY <1>3, Types DEF Drain, OthersAlone
<1>4. QED BY <1>2, <1>3 DEF Drain

LEMMA WrittenDoes ==
  ASSUME TypeInv, NEW w \in Writers, Written(w)
  PROVE  LET c == call[w]
         IN  /\ call' = [call EXCEPT ![w] = W!NoCall]
             /\ UNCHANGED <<truncated, target, faults>>
             /\ OthersAlone(w)
             /\ c.step \in {"ok", "err"} /\ c # W!NoCall
             /\ c.table \in Tables /\ c.rows \in Seq(Rows)
             /\ buckets' \in [Writers -> [Tables -> Seq(Rows)]]
             /\ chan' \in [Writers -> Seq(Rows)]
             /\ written' \in [Writers -> Nat]
             /\ \/ /\ c.step = "ok" /\ UNCHANGED chan
                   /\ thread' = [thread EXCEPT ![w] = IF @ = "flushing" THEN "recv" ELSE @]
                   /\ \A t \in Tables : buckets'[w][t] = IF t = c.table THEN <<>> ELSE buckets[w][t]
                \/ /\ c.step = "err"
                   /\ thread' = [thread EXCEPT ![w] = "failed"]
                   /\ buckets'[w] = NoBuckets /\ chan'[w] = <<>>
<1> DEFINE c == call[w]
<1>1. /\ c \in W!CallType /\ c.step \in {"ok", "err"}
      /\ call' = [call EXCEPT ![w] = W!NoCall] /\ UNCHANGED <<truncated, target, faults>>
      /\ UNCHANGED jobVars
  BY Types DEF Written
<1>2. c # W!NoCall /\ c.table \in Tables /\ c.rows \in Seq(Rows) /\ Len(c.rows) \in Nat
  <2>1. c # W!NoCall /\ c.table \in Tables /\ c.rows \in Seq(Rows)
    BY <1>1 DEF W!CallType, W!NoCall
  <2>2. QED BY <2>1, LenProperties
<1>3. \A v \in Writers : v # w => call'[v] = call[v]
  BY <1>1, Types
<1>4. CASE /\ c.step = "ok"
           /\ written' = [written EXCEPT ![w] = @ + Len(c.rows)]
           /\ buckets' = [buckets EXCEPT ![w][c.table] = <<>>]
           /\ thread' = [thread EXCEPT ![w] = IF @ = "flushing" THEN "recv" ELSE @]
           /\ UNCHANGED chan
  <2>1. written' \in [Writers -> Nat]
    <3>1. written \in [Writers -> Nat]
      BY Types
    <3>2. written[w] + Len(c.rows) \in Nat
      BY <1>2, <3>1
    <3>3. QED BY <1>4, <3>1, <3>2
  <2>2. /\ buckets' \in [Writers -> [Tables -> Seq(Rows)]]
        /\ \A t \in Tables : buckets'[w][t] = IF t = c.table THEN <<>> ELSE buckets[w][t]
        /\ \A v \in Writers : v # w => buckets'[v] = buckets[v]
    BY <1>2, <1>4, EmptySeq, Types
  <2>3. \A v \in Writers : v # w => thread'[v] = thread[v] /\ chan'[v] = chan[v]
    BY <1>4, Types
  <2>4. OthersAlone(w)
    BY <1>1, <1>3, <2>2, <2>3 DEF OthersAlone
  <2>5. QED BY <1>1, <1>2, <1>4, <2>1, <2>2, <2>4, Types
<1>5. CASE /\ c.step = "err"
           /\ thread' = [thread EXCEPT ![w] = "failed"]
           /\ buckets' = [buckets EXCEPT ![w] = NoBuckets]
           /\ chan' = [chan EXCEPT ![w] = <<>>]
           /\ UNCHANGED written
  <2>1. NoBuckets \in [Tables -> Seq(Rows)] /\ <<>> \in Seq(Rows)
    BY EmptySeq DEF NoBuckets
  <2>2. /\ buckets' \in [Writers -> [Tables -> Seq(Rows)]] /\ chan' \in [Writers -> Seq(Rows)]
        /\ buckets'[w] = NoBuckets /\ chan'[w] = <<>>
        /\ \A v \in Writers : v # w => buckets'[v] = buckets[v] /\ chan'[v] = chan[v]
                                       /\ thread'[v] = thread[v]
    BY <1>5, <2>1, Types
  <2>3. OthersAlone(w)
    BY <1>1, <1>3, <2>2 DEF OthersAlone
  <2>4. QED BY <1>1, <1>2, <1>5, <2>2, <2>3, Types
<1>6. QED BY <1>4, <1>5 DEF Written

LEMMA InWriteBatchDoes ==
  ASSUME TypeInv, NEW w \in Writers, InWriteBatch(w)
  PROVE  /\ W!WriterTypeOK' /\ OthersAlone(w)
         /\ call[w] # W!NoCall /\ call'[w] # W!NoCall
         /\ call[w].table \in Tables /\ call[w].rows \in Seq(Rows)
         /\ call'[w].table = call[w].table
         /\ call'[w].rows = call[w].rows
         /\ UNCHANGED <<chan, thread, buckets, written>>
<1>1. W!WriterTypeOK /\ W!WriteStep(w)
  BY DEF TypeInv, PoolTypeOK, InWriteBatch
<1>2. QED BY <1>1, WriteTyped DEF InWriteBatch, threadVars, OthersAlone

LEMMA ThreadTypeStep ==
  ASSUME TypeInv, NEW w \in Writers, WriterStep(w)
  PROVE  TypeInv'
<1>1. /\ PoolTypeOK /\ BucketsBounded /\ PassRuns /\ Unborn /\ CallOwned
      /\ \A v \in Writers : Len(chan[v]) <= Capacity
      /\ \A v \in Writers : \A t \in Tables : Len(buckets[v][t]) <= Threshold
  BY DEF TypeInv, PoolTypeOK
<1>2. thread[w] # "unborn" => ~(w[1] > pass)
  BY <1>1 DEF Unborn
<1>3. ASSUME OthersAlone(w), W!WriterTypeOK', written' \in [Writers -> Nat],
             chan' \in [Writers -> Seq(Rows)], buckets' \in [Writers -> [Tables -> Seq(Rows)]],
             thread' \in [Writers -> {"unborn", "recv", "flushing", "draining", "done", "failed"}],
             Len(chan'[w]) <= Capacity,
             \A t \in Tables : Len(buckets'[w][t]) <= Threshold,
             \A t \in Tables : Len(buckets'[w][t]) >= Threshold =>
                thread'[w] = "flushing" /\ call'[w].table = t,
             thread[w] # "unborn",
             call'[w] # W!NoCall => thread'[w] \in {"flushing", "draining"}
      PROVE  TypeInv'
  <2>1. UNCHANGED <<pass, job, result, round>>
        /\ \A v \in Writers : v # w => UNCHANGED <<chan[v], thread[v], buckets[v], call[v]>>
    BY <1>3 DEF OthersAlone, jobVars
  <2>2. BucketsBounded'
    <3>1. ASSUME NEW v \in Writers, v # w, NEW t \in Tables, Len(buckets'[v][t]) >= Threshold
          PROVE  thread'[v] = "flushing" /\ call'[v].table = t
      <4>1. UNCHANGED <<thread[v], buckets[v], call[v]>>
        BY <2>1, <3>1
      <4>2. QED BY <1>1, <3>1, <4>1 DEF BucketsBounded
    <3>2. QED BY <1>3, <3>1 DEF BucketsBounded
  <2>3. Unborn' /\ CallOwned'
    BY <1>1, <1>2, <1>3, <2>1 DEF Unborn, CallOwned
  <2>4. /\ \A v \in Writers : Len(chan'[v]) <= Capacity
        /\ \A v \in Writers : \A t \in Tables : Len(buckets'[v][t]) <= Threshold
    BY <1>1, <1>3, <2>1
  <2>5. PoolTypeOK'
    BY <1>1, <1>3, <2>1, <2>4 DEF PoolTypeOK
  <2>6. QED BY <1>1, <2>1, <2>2, <2>3, <2>5 DEF TypeInv, PassRuns
<1>4. CASE Recv(w)
  <2> DEFINE t == TableOf(Head(chan[w]))
  <2>1. /\ t \in Tables /\ thread[w] = "recv" /\ OthersAlone(w)
        /\ chan' \in [Writers -> Seq(Rows)] /\ Len(chan'[w]) < Len(chan[w])
        /\ buckets' \in [Writers -> [Tables -> Seq(Rows)]]
        /\ Len(buckets'[w][t]) = Len(buckets[w][t]) + 1
        /\ \A u \in Tables : u # t => buckets'[w][u] = buckets[w][u]
        /\ \/ /\ Len(buckets'[w][t]) >= Threshold
              /\ thread' = [thread EXCEPT ![w] = "flushing"]
              /\ call' = [call EXCEPT ![w] = [step |-> "mark", table |-> t,
                                              rows |-> buckets'[w][t], attempt |-> 0]]
           \/ /\ Len(buckets'[w][t]) < Threshold
              /\ UNCHANGED <<thread, call>>
        /\ UNCHANGED <<truncated, target, faults, written>>
    BY <1>4, RecvDoes
  <2> HIDE DEF t
  <2>2. /\ \A u \in Tables : Len(buckets[w][u]) \in Nat /\ Len(buckets[w][u]) < Threshold
        /\ Len(chan[w]) \in Nat /\ Len(chan'[w]) \in Nat
    <3>1. \A u \in Tables : ~(Len(buckets[w][u]) >= Threshold)
      BY <1>1, <2>1 DEF BucketsBounded
    <3>2. QED BY <2>1, <3>1, Types, LenProperties
  <2>3. Len(chan'[w]) <= Capacity
    BY <1>1, <2>1, <2>2, Types
  <2>4. \A u \in Tables : Len(buckets'[w][u]) <= Threshold
    <3>1. \A u \in Tables : u # t => Len(buckets'[w][u]) = Len(buckets[w][u])
      BY <2>1
    <3>2. Threshold \in Nat
      BY Types
    <3>3. Len(buckets'[w][t]) = Len(buckets[w][t]) + 1
      BY <2>1
    <3>4. \A u \in Tables : u # t => Len(buckets'[w][u]) <= Threshold
      BY <2>2, <3>1, <3>2
    <3>5. Len(buckets'[w][t]) <= Threshold
      <4>1. Len(buckets[w][t]) \in Nat /\ Len(buckets[w][t]) < Threshold
        BY <2>1, <2>2
      <4>2. QED BY <3>2, <3>3, <4>1
    <3>6. QED BY <3>4, <3>5
  <2>5. call' \in [Writers -> W!CallType]
    <3>1. buckets'[w][t] \in Seq(Rows)
      BY <2>1
    <3>2. [step |-> "mark", table |-> t, rows |-> buckets'[w][t], attempt |-> 0] \in W!CallType
      BY <2>1, <3>1 DEF W!CallType
    <3>3. QED BY <2>1, <3>2, Types
  <2>6. W!WriterTypeOK'
    BY <2>1, <2>5, Types DEF W!WriterTypeOK
  <2>7. \A u \in Tables : Len(buckets'[w][u]) >= Threshold =>
           thread'[w] = "flushing" /\ call'[w].table = u
    <3>1. \A u \in Tables : Len(buckets'[w][u]) >= Threshold => u = t
      BY <2>1, <2>2, Types
    <3>2. Len(buckets'[w][t]) >= Threshold => thread'[w] = "flushing" /\ call'[w].table = t
      BY <2>1, <2>2, Types
    <3>3. QED BY <3>1, <3>2
  <2>8. /\ thread' \in [Writers -> {"unborn", "recv", "flushing", "draining", "done", "failed"}]
        /\ written' \in [Writers -> Nat]
    BY <2>1, Types
  <2>9. call'[w] # W!NoCall => thread'[w] \in {"flushing", "draining"}
    BY <1>1, <2>1, Types DEF CallOwned
  <2>10. QED BY <1>3, <2>1, <2>3, <2>4, <2>6, <2>7, <2>8, <2>9
<1>5. CASE Disconnect(w)
  <2>1. /\ thread[w] = "recv" /\ thread' = [thread EXCEPT ![w] = "draining"]
        /\ UNCHANGED <<truncated, target, call, faults, chan, buckets, written>>
        /\ OthersAlone(w)
    BY <1>5, DisconnectDoes
  <2>2. \A u \in Tables : ~(Len(buckets[w][u]) >= Threshold)
    BY <1>1, <2>1 DEF BucketsBounded
  <2>3. W!WriterTypeOK'
    BY <2>1, Types DEF W!WriterTypeOK
  <2>4. thread'[w] = "draining"
    BY <2>1, Types
  <2>5. QED BY <1>1, <1>3, <2>1, <2>2, <2>3, <2>4, Types
<1>6. CASE Drain(w)
  <2>1. /\ thread[w] = "draining"
        /\ UNCHANGED <<truncated, target, faults, chan, buckets, written>>
        /\ OthersAlone(w)
    BY <1>6, DrainDoes
  <2>2. \A u \in Tables : ~(Len(buckets[w][u]) >= Threshold)
    BY <1>1, <2>1 DEF BucketsBounded
  <2>3. call' \in [Writers -> W!CallType]
    <3>1. ASSUME NEW t \in Tables
          PROVE  [step |-> "mark", table |-> t, rows |-> buckets[w][t], attempt |-> 0] \in W!CallType
      <4>1. buckets[w][t] \in Seq(Rows)
        BY Types
      <4>2. QED BY <4>1 DEF W!CallType
    <3>2. CASE UNCHANGED call
      BY <3>2, Types
    <3>3. CASE \E t \in Tables : call' = [call EXCEPT ![w] =
                  [step |-> "mark", table |-> t, rows |-> buckets[w][t], attempt |-> 0]]
      BY <3>1, <3>3, Types
    <3>4. QED BY <1>6, <3>2, <3>3, DrainDoes
  <2>4. W!WriterTypeOK'
    BY <2>1, <2>3, Types DEF W!WriterTypeOK
  <2>5. thread' \in [Writers -> {"unborn", "recv", "flushing", "draining", "done", "failed"}]
    BY <1>6, DrainDoes, Types
  <2>6. call'[w] # W!NoCall => thread'[w] \in {"flushing", "draining"}
    <3>1. UNCHANGED thread \/ (UNCHANGED call /\ call[w] = W!NoCall)
      BY <1>6, DrainDoes
    <3>2. QED BY <2>1, <3>1
  <2>7. QED BY <1>1, <1>3, <2>1, <2>2, <2>4, <2>5, <2>6, Types
<1>7. CASE InWriteBatch(w)
  <2>1. /\ W!WriterTypeOK' /\ OthersAlone(w) /\ call'[w].table = call[w].table
        /\ UNCHANGED <<chan, thread, buckets, written>>
    BY <1>7, InWriteBatchDoes
  <2>2. thread[w] \in {"flushing", "draining"}
    BY <1>1, <1>7, InWriteBatchDoes DEF CallOwned
  <2>3. QED BY <1>1, <1>3, <2>1, <2>2, Types DEF BucketsBounded
<1>8. CASE Written(w)
  <2> DEFINE c == call[w]
  <2>1. /\ call' = [call EXCEPT ![w] = W!NoCall]
        /\ UNCHANGED <<truncated, target, faults>>
        /\ OthersAlone(w) /\ c.table \in Tables
        /\ buckets' \in [Writers -> [Tables -> Seq(Rows)]]
        /\ chan' \in [Writers -> Seq(Rows)]
        /\ written' \in [Writers -> Nat]
        /\ \/ /\ UNCHANGED chan
              /\ thread' = [thread EXCEPT ![w] = IF @ = "flushing" THEN "recv" ELSE @]
              /\ \A t \in Tables : buckets'[w][t] = IF t = c.table THEN <<>> ELSE buckets[w][t]
           \/ /\ thread' = [thread EXCEPT ![w] = "failed"]
              /\ buckets'[w] = NoBuckets /\ chan'[w] = <<>>
    BY <1>8, WrittenDoes
  <2>2. call' \in [Writers -> W!CallType]
    BY <2>1, Types DEF W!CallType
  <2>3. W!WriterTypeOK'
    BY <2>1, <2>2, Types DEF W!WriterTypeOK
  <2>4. thread' \in [Writers -> {"unborn", "recv", "flushing", "draining", "done", "failed"}]
    BY <2>1, Types
  <2>5. \A t \in Tables : ~(Len(buckets'[w][t]) >= Threshold) /\ Len(buckets'[w][t]) \in Nat
    <3> SUFFICES ASSUME NEW t \in Tables
                 PROVE  ~(Len(buckets'[w][t]) >= Threshold) /\ Len(buckets'[w][t]) \in Nat
      OBVIOUS
    <3>1. CASE buckets'[w][t] = <<>>
      BY <3>1, Types
    <3>2. CASE buckets'[w][t] = buckets[w][t] /\ t # c.table
      <4>1. ~(Len(buckets[w][t]) >= Threshold)
        BY <1>1, <3>2 DEF BucketsBounded
      <4>2. buckets[w][t] \in Seq(Rows)
        BY Types
      <4>3. QED BY <3>2, <4>1, <4>2, LenProperties
    <3>3. QED BY <2>1, <3>1, <3>2 DEF NoBuckets
  <2>6. \A t \in Tables : Len(buckets'[w][t]) <= Threshold
    BY <2>5, Types
  <2>7. Len(chan'[w]) <= Capacity
    BY <1>1, <2>1, EmptySeq, Types
  <2>8. thread[w] # "unborn" /\ call'[w] = W!NoCall
    BY <1>1, <1>8, <2>1, WrittenDoes, Types DEF CallOwned
  <2>9. QED BY <1>3, <2>1, <2>3, <2>4, <2>5, <2>6, <2>7, <2>8
<1>9. QED BY <1>4, <1>5, <1>6, <1>7, <1>8 DEF WriterStep

LEMMA TypeStep ==
  ASSUME TypeInv, [PoolNext]_poolVars
  PROVE  TypeInv'
<1>1. CASE UNCHANGED poolVars
  BY <1>1 DEF poolVars, TypeInv, PoolTypeOK, W!WriterTypeOK, BucketsBounded, PassRuns, Unborn, CallOwned
<1>2. CASE AllDone
  BY <1>1, <1>2 DEF AllDone
<1>3. QED BY <1>1, <1>2, JobTypeStep, ThreadTypeStep DEF PoolNext

LEMMA InitTyped ==
  ASSUME PoolInit
  PROVE  TypeInv
<1>1. /\ \A t \in Tables : NoBuckets[t] = <<>> /\ Len(<<>>) = 0
      /\ NoBuckets \in [Tables -> Seq(Rows)] /\ <<>> \in Seq(Rows)
      /\ Threshold \in Nat \ {0} /\ Capacity \in Nat /\ MaxPasses \in Nat /\ MaxFaults \in Nat
  BY PoolAssumption, EmptySeq DEF NoBuckets
<1>2. W!WriterTypeOK
  BY <1>1, PoolAssumption DEF PoolInit, W!WriterInit, W!WriterTypeOK, W!CallType
<1>3. job \in JobType /\ pass \in 0..MaxPasses /\ round \in Nat
  BY <1>1, IdleTyped DEF PoolInit
<1>4. \A w \in Writers : buckets[w] = NoBuckets /\ chan[w] = <<>>
                         /\ thread[w] = "unborn" /\ call[w] = W!NoCall
  BY DEF PoolInit, W!WriterInit
<1>5. /\ chan \in [Writers -> Seq(Rows)]
      /\ buckets \in [Writers -> [Tables -> Seq(Rows)]]
      /\ thread \in [Writers -> {"unborn", "recv", "flushing", "draining", "done", "failed"}]
      /\ written \in [Writers -> Nat]
      /\ result \in [Passes -> {"none", "running", "ok", "err"}]
  BY <1>1 DEF PoolInit
<1>6. /\ \A w \in Writers : Len(chan[w]) <= Capacity
      /\ \A w \in Writers : \A t \in Tables : Len(buckets[w][t]) <= Threshold
      /\ \A w \in Writers : \A t \in Tables : ~(Len(buckets[w][t]) >= Threshold)
  BY <1>1, <1>4
<1>7. PoolTypeOK
  BY <1>2, <1>3, <1>5, <1>6 DEF PoolTypeOK, JobType
<1>8. QED
  BY <1>4, <1>6, <1>7, IdleTyped DEF TypeInv, BucketsBounded, PassRuns, Unborn, CallOwned, PoolInit

(* The state of a job with several writers has its type, and the rows it   *)
(* holds are bounded by the channels and the buckets, for any number of    *)
(* writers and passes and any rows.                                        *)
THEOREM PoolTypeCorrect == PoolSpec => []PoolTypeOK
<1>1. PoolInit => TypeInv
  BY InitTyped
<1>2. TypeInv /\ [PoolNext]_poolVars => TypeInv'
  BY TypeStep
<1>3. TypeInv => PoolTypeOK
  BY DEF TypeInv
<1>4. QED BY <1>1, <1>2, <1>3, PTL DEF PoolSpec

-----------------------------------------------------------------------------
(* One writer truncates a table: whoever is about to truncate it has       *)
(* marked it in the set its pass shares, and nobody marks it twice.        *)

Marked ==
    \A w \in Writers : W!At(w, "truncate") => call[w].table \in truncated[w[1]]

TruncInv == TypeInv /\ Marked /\ OneTruncater

\* Outside write_batch a call only begins or is taken away.
LEMMA CallsBegin ==
  ASSUME TypeInv, [PoolNext]_poolVars, ~\E w \in Writers : InWriteBatch(w)
  PROVE  /\ UNCHANGED <<truncated, target>>
         /\ \A v \in Writers : call'[v] = call[v] \/ call'[v].step = "mark" \/ call'[v] = W!NoCall
<1>1. CASE JobStep \/ AllDone \/ UNCHANGED poolVars
  BY <1>1 DEF JobStep, StartPass, NextPage, RunEtl, SendRow, PageDone, Join, AllDone, writerVars, poolVars
<1>2. ASSUME NEW w \in Writers, WriterStep(w)
      PROVE  /\ UNCHANGED <<truncated, target>>
             /\ \A v \in Writers : call'[v] = call[v] \/ call'[v].step = "mark" \/ call'[v] = W!NoCall
  <2>1. CASE Recv(w)
    <3> DEFINE t == TableOf(Head(chan[w]))
    <3>1. \/ UNCHANGED call
          \/ call' = [call EXCEPT ![w] = [step |-> "mark", table |-> t,
                                          rows |-> buckets'[w][t], attempt |-> 0]]
      BY <2>1, RecvDoes
    <3>2. UNCHANGED <<truncated, target>>
      BY <2>1 DEF Recv
    <3> HIDE DEF t
    <3>3. QED BY <3>1, <3>2, Types
  <2>2. CASE Disconnect(w)
    BY <2>2, DisconnectDoes
  <2>3. CASE Drain(w)
    <3>1. \/ UNCHANGED call
          \/ \E t, s : call' = [call EXCEPT ![w] = [step |-> "mark", table |-> t, rows |-> s, attempt |-> 0]]
      BY <2>3, DrainDoes
    <3>2. UNCHANGED <<truncated, target>>
      BY <2>3 DEF Drain
    <3>3. QED BY <3>1, <3>2, Types
  <2>4. CASE Written(w)
    BY <2>4, Types DEF Written
  <2>5. QED BY <1>2, <2>1, <2>2, <2>3, <2>4 DEF WriterStep
<1>3. QED BY <1>1, <1>2 DEF PoolNext

(* What each step of write_batch does to the call, the set and the target. *)
LEMMA WriteStepDoes ==
  ASSUME TypeInv, NEW w \in Writers, InWriteBatch(w)
  PROVE  LET c == call[w]
             t == c.table
         IN  \/ /\ Mode = "full" /\ t \notin truncated[w[1]] /\ call'[w].step = "truncate"
                /\ truncated' = [truncated EXCEPT ![w[1]] = @ \cup {t}] /\ UNCHANGED target
                /\ c.step = "mark"
             \/ /\ Mode = "full" => t \in truncated[w[1]]
                /\ UNCHANGED <<truncated, target>> /\ call'[w].step = "insert"
                /\ c.step = "mark"
             \/ /\ UNCHANGED truncated /\ c.step = "truncate"
                /\ \/ target' = [target EXCEPT ![t] = <<>>] /\ call'[w].step = "insert"
                   \/ target' \in {target, [target EXCEPT ![t] = <<>>]} /\ call'[w].step = "err"
             \/ /\ UNCHANGED truncated /\ c.step = "insert"
                /\ \/ target' = [target EXCEPT ![t] = @ \o c.rows] /\ call'[w].step = "ok"
                   \/ /\ target' \in {target, [target EXCEPT ![t] = @ \o c.rows]}
                      /\ call'[w].step \in {"err", "insert"}
<1> DEFINE c == call[w]
<1>1. /\ W!WriteStep(w) /\ c \in W!CallType /\ c # W!NoCall
      /\ call \in [Writers -> W!CallType] /\ PassOf[w] = w[1]
  BY Types, InWriteBatchDoes, WritersArePairs DEF InWriteBatch
<1>2. \A s : call' = [call EXCEPT ![w].step = s] => call'[w].step = s
  BY <1>1 DEF W!CallType, W!NoCall
<1>3. call' = [call EXCEPT ![w].attempt = @ + 1] => call'[w].step = c.step
  BY <1>1 DEF W!CallType, W!NoCall
<1>4. CASE W!Mark(w)
  BY <1>1, <1>2, <1>4 DEF W!Mark, W!At, W!Goto
<1>5. CASE W!Truncate(w)
  BY <1>1, <1>2, <1>5 DEF W!Truncate, W!At, W!Goto
<1>6. CASE W!Insert(w)
  BY <1>1, <1>2, <1>3, <1>6 DEF W!Insert, W!At, W!Goto, W!Applied
<1>7. QED BY <1>1, <1>4, <1>5, <1>6 DEF W!WriteStep

LEMMA TruncStep ==
  ASSUME TruncInv, [PoolNext]_poolVars
  PROVE  TruncInv'
<1>1. TypeInv /\ Marked /\ OneTruncater /\ TypeInv'
  BY TypeStep DEF TruncInv
<1>2. CASE ~\E w \in Writers : InWriteBatch(w)
  <2>1. /\ UNCHANGED truncated
        /\ \A v \in Writers : W!At(v, "truncate")' => W!At(v, "truncate") /\ call'[v] = call[v]
    <3>1. W!NoCall.step # "truncate"
      BY DEF W!NoCall
    <3>2. QED BY <1>1, <1>2, <3>1, CallsBegin DEF W!At
  <2>2. Marked'
    BY <1>1, <2>1 DEF Marked
  <2>3. OneTruncater'
    BY <1>1, <2>1 DEF OneTruncater
  <2>4. QED BY <1>1, <2>2, <2>3 DEF TruncInv
<1>3. ASSUME NEW w \in Writers, InWriteBatch(w) PROVE TruncInv'
  <2>1. /\ call'[w].table = call[w].table /\ call[w].table \in Tables
        /\ \A v \in Writers : v # w => call'[v] = call[v]
    BY <1>1, <1>3, InWriteBatchDoes DEF OthersAlone
  <2>0. \/ UNCHANGED truncated /\ call'[w].step # "truncate"
        \/ /\ call[w].table \notin truncated[w[1]]
           /\ truncated' = [truncated EXCEPT ![w[1]] = @ \cup {call[w].table}]
    BY <1>1, <1>3, WriteStepDoes
  <2> w[1] \in Passes /\ truncated \in [Passes -> SUBSET Tables]
    BY <1>1, Types, WritersArePairs
  <2>2. \A p \in Passes : truncated[p] \subseteq truncated'[p]
    BY <2>0
  <2>3. W!At(w, "truncate")' =>
           /\ call[w].table \notin truncated[w[1]]
           /\ call[w].table \in truncated'[w[1]]
    BY <2>0 DEF W!At
  <2>4. Marked'
    BY <1>1, <2>1, <2>2, <2>3, WritersArePairs DEF Marked, W!At
  <2>5. OneTruncater'
    <3>1. ASSUME NEW v \in Writers, v # w, v[1] = w[1], W!At(v, "truncate")', W!At(w, "truncate")'
          PROVE  call'[v].table # call'[w].table
      <4>1. call[v].table \in truncated[w[1]]
        BY <1>1, <2>1, <3>1 DEF Marked, W!At
      <4>2. QED BY <2>1, <2>3, <3>1, <4>1
    <3>2. ASSUME NEW u \in Writers, NEW v \in Writers, u # w, v # w, u # v, u[1] = v[1],
                 W!At(u, "truncate")', W!At(v, "truncate")'
          PROVE  call'[u].table # call'[v].table
      BY <1>1, <2>1, <3>2 DEF OneTruncater, W!At
    <3>3. QED BY <3>1, <3>2 DEF OneTruncater
  <2>6. QED BY <1>1, <2>4, <2>5 DEF TruncInv
<1>4. QED BY <1>2, <1>3

(* At no time do two writers of a pass truncate the same table, for any    *)
(* number of writers and any interleaving of theirs.                       *)
THEOREM TruncatersAreUnique == PoolSpec => []OneTruncater
<1>1. PoolInit => TruncInv
  <2> SUFFICES ASSUME PoolInit PROVE TruncInv
    OBVIOUS
  <2>1. \A w \in Writers : ~W!At(w, "truncate")
    BY DEF PoolInit, W!WriterInit, W!At, W!NoCall
  <2>2. QED BY <2>1, InitTyped DEF TruncInv, Marked, OneTruncater
<1>2. TruncInv /\ [PoolNext]_poolVars => TruncInv'
  BY TruncStep
<1>3. TruncInv => OneTruncater
  BY DEF TruncInv
<1>4. QED BY <1>1, <1>2, <1>3, PTL DEF PoolSpec

-----------------------------------------------------------------------------
(* A pass that returned Ok has joined all its writers: the join loop has   *)
(* seen them return Ok in spawn order, and a thread that is done stays so. *)

Joined ==
    /\ \A p \in Passes : p > pass => result[p] = "none"
    /\ job.step # "idle" => result[pass] = "running"
    /\ job.step # "joining" => job.joined = 0
    /\ job.step = "joining" => \A i \in 1..job.joined : thread[<<pass, i>>] = "done"

ControlInv == TypeInv /\ Joined /\ OkMeansQuiet

\* Only a running thread takes a step.
LEMMA RunningThreads ==
  ASSUME TypeInv, NEW w \in Writers, WriterStep(w)
  PROVE  /\ thread[w] \in {"recv", "flushing", "draining"}
         /\ OthersAlone(w)
BY RecvDoes, DisconnectDoes, DrainDoes, WrittenDoes, InWriteBatchDoes
   DEF WriterStep, TypeInv, CallOwned

\* A step of the job thread, as far as the passes and their results go.
LEMMA JobStepDoes ==
  ASSUME TypeInv, JobStep
  PROVE  \/ StartPass
         \/ /\ job.step # "idle" /\ UNCHANGED <<pass, thread>>
            /\ job' = Idle /\ result' = [result EXCEPT ![pass] = "err"]
         \/ /\ job.step # "idle" /\ UNCHANGED <<pass, thread, result>>
            /\ \/ job.step # "joining" /\ job'.step # "idle" /\ job'.joined = job.joined
               \/ /\ job.step = "joining" /\ job.joined < N
                  /\ thread[<<pass, job.joined + 1>>] = "done"
                  /\ job' = [job EXCEPT !.joined = @ + 1]
         \/ /\ job.step = "joining" /\ job.joined = N /\ UNCHANGED <<pass, thread>>
            /\ job' = Idle /\ result' = [result EXCEPT ![pass] = "ok"]
<1>0. job \in JobType
  BY Types
<1>1. CASE NextPage
  BY <1>0, <1>1 DEF NextPage, ReturnErr, threadVars, JobType
<1>2. CASE RunEtl
  BY <1>0, <1>2 DEF RunEtl, ReturnErr, threadVars, JobType
<1>3. CASE SendRow
  BY <1>0, <1>3 DEF SendRow, ReturnErr, JobType
<1>4. CASE PageDone
  BY <1>0, <1>4 DEF PageDone, threadVars, JobType
<1>5. CASE Join
  BY <1>0, <1>5 DEF Join, ReturnErr, threadVars, JobType
<1>6. QED BY <1>1, <1>2, <1>3, <1>4, <1>5 DEF JobStep

LEMMA ControlStep ==
  ASSUME ControlInv, [PoolNext]_poolVars
  PROVE  ControlInv'
<1>1. TypeInv /\ Joined /\ OkMeansQuiet /\ TypeInv'
  BY TypeStep DEF ControlInv
<1>2. CASE UNCHANGED poolVars \/ AllDone
  BY <1>1, <1>2 DEF AllDone, poolVars, Joined, OkMeansQuiet, ControlInv
<1>3. ASSUME NEW w \in Writers, WriterStep(w) PROVE ControlInv'
  <2>1. /\ UNCHANGED <<pass, job, result>> /\ thread[w] # "done"
        /\ \A v \in Writers : thread[v] = "done" => thread'[v] = "done"
    BY <1>1, <1>3, RunningThreads DEF OthersAlone, jobVars
  <2>2. OkMeansQuiet'
    BY <1>1, <2>1 DEF OkMeansQuiet
  <2>3. job.step = "joining" => \A i \in 1..job.joined : <<pass, i>> \in Writers
    BY <1>1, Types, WritersArePairs DEF TypeInv, PassRuns, JobType
  <2>4. Joined'
    BY <1>1, <2>1, <2>3 DEF Joined
  <2>5. QED BY <1>1, <2>2, <2>4 DEF ControlInv
<1>4. CASE StartPass
  <2>1. /\ pass' = pass + 1 /\ pass \in Nat /\ pass' \in Passes
        /\ (job' = Idle \/ job' = [Idle EXCEPT !.step = "reading"])
        /\ \/ job' = Idle /\ result' = [result EXCEPT ![pass'] = "err"]
           \/ job' = [Idle EXCEPT !.step = "reading"] /\ result' = [result EXCEPT ![pass'] = "running"]
        /\ \A w \in Writers : w[1] # pass' => thread'[w] = thread[w]
    BY <1>1, <1>4, Types DEF StartPass
  <2>2. /\ job'.joined = 0 /\ job'.step \in {"idle", "reading"}
        /\ job'.step = "reading" => result'[pass'] = "running"
        /\ \A p \in Passes : p # pass' => result'[p] = result[p]
        /\ result'[pass'] # "ok"
    BY <1>1, <2>1, Types DEF Idle
  <2>3. Joined'
    <3>1. \A p \in Passes : p > pass' => p # pass' /\ p > pass
      BY <2>1 DEF Passes
    <3>2. \A p \in Passes : p > pass' => result'[p] = "none"
      BY <1>1, <2>2, <3>1 DEF Joined
    <3>3. QED BY <2>2, <3>2 DEF Joined
  <2>4. OkMeansQuiet'
    BY <1>1, <2>1, <2>2, WritersArePairs DEF OkMeansQuiet
  <2>5. QED BY <1>1, <2>3, <2>4 DEF ControlInv
<1>5. CASE JobStep /\ ~StartPass
  <2>1. job.step # "idle" /\ pass \in Passes /\ UNCHANGED <<pass, thread>> /\ result[pass] = "running"
        /\ Idle.step = "idle" /\ Idle.joined = 0 /\ N \in Nat /\ job \in JobType
    BY <1>1, <1>5, JobStepDoes, Types DEF TypeInv, PassRuns, Joined, Idle
  <2>2. CASE job' = Idle /\ result' = [result EXCEPT ![pass] = "err"]
    <3>1. \A p \in Passes : result'[p] = IF p = pass THEN "err" ELSE result[p]
      BY <1>1, <2>1, <2>2, Types
    <3>2. Joined'
      BY <1>1, <2>1, <2>2, <3>1, Types DEF Joined
    <3>3. OkMeansQuiet'
      BY <1>1, <2>1, <3>1, WritersArePairs DEF OkMeansQuiet
    <3>4. QED BY <1>1, <3>2, <3>3 DEF ControlInv
  <2>3. CASE UNCHANGED result /\ job.step # "joining" /\ job'.step # "idle" /\ job'.joined = job.joined
    <3>1. Joined'
      BY <1>1, <2>1, <2>3 DEF Joined
    <3>2. QED BY <1>1, <2>1, <2>3, <3>1 DEF ControlInv, OkMeansQuiet
  <2>4. CASE /\ UNCHANGED result /\ job.step = "joining" /\ job.joined < N
             /\ thread[<<pass, job.joined + 1>>] = "done"
             /\ job' = [job EXCEPT !.joined = @ + 1]
    <3>1. /\ job.joined \in Nat /\ job'.joined = job.joined + 1 /\ job'.step = "joining"
      BY <2>1, <2>4 DEF JobType
    <3>2. \A i \in 1..job'.joined : i \in 1..job.joined \/ i = job.joined + 1
      BY <3>1
    <3>3. Joined'
      BY <1>1, <2>1, <2>4, <3>1, <3>2 DEF Joined
    <3>4. QED BY <1>1, <2>1, <2>4, <3>3 DEF ControlInv, OkMeansQuiet
  <2>5. CASE /\ job.step = "joining" /\ job.joined = N
             /\ job' = Idle /\ result' = [result EXCEPT ![pass] = "ok"]
    <3>1. \A p \in Passes : result'[p] = IF p = pass THEN "ok" ELSE result[p]
      BY <1>1, <2>1, <2>5, Types
    <3>2. \A w \in Writers : w[1] = pass => thread[w] = "done"
      BY <1>1, <2>5, WritersArePairs DEF Joined
    <3>3. OkMeansQuiet'
      BY <1>1, <2>1, <3>1, <3>2, WritersArePairs DEF OkMeansQuiet
    <3>4. Joined'
      BY <1>1, <2>1, <2>5, <3>1, Types DEF Joined
    <3>5. QED BY <1>1, <3>3, <3>4 DEF ControlInv
  <2>6. QED BY <1>1, <1>5, <2>2, <2>3, <2>4, <2>5, JobStepDoes
<1>6. QED BY <1>2, <1>3, <1>4, <1>5 DEF PoolNext

LEMMA ControlHolds == PoolSpec => []ControlInv
<1>1. PoolInit => ControlInv
  <2> SUFFICES ASSUME PoolInit PROVE ControlInv
    OBVIOUS
  <2>1. /\ job.step = "idle" /\ job.joined = 0
        /\ \A p \in Passes : result[p] = "none"
    BY DEF PoolInit, Idle
  <2>2. QED BY <2>1, InitTyped, WritersArePairs DEF ControlInv, Joined, OkMeansQuiet
<1>2. ControlInv /\ [PoolNext]_poolVars => ControlInv'
  BY ControlStep
<1>3. QED BY <1>1, <1>2, PTL DEF PoolSpec

(* A pass that returned Ok has no writer thread left, and each of its      *)
(* writers returned Ok, now and for ever.                                  *)
THEOREM OkPassesAreQuiet == PoolSpec => []OkMeansQuiet
<1>1. ControlInv => OkMeansQuiet
  BY DEF ControlInv
<1>2. QED BY <1>1, ControlHolds, PTL

-----------------------------------------------------------------------------
(* No row is lost: until a pass returns, every output row of its ETL is in *)
(* hand, with a writer thread, through, or lost to a writer that failed.   *)

\* A row is through once it is written; in mode full, where a later truncate
\* may remove it, once its table has been marked for truncation.
Through(p, row) ==
    IF Mode = "full" THEN TableOf(row) \in truncated[p] ELSE row \in ToSet(target[TableOf(row)])

InHand(row) ==
    \/ \E i \in DOMAIN Output[pass] : i > job.page /\ row \in OutputOf(Output[pass][i])
    \/ row \in OutputOf(job.rows)
    \/ row \in ToSet(job.out)

WithWriter(w, row) == row \in ToSet(chan[w]) \/ row \in ToSet(buckets[w][TableOf(row)])

SomeFailed(p) == \E w \in Writers : w[1] = p /\ thread[w] = "failed"

Accounted(row) ==
    \/ InHand(row)
    \/ \E w \in Writers : w[1] = pass /\ WithWriter(w, row)
    \/ Through(pass, row)
    \/ SomeFailed(pass)

RowsConserved ==
    /\ job.step # "idle" => \A row \in RowsOf(pass) : Accounted(row)
    /\ \A p \in Passes : result[p] = "ok" => \A row \in RowsOf(p) : Through(p, row)

\* What the job thread still holds, step by step.
HandsEmpty ==
    /\ job.step = "reading" => job.rows = <<>> /\ job.out = <<>>
    /\ job.step = "joining" => job.rows = <<>> /\ job.out = <<>> /\ job.page = Len(Output[pass])

\* What a writer thread holds once its channel has been closed.
ThreadsEmpty ==
    /\ \A w \in Writers : thread[w] \in {"draining", "done"} => chan[w] = <<>> /\ ~SendersOpen(w)
    /\ \A w \in Writers : thread[w] = "done" => buckets[w] = NoBuckets

\* The call of a writer carries the bucket of its table.
CallCarries ==
    \A w \in Writers : call[w] # W!NoCall =>
        /\ call[w].rows = buckets[w][call[w].table]
        /\ Mode # "full" => call[w].step # "truncate"
        /\ Mode = "full" /\ call[w].step \in {"truncate", "insert", "ok"} =>
              call[w].table \in truncated[w[1]]
        /\ Mode # "full" /\ call[w].step = "ok" =>
              ToSet(call[w].rows) \subseteq ToSet(target[call[w].table])

RowsInv == ControlInv /\ RowsConserved /\ HandsEmpty /\ ThreadsEmpty /\ CallCarries

LEMMA OutputTyped ==
  ASSUME NEW s \in Seq(Seq(Rows))
  PROVE  /\ OutputOf(s) \subseteq Rows
         /\ OutputOf(s) = UNION {ToSet(r) : r \in ToSet(s)}
<1>1. OutputOf(s) = UNION {ToSet(r) : r \in ToSet(s)}
  BY DEF OutputOf, ToSet
<1>2. \A r \in ToSet(s) : ToSet(r) \subseteq Rows
  BY ToSetIn
<1>3. QED BY <1>1, <1>2

LEMMA OutputHeadTail ==
  ASSUME NEW s \in Seq(Seq(Rows)), s # <<>>
  PROVE  OutputOf(s) = ToSet(Head(s)) \cup OutputOf(Tail(s))
<1>1. ToSet(s) = {Head(s)} \cup ToSet(Tail(s)) /\ Tail(s) \in Seq(Seq(Rows))
  BY ToSetHeadTail, HeadTailProperties
<1>2. /\ OutputOf(s) = UNION {ToSet(r) : r \in ToSet(s)}
      /\ OutputOf(Tail(s)) = UNION {ToSet(r) : r \in ToSet(Tail(s))}
  BY <1>1, OutputTyped
<1>3. QED BY <1>1, <1>2

LEMMA OutputEmpty == OutputOf(<<>>) = {}
BY DEF OutputOf

LEMMA RowsTyped ==
  ASSUME NEW p \in Passes
  PROVE  /\ RowsOf(p) \subseteq Rows
         /\ \A row \in RowsOf(p) : TableOf(row) \in Tables
         /\ \A row \in RowsOf(p) : \E i \in DOMAIN Output[p] : row \in OutputOf(Output[p][i])
         /\ \A i \in DOMAIN Output[p] : OutputOf(Output[p][i]) \subseteq RowsOf(p)
<1>1. Output[p] \in Seq(Seq(Seq(Rows)))
  BY PoolAssumption
<1>2. \A i \in DOMAIN Output[p] : Output[p][i] \in Seq(Seq(Rows))
  BY <1>1, LenProperties, ElementOfSeq
<1>3. RowsOf(p) \subseteq Rows
  BY <1>2, OutputTyped DEF RowsOf
<1>4. QED BY <1>3, PoolAssumption DEF RowsOf, TableOf

(* The marks of a pass only grow, and without mode full so do the tables.  *)
LEMMA TablesGrow ==
  ASSUME TypeInv, CallCarries, [PoolNext]_poolVars
  PROVE  /\ \A p \in Passes : truncated[p] \subseteq truncated'[p]
         /\ Mode # "full" => \A t \in Tables : ToSet(target[t]) \subseteq ToSet(target'[t])
<1>1. CASE ~\E w \in Writers : InWriteBatch(w)
  BY <1>1, CallsBegin
<1>2. ASSUME NEW w \in Writers, InWriteBatch(w)
      PROVE  /\ \A p \in Passes : truncated[p] \subseteq truncated'[p]
             /\ Mode # "full" => \A t \in Tables : ToSet(target[t]) \subseteq ToSet(target'[t])
  <2> DEFINE c == call[w]
  <2>1. c.table \in Tables /\ c.rows \in Seq(Rows) /\ c # W!NoCall /\ w[1] \in Passes
    BY <1>2, InWriteBatchDoes, WritersArePairs
  <2>2. \/ UNCHANGED truncated
        \/ truncated' = [truncated EXCEPT ![w[1]] = @ \cup {c.table}]
    BY <1>2, WriteStepDoes
  <2>3. Mode # "full" => UNCHANGED target \/ target' = [target EXCEPT ![c.table] = @ \o c.rows]
    BY <1>2, <2>1, WriteStepDoes DEF CallCarries
  <2>4. target[c.table] \in Seq(Rows)
    BY <2>1, Types
  <2>5. ToSet(target[c.table] \o c.rows) = ToSet(target[c.table]) \cup ToSet(c.rows)
    BY <2>1, <2>4, ToSetConcat
  <2>6. ASSUME NEW p \in Passes PROVE truncated[p] \subseteq truncated'[p]
    BY <2>2, Types
  <2>7. ASSUME Mode # "full", NEW t \in Tables PROVE ToSet(target[t]) \subseteq ToSet(target'[t])
    <3>1. target \in [Tables -> Seq(Rows)]
      BY Types
    <3>2. QED BY <2>1, <2>3, <2>5, <2>7, <3>1
  <2>8. QED BY <2>6, <2>7
<1>3. QED BY <1>1, <1>2

(* Nothing that is through comes back. *)
LEMMA ThroughGrows ==
  ASSUME TypeInv, CallCarries, [PoolNext]_poolVars,
         NEW p \in Passes, NEW row \in Rows, Through(p, row)
  PROVE  Through(p, row)'
<1>1. TableOf(row) \in Tables
  BY PoolAssumption DEF TableOf
<1>2. QED BY <1>1, TablesGrow DEF Through

(* What a step of a writer thread owes the rows. *)
LEMMA ThreadConserves ==
  ASSUME RowsInv, NEW w \in Writers, WriterStep(w),
         \A row \in Rows : WithWriter(w, row) =>
            WithWriter(w, row)' \/ Through(w[1], row)' \/ thread'[w] = "failed"
  PROVE  RowsConserved'
<1>1. /\ TypeInv /\ RowsConserved /\ CallCarries
      /\ thread[w] # "failed" /\ UNCHANGED <<pass, job, result>>
      /\ \A v \in Writers : v # w => UNCHANGED <<chan[v], thread[v], buckets[v]>>
  BY RunningThreads DEF RowsInv, ControlInv, OthersAlone, jobVars
<1>2. ASSUME NEW p \in Passes, NEW row \in Rows, Through(p, row)
      PROVE  Through(p, row)'
  BY <1>1, <1>2, ThroughGrows DEF PoolNext
<1>3. ASSUME job.step # "idle", NEW row \in RowsOf(pass) PROVE Accounted(row)'
  <2>1. pass \in Passes /\ row \in Rows /\ Accounted(row)
    BY <1>1, <1>3, RowsTyped DEF RowsConserved, TypeInv, PassRuns
  <2>2. CASE InHand(row)
    BY <1>1, <2>2 DEF InHand, Accounted
  <2>3. CASE Through(pass, row)
    <3>1. Through(pass, row)'
      BY <1>1, <1>2, <2>1, <2>3 DEF Through
    <3>2. QED BY <3>1 DEF Accounted
  <2>4. CASE SomeFailed(pass)
    <3>1. SomeFailed(pass)'
      BY <1>1, <2>4 DEF SomeFailed
    <3>2. QED BY <3>1 DEF Accounted
  <2>5. ASSUME NEW v \in Writers, v[1] = pass, WithWriter(v, row)
        PROVE  Accounted(row)'
    <3>1. CASE v # w
      <4>1. WithWriter(v, row)'
        BY <1>1, <2>5, <3>1 DEF WithWriter
      <4>2. QED BY <1>1, <2>5, <4>1 DEF Accounted
    <3>2. CASE v = w
      <4>1. WithWriter(w, row)' \/ Through(w[1], row)' \/ thread'[w] = "failed"
        BY <2>1, <2>5, <3>2
      <4>2. CASE WithWriter(w, row)'
        BY <1>1, <2>5, <3>2, <4>2 DEF Accounted
      <4>3. CASE Through(w[1], row)'
        BY <1>1, <2>5, <3>2, <4>3 DEF Accounted, Through
      <4>4. CASE thread'[w] = "failed"
        BY <1>1, <2>5, <3>2, <4>4 DEF Accounted, SomeFailed
      <4>5. QED BY <4>1, <4>2, <4>3, <4>4
    <3>3. QED BY <3>1, <3>2
  <2>6. QED BY <2>1, <2>2, <2>3, <2>4, <2>5 DEF Accounted
<1>4. ASSUME NEW p \in Passes, result[p] = "ok", NEW row \in RowsOf(p) PROVE Through(p, row)'
  BY <1>1, <1>2, <1>4, RowsTyped DEF RowsConserved
<1>5. QED
  BY <1>1, <1>3, <1>4 DEF RowsConserved

LEMMA ThreadRowsStep ==
  ASSUME RowsInv, NEW w \in Writers, WriterStep(w)
  PROVE  RowsInv'
<1>1. /\ TypeInv /\ RowsConserved /\ CallCarries /\ HandsEmpty /\ ThreadsEmpty /\ CallOwned
      /\ thread[w] \in {"recv", "flushing", "draining"} /\ UNCHANGED <<pass, job, result, round>>
      /\ \A v \in Writers : v # w => UNCHANGED <<chan[v], thread[v], buckets[v], call[v]>>
      /\ w[1] \in Passes
  BY RunningThreads, WritersArePairs DEF RowsInv, ControlInv, OthersAlone, jobVars, TypeInv
<1>2. ControlInv'
  BY ControlStep DEF RowsInv, PoolNext
<1>3. HandsEmpty'
  BY <1>1 DEF HandsEmpty
<1>4. ASSUME thread'[w] \in {"draining", "done"} => chan'[w] = <<>> /\ ~SendersOpen(w),
             thread'[w] = "done" => buckets'[w] = NoBuckets
      PROVE  ThreadsEmpty'
  <2>1. \A v \in Writers : SendersOpen(v)' <=> SendersOpen(v)
    BY <1>1 DEF SendersOpen, Mine
  <2>2. NoBuckets' = NoBuckets
    BY DEF NoBuckets
  <2>3. QED BY <1>1, <1>4, <2>1, <2>2 DEF ThreadsEmpty
<1>5. ASSUME UNCHANGED <<truncated, target>>,
             call'[w] # W!NoCall => \/ call'[w] = call[w] /\ buckets'[w] = buckets[w]
                                    \/ call'[w].step = "mark" /\ call'[w].rows = buckets'[w][call'[w].table]
      PROVE  CallCarries'
  <2>1. ASSUME NEW v \in Writers, v # w, call'[v] # W!NoCall
        PROVE  /\ call'[v].rows = buckets'[v][call'[v].table]
               /\ Mode # "full" => call'[v].step # "truncate"
               /\ Mode = "full" /\ call'[v].step \in {"truncate", "insert", "ok"} => call'[v].table \in truncated'[v[1]]
               /\ Mode # "full" /\ call'[v].step = "ok" =>
                     ToSet(call'[v].rows) \subseteq ToSet(target'[call'[v].table])
    BY <1>1, <1>5, <2>1 DEF CallCarries
  <2>2. ASSUME call'[w] # W!NoCall
        PROVE  /\ call'[w].rows = buckets'[w][call'[w].table]
               /\ Mode # "full" => call'[w].step # "truncate"
               /\ Mode = "full" /\ call'[w].step \in {"truncate", "insert", "ok"} => call'[w].table \in truncated'[w[1]]
               /\ Mode # "full" /\ call'[w].step = "ok" =>
                     ToSet(call'[w].rows) \subseteq ToSet(target'[call'[w].table])
    <3>1. CASE call'[w] = call[w] /\ buckets'[w] = buckets[w]
      BY <1>1, <1>5, <2>2, <3>1 DEF CallCarries
    <3>2. CASE call'[w].step = "mark" /\ call'[w].rows = buckets'[w][call'[w].table]
      BY <3>2
    <3>3. QED BY <1>5, <2>2, <3>1, <3>2
  <2>3. QED BY <2>1, <2>2 DEF CallCarries
<1>6. CASE Recv(w)
  <2> DEFINE row == Head(chan[w])
             t == TableOf(row)
  <2>1. /\ row \in Rows /\ t \in Tables
        /\ ToSet(chan[w]) = {row} \cup ToSet(chan'[w])
        /\ ToSet(buckets'[w][t]) = ToSet(buckets[w][t]) \cup {row}
        /\ \A u \in Tables : u # t => buckets'[w][u] = buckets[w][u]
        /\ \/ /\ thread' = [thread EXCEPT ![w] = "flushing"]
              /\ call' = [call EXCEPT ![w] = [step |-> "mark", table |-> t,
                                              rows |-> buckets'[w][t], attempt |-> 0]]
           \/ UNCHANGED <<thread, call>>
        /\ thread[w] = "recv" /\ UNCHANGED <<truncated, target>>
    BY <1>1, <1>6, RecvDoes
  <2>2. \A r \in Rows : WithWriter(w, r) => WithWriter(w, r)'
    <3> SUFFICES ASSUME NEW r \in Rows, WithWriter(w, r) PROVE WithWriter(w, r)'
      OBVIOUS
    <3>1. TableOf(r) \in Tables
      BY PoolAssumption DEF TableOf
    <3>2. CASE r = row
      <4>1. TableOf(r) = t
        BY <3>2
      <4>2. r \in ToSet(buckets'[w][t])
        BY <2>1, <3>2
      <4>3. QED BY <4>1, <4>2 DEF WithWriter
    <3>3. CASE r # row
      <4>1. ToSet(buckets[w][TableOf(r)]) \subseteq ToSet(buckets'[w][TableOf(r)])
        <5> HIDE DEF t, row
        <5>1. CASE TableOf(r) = t
          BY <2>1, <5>1
        <5>2. CASE TableOf(r) # t
          BY <2>1, <3>1, <5>2
        <5>3. QED BY <5>1, <5>2
      <4>2. r \in ToSet(chan[w]) => r \in ToSet(chan'[w])
        BY <2>1, <3>3
      <4>3. QED BY <4>1, <4>2 DEF WithWriter
    <3>4. QED BY <3>2, <3>3
  <2>3. RowsConserved'
    BY <1>6, <2>2, ThreadConserves DEF WriterStep
  <2> HIDE DEF t
  <2>4. thread'[w] \in {"recv", "flushing"}
    BY <1>1, <2>1, Types
  <2>5. ThreadsEmpty'
    BY <1>4, <2>4
  <2>6. call[w] = W!NoCall
    BY <1>1, <2>1 DEF CallOwned
  <2>7. CallCarries'
    BY <1>1, <1>5, <2>1, <2>6, Types
  <2>8. QED BY <1>2, <1>3, <2>3, <2>5, <2>7 DEF RowsInv
<1>7. CASE Disconnect(w)
  <2>1. /\ chan[w] = <<>> /\ ~SendersOpen(w) /\ thread'[w] = "draining"
        /\ UNCHANGED <<truncated, target, call, chan, buckets>>
    BY <1>1, <1>7, DisconnectDoes, Types
  <2>2. RowsConserved'
    BY <1>7, <2>1, ThreadConserves DEF WriterStep, WithWriter
  <2>3. ThreadsEmpty' /\ CallCarries'
    BY <1>4, <1>5, <2>1
  <2>4. QED BY <1>2, <1>3, <2>2, <2>3 DEF RowsInv
<1>8. CASE Drain(w)
  <2>1. /\ thread[w] = "draining" /\ UNCHANGED <<truncated, target, chan, buckets>>
        /\ call[w] = W!NoCall
        /\ \/ \E t \in Tables :
                 /\ call' = [call EXCEPT ![w] = [step |-> "mark", table |-> t,
                                                 rows |-> buckets[w][t], attempt |-> 0]]
                 /\ UNCHANGED thread
           \/ buckets[w] = NoBuckets /\ UNCHANGED call /\ thread' = [thread EXCEPT ![w] = "done"]
    BY <1>1, <1>8, DrainDoes
  <2>2. RowsConserved'
    BY <1>8, <2>1, ThreadConserves DEF WriterStep, WithWriter
  <2>3. chan[w] = <<>> /\ ~SendersOpen(w)
    BY <1>1, <2>1 DEF ThreadsEmpty
  <2>4. CASE \E t \in Tables :
                 /\ call' = [call EXCEPT ![w] = [step |-> "mark", table |-> t,
                                                 rows |-> buckets[w][t], attempt |-> 0]]
                 /\ UNCHANGED thread
    <3>1. ThreadsEmpty'
      BY <1>4, <2>1, <2>3, <2>4
    <3>2. CallCarries'
      BY <1>1, <1>5, <2>1, <2>4, Types
    <3>3. QED BY <1>2, <1>3, <2>2, <3>1, <3>2 DEF RowsInv
  <2>5. CASE buckets[w] = NoBuckets /\ UNCHANGED call /\ thread' = [thread EXCEPT ![w] = "done"]
    <3>1. ThreadsEmpty'
      BY <1>4, <2>1, <2>3, <2>5
    <3>2. CallCarries'
      BY <1>1, <1>5, <2>1, <2>5
    <3>3. QED BY <1>2, <1>3, <2>2, <3>1, <3>2 DEF RowsInv
  <2>6. QED BY <2>1, <2>4, <2>5
<1>9. CASE InWriteBatch(w)
  <2>1. /\ UNCHANGED <<chan, thread, buckets>>
        /\ call[w] # W!NoCall /\ call[w].table \in Tables /\ call[w].rows \in Seq(Rows)
        /\ call'[w].table = call[w].table /\ call'[w].rows = call[w].rows
    BY <1>1, <1>9, InWriteBatchDoes
  <2>2. RowsConserved'
    BY <1>9, <2>1, ThreadConserves DEF WriterStep, WithWriter
  <2>3. ThreadsEmpty'
    BY <1>1, <1>4, <2>1 DEF ThreadsEmpty
  <2>4. CallCarries'
    <3> DEFINE c == call[w]
    <3>1. /\ c.rows = buckets[w][c.table]
          /\ Mode # "full" => c.step # "truncate"
          /\ Mode = "full" /\ c.step = "truncate" => c.table \in truncated[w[1]]
          /\ Mode = "full" /\ c.step = "insert" => c.table \in truncated[w[1]]
      BY <1>1, <2>1 DEF CallCarries
    <3>2. \A p \in Passes : truncated[p] \subseteq truncated'[p]
      BY <1>1, <1>9, TablesGrow DEF PoolNext, WriterStep
    <3>3. Mode # "full" => \A t \in Tables : ToSet(target[t]) \subseteq ToSet(target'[t])
      BY <1>1, <1>9, TablesGrow DEF PoolNext, WriterStep
    <3>4. Mode # "full" => call'[w].step # "truncate"
      BY <1>1, <1>9, WriteStepDoes
    <3>5. Mode = "full" /\ call'[w].step \in {"truncate", "insert", "ok"} => c.table \in truncated'[w[1]]
      <4>1. c.table \in truncated[w[1]] => c.table \in truncated'[w[1]]
        BY <1>1, <3>2
      <4>2. truncated' = [truncated EXCEPT ![w[1]] = @ \cup {c.table}] => c.table \in truncated'[w[1]]
        BY <1>1, Types
      <4>3. QED BY <1>1, <1>9, <3>1, <4>1, <4>2, WriteStepDoes
    <3>6. Mode # "full" /\ call'[w].step = "ok" => ToSet(c.rows) \subseteq ToSet(target'[c.table])
      <4>1. call'[w].step = "ok" => target' = [target EXCEPT ![c.table] = @ \o c.rows]
        BY <1>1, <1>9, WriteStepDoes
      <4>2. target[c.table] \in Seq(Rows)
        BY <1>1, <2>1, Types
      <4>3. ToSet(target[c.table] \o c.rows) = ToSet(target[c.table]) \cup ToSet(c.rows)
        BY <2>1, <4>2, ToSetConcat
      <4>4. QED BY <1>1, <2>1, <4>1, <4>3, Types
    <3>7. ASSUME NEW v \in Writers, v # w, call'[v] # W!NoCall
          PROVE  /\ call'[v].rows = buckets'[v][call'[v].table]
                 /\ Mode # "full" => call'[v].step # "truncate"
                 /\ Mode = "full" /\ call'[v].step \in {"truncate", "insert", "ok"} => call'[v].table \in truncated'[v[1]]
                 /\ Mode # "full" /\ call'[v].step = "ok" =>
                       ToSet(call'[v].rows) \subseteq ToSet(target'[call'[v].table])
      <4>1. call'[v] = call[v] /\ buckets'[v] = buckets[v] /\ v[1] \in Passes
        BY <1>1, <3>7, WritersArePairs
      <4>2. call[v].table \in Tables
        BY <1>1, <3>7, <4>1, Types DEF W!CallType
      <4>3. QED BY <1>1, <3>2, <3>3, <3>7, <4>1, <4>2 DEF CallCarries
    <3> HIDE DEF c
    <3>8. QED BY <2>1, <3>1, <3>4, <3>5, <3>6, <3>7 DEF CallCarries, c
  <2>5. QED BY <1>2, <1>3, <2>2, <2>3, <2>4 DEF RowsInv
<1>10. CASE Written(w)
  <2> DEFINE c == call[w]
  <2>1. /\ call'[w] = W!NoCall /\ UNCHANGED <<truncated, target>>
        /\ c # W!NoCall /\ c.table \in Tables
        /\ \/ /\ c.step = "ok" /\ UNCHANGED chan
              /\ thread'[w] = IF thread[w] = "flushing" THEN "recv" ELSE thread[w]
              /\ \A t \in Tables : buckets'[w][t] = IF t = c.table THEN <<>> ELSE buckets[w][t]
           \/ thread'[w] = "failed"
    <3>1. call \in [Writers -> W!CallType] /\ DOMAIN thread = Writers
      <4>1. call \in [Writers -> W!CallType]
        BY <1>1, Types
      <4>2. DOMAIN thread = Writers
        BY <1>1, Types
      <4>3. QED BY <4>1, <4>2
    <3>2. /\ call' = [call EXCEPT ![w] = W!NoCall] /\ UNCHANGED <<truncated, target>>
          /\ c # W!NoCall /\ c.table \in Tables
      BY <1>1, <1>10, WrittenDoes
    <3>3. \/ /\ c.step = "ok" /\ UNCHANGED chan
             /\ thread' = [thread EXCEPT ![w] = IF @ = "flushing" THEN "recv" ELSE @]
             /\ \A t \in Tables : buckets'[w][t] = IF t = c.table THEN <<>> ELSE buckets[w][t]
          \/ thread' = [thread EXCEPT ![w] = "failed"]
      BY <1>1, <1>10, WrittenDoes
    <3>4. QED BY <3>1, <3>2, <3>3
  <2>2. CallCarries'
    BY <1>5, <2>1
  <2>3. ThreadsEmpty'
    <3>1. thread'[w] # "done" /\ (thread'[w] = "draining" => thread[w] = "draining" /\ UNCHANGED chan)
      BY <1>1, <2>1
    <3>2. QED BY <1>1, <1>4, <3>1 DEF ThreadsEmpty
  <2>4. ASSUME NEW row \in Rows, WithWriter(w, row)
        PROVE  WithWriter(w, row)' \/ Through(w[1], row)' \/ thread'[w] = "failed"
    <3>1. TableOf(row) \in Tables
      BY PoolAssumption DEF TableOf
    <3>2. CASE thread'[w] = "failed"
      BY <3>2
    <3>3. CASE /\ c.step = "ok" /\ UNCHANGED chan
               /\ \A t \in Tables : buckets'[w][t] = IF t = c.table THEN <<>> ELSE buckets[w][t]
      <4>1. CASE row \in ToSet(chan[w])
        BY <3>3, <4>1 DEF WithWriter
      <4>2. CASE row \in ToSet(buckets[w][TableOf(row)]) /\ TableOf(row) # c.table
        BY <3>1, <3>3, <4>2 DEF WithWriter
      <4>3. CASE row \in ToSet(buckets[w][TableOf(row)]) /\ TableOf(row) = c.table
        <5>1. /\ row \in ToSet(c.rows)
              /\ Mode = "full" => c.table \in truncated[w[1]]
              /\ Mode # "full" => ToSet(c.rows) \subseteq ToSet(target[c.table])
          BY <1>1, <2>1, <3>3, <4>3 DEF CallCarries
        <5>2. QED BY <2>1, <4>3, <5>1 DEF Through
      <4>4. QED BY <2>4, <4>1, <4>2, <4>3 DEF WithWriter
    <3>4. QED BY <2>1, <3>2, <3>3
  <2>5. RowsConserved'
    BY <1>10, <2>4, ThreadConserves DEF WriterStep
  <2>6. QED BY <1>2, <1>3, <2>2, <2>3, <2>5 DEF RowsInv
<1>11. QED BY <1>6, <1>7, <1>8, <1>9, <1>10 DEF WriterStep

(* What a step of the job thread owes the rows.                            *)
LEMMA JobRowsStep ==
  ASSUME RowsInv, JobStep
  PROVE  RowsInv'
<1>1. /\ TypeInv /\ Joined /\ RowsConserved /\ CallCarries /\ HandsEmpty /\ ThreadsEmpty /\ Unborn
      /\ OkMeansQuiet /\ UNCHANGED <<truncated, target, call, buckets>>
      /\ job \in JobType /\ pass \in 0..MaxPasses /\ N \in Nat
  BY Types DEF RowsInv, ControlInv, TypeInv, JobStep, StartPass, NextPage, RunEtl, SendRow,
     PageDone, Join, writerVars, threadVars
<1>2. ControlInv' /\ CallCarries'
  BY <1>1, ControlStep DEF RowsInv, PoolNext, CallCarries
<1>3. \A p \in Passes : \A row \in Rows : Through(p, row) <=> Through(p, row)'
  BY <1>1 DEF Through
<1>4. ASSUME \A v \in Writers : thread'[v] \in {"draining", "done"} =>
                thread'[v] = thread[v] /\ chan'[v] = chan[v] /\ ~SendersOpen(v)'
      PROVE  ThreadsEmpty'
  <2>1. NoBuckets' = NoBuckets
    BY DEF NoBuckets
  <2>2. QED BY <1>1, <1>4, <2>1 DEF ThreadsEmpty
<1>5. CASE StartPass
  <2>1. /\ pass' = pass + 1 /\ pass \in Nat /\ pass' \in Passes /\ UNCHANGED chan
        /\ \/ job' = Idle /\ result' = [result EXCEPT ![pass'] = "err"]
           \/ job' = [Idle EXCEPT !.step = "reading"] /\ result' = [result EXCEPT ![pass'] = "running"]
        /\ \A w \in Writers : IF w[1] = pass' THEN thread'[w] \in {"recv", thread[w]}
                                              ELSE thread'[w] = thread[w]
    BY <1>1, <1>5, Types DEF StartPass
  <2>2. /\ job'.step \in {"idle", "reading"} /\ job'.page = 0
        /\ job'.rows = <<>> /\ job'.out = <<>>
        /\ \A p \in Passes : result'[p] = "ok" => result[p] = "ok"
    BY <1>1, <2>1, Types DEF Idle
  <2>3. HandsEmpty'
    BY <2>2 DEF HandsEmpty
  <2>4. ThreadsEmpty'
    <3>1. \A w \in Writers : w[1] = pass' => thread[w] = "unborn"
      BY <1>1, <2>1 DEF Unborn
    <3>2. \A w \in Writers : w[1] # pass' => ~SendersOpen(w)'
      BY DEF SendersOpen, Mine
    <3>3. QED BY <1>4, <2>1, <3>1, <3>2
  <2>5. ASSUME NEW row \in RowsOf(pass') PROVE Accounted(row)'
    <3>1. PICK i \in DOMAIN Output[pass'] : row \in OutputOf(Output[pass'][i])
      BY <2>1, <2>5, RowsTyped
    <3>2. i > 0
      <4>1. Output[pass'] \in Seq(Seq(Seq(Rows)))
        BY <1>1, <2>1, Types
      <4>2. QED BY <4>1, LenProperties
    <3>3. InHand(row)'
      BY <2>2, <3>1, <3>2 DEF InHand
    <3>4. QED BY <3>3 DEF Accounted
  <2>6. RowsConserved'
    <3>1. ASSUME NEW p \in Passes, result'[p] = "ok", NEW row \in RowsOf(p) PROVE Through(p, row)'
      BY <1>1, <1>3, <2>2, <3>1, RowsTyped DEF RowsConserved
    <3>2. QED BY <2>5, <3>1 DEF RowsConserved
  <2>7. QED BY <1>2, <2>3, <2>4, <2>6 DEF RowsInv
<1>6. CASE ~StartPass
  <2>1. job.step # "idle" /\ pass \in Passes /\ UNCHANGED <<pass, thread>> /\ result[pass] = "running"
    BY <1>1, <1>6, JobStepDoes DEF TypeInv, PassRuns, Joined
  <2>2. \A row \in RowsOf(pass) : Accounted(row) /\ row \in Rows
    BY <1>1, <2>1, RowsTyped DEF RowsConserved
  <2>3. ASSUME NEW row \in RowsOf(pass), InHand(row) => Accounted(row)',
               \A w \in Writers : WithWriter(w, row) => WithWriter(w, row)'
        PROVE  Accounted(row)'
    <3>1. Through(pass, row) => Through(pass, row)'
      BY <1>3, <2>1, <2>2 DEF Through
    <3>2. SomeFailed(pass) => SomeFailed(pass)'
      BY <2>1 DEF SomeFailed
    <3>3. QED BY <2>1, <2>2, <2>3, <3>1, <3>2 DEF Accounted
  <2>4. ASSUME NEW p \in Passes, p # pass \/ result'[pass] # "ok", result'[p] = "ok",
               \A q \in Passes : q # pass => result'[q] = result[q],
               NEW row \in RowsOf(p)
        PROVE  Through(p, row)'
    BY <1>1, <1>3, <2>4, RowsTyped DEF RowsConserved
  <2>5. CASE job' = Idle /\ result' = [result EXCEPT ![pass] = "err"]
    <3>1. /\ job'.step = "idle" /\ result'[pass] # "ok"
          /\ \A q \in Passes : q # pass => result'[q] = result[q]
      BY <1>1, <2>1, <2>5, Types DEF Idle
    <3>2. RowsConserved'
      BY <2>4, <3>1 DEF RowsConserved
    <3>3. HandsEmpty'
      BY <3>1 DEF HandsEmpty
    <3>4. ThreadsEmpty'
      <4>1. \A v \in Writers : ~SendersOpen(v)'
        BY <3>1 DEF SendersOpen
      <4>2. UNCHANGED chan
        BY <1>1, <1>6, <2>5, <2>1 DEF JobStep, NextPage, RunEtl, SendRow, PageDone, Join, threadVars,
           ReturnErr, Idle, JobType
      <4>3. QED BY <1>4, <2>1, <4>1, <4>2
    <3>5. QED BY <1>2, <3>2, <3>3, <3>4 DEF RowsInv
  <2>6. CASE /\ NextPage \/ RunEtl \/ PageDone \/ Join
             /\ result' = result /\ UNCHANGED chan /\ job'.step # "idle"
    <3>1. ThreadsEmpty'
      <4>1. \A v \in Writers : ~SendersOpen(v) => ~SendersOpen(v)'
        BY <1>1, <1>6, <2>1, <2>6 DEF JobStep, NextPage, RunEtl, SendRow, PageDone, Join, ReturnErr,
           SendersOpen, Mine, Idle, JobType
      <4>2. QED BY <1>1, <1>4, <2>1, <2>6, <4>1 DEF ThreadsEmpty
    <3>2. ASSUME \A row \in RowsOf(pass) : InHand(row) => Accounted(row)'
          PROVE  RowsConserved'
      <4>1. \A row \in RowsOf(pass) : Accounted(row)'
        BY <2>3, <2>6, <3>2, <1>1 DEF WithWriter
      <4>2. \A p \in Passes : result'[p] = "ok" => \A row \in RowsOf(p) : Through(p, row)'
        BY <2>1, <2>4, <2>6
      <4>3. QED BY <2>1, <4>1, <4>2 DEF RowsConserved
    <3>3. CASE NextPage
      <4>1. job.rows = <<>> /\ job.out = <<>> /\ job.step = "reading" /\ job.page \in Nat
        BY <1>1, <3>3 DEF NextPage, HandsEmpty, JobType
      <4>2. CASE /\ job.page < Len(Output[pass])
                 /\ job' = [job EXCEPT !.step = "sending", !.page = @ + 1,
                                       !.rows = Output[pass][job.page + 1]]
        <5>1. /\ job'.step = "sending" /\ job'.page = job.page + 1
              /\ job'.rows = Output[pass][job.page + 1] /\ job'.out = job.out
          BY <1>1, <4>2 DEF JobType
        <5>2. ASSUME NEW row \in RowsOf(pass), InHand(row) PROVE Accounted(row)'
          <6>1. PICK i \in DOMAIN Output[pass] : i > job.page /\ row \in OutputOf(Output[pass][i])
            BY <4>1, <5>2, OutputEmpty, ToSetEmpty DEF InHand
          <6>2. i \in Nat
            <7>1. Output[pass] \in Seq(Seq(Seq(Rows)))
              BY <1>1, <2>1, Types
            <7>2. QED BY <7>1, LenProperties
          <6>3. i = job.page + 1 \/ i > job.page + 1
            BY <4>1, <6>1, <6>2
          <6>4. InHand(row)'
            BY <2>1, <5>1, <6>1, <6>3 DEF InHand
          <6>5. QED BY <6>4 DEF Accounted
        <5>3. RowsConserved'
          BY <3>2, <5>2
        <5>4. HandsEmpty'
          BY <5>1 DEF HandsEmpty
        <5>5. QED BY <1>2, <3>1, <5>3, <5>4 DEF RowsInv
      <4>3. CASE job.page = Len(Output[pass]) /\ job' = [job EXCEPT !.step = "joining"]
        <5>1. /\ job'.step = "joining" /\ job'.page = job.page
              /\ job'.rows = job.rows /\ job'.out = job.out
          BY <1>1, <4>3 DEF JobType
        <5>2. ASSUME NEW row \in RowsOf(pass), InHand(row) PROVE Accounted(row)'
          BY <2>1, <5>1, <5>2 DEF InHand, Accounted
        <5>3. RowsConserved'
          BY <3>2, <5>2
        <5>4. HandsEmpty'
          BY <2>1, <4>1, <4>3, <5>1 DEF HandsEmpty
        <5>5. QED BY <1>2, <3>1, <5>3, <5>4 DEF RowsInv
      <4>4. QED BY <2>1, <2>6, <3>3, <4>2, <4>3 DEF NextPage, ReturnErr, Idle
    <3>4. CASE RunEtl
      <4>1. /\ job.step = "sending" /\ job.out = <<>> /\ job.rows # <<>>
            /\ job' = [job EXCEPT !.out = Head(job.rows), !.rows = Tail(@)]
        BY <2>1, <2>6, <3>4 DEF RunEtl, ReturnErr, Idle
      <4>2. /\ job'.step = "sending" /\ job'.page = job.page
            /\ job'.out = Head(job.rows) /\ job'.rows = Tail(job.rows)
        BY <1>1, <4>1 DEF JobType
      <4>3. OutputOf(job.rows) = ToSet(Head(job.rows)) \cup OutputOf(Tail(job.rows))
        BY <1>1, <4>1, OutputHeadTail DEF JobType
      <4>4. ASSUME NEW row \in RowsOf(pass), InHand(row) PROVE Accounted(row)'
        <5>1. InHand(row)'
          BY <2>1, <4>1, <4>2, <4>3, <4>4, ToSetEmpty DEF InHand
        <5>2. QED BY <5>1 DEF Accounted
      <4>5. RowsConserved' /\ HandsEmpty'
        BY <3>2, <4>2, <4>4 DEF HandsEmpty
      <4>6. QED BY <1>2, <3>1, <4>5 DEF RowsInv
    <3>5. CASE PageDone \/ Join
      <4>1. /\ job'.page = job.page /\ job'.rows = job.rows /\ job'.out = job.out
            /\ \/ job'.step = "reading" /\ job.rows = <<>> /\ job.out = <<>>
               \/ job'.step = "joining" /\ job.step = "joining"
        BY <1>1, <2>1, <2>6, <3>5 DEF PageDone, Join, ReturnErr, Idle, JobType
      <4>2. ASSUME NEW row \in RowsOf(pass), InHand(row) PROVE Accounted(row)'
        BY <2>1, <4>1, <4>2 DEF InHand, Accounted
      <4>3. RowsConserved' /\ HandsEmpty'
        BY <1>1, <2>1, <3>2, <4>1, <4>2 DEF HandsEmpty
      <4>4. QED BY <1>2, <3>1, <4>3 DEF RowsInv
    <3>6. QED BY <2>6, <3>3, <3>4, <3>5
  <2>7. CASE result' = [result EXCEPT ![pass] = "ok"] /\ job' = Idle /\ job.step = "joining"
             /\ job.joined = N
    <3>1. job'.step = "idle" /\ UNCHANGED chan
      BY <1>6, <2>7 DEF Idle, JobStep, NextPage, RunEtl, SendRow, PageDone, Join, threadVars
    <3>2. ThreadsEmpty'
      BY <1>4, <2>1, <3>1 DEF SendersOpen
    <3>3. HandsEmpty'
      BY <3>1 DEF HandsEmpty
    <3>4. \A w \in Writers : w[1] = pass =>
             thread[w] = "done" /\ chan[w] = <<>> /\ buckets[w] = NoBuckets
      BY <1>1, <2>7, WritersArePairs DEF Joined, ThreadsEmpty
    <3>5. ASSUME NEW row \in RowsOf(pass) PROVE Through(pass, row)
      <4>1. TableOf(row) \in Tables
        BY <2>1, <3>5, RowsTyped
      <4>2. \A w \in Writers : w[1] = pass => ~WithWriter(w, row)
        BY <3>4, <4>1, ToSetEmpty DEF WithWriter, NoBuckets
      <4>3. ~SomeFailed(pass)
        BY <3>4 DEF SomeFailed
      <4>4. ~InHand(row)
        <5>1. job.rows = <<>> /\ job.out = <<>> /\ job.page = Len(Output[pass])
          BY <1>1, <2>7 DEF HandsEmpty
        <5>2. \A i \in DOMAIN Output[pass] : ~(i > Len(Output[pass]))
          <6>1. Output[pass] \in Seq(Seq(Seq(Rows)))
            BY <1>1, <2>1, Types
          <6>2. QED BY <6>1, LenProperties
        <5>3. QED BY <5>1, <5>2, OutputEmpty, ToSetEmpty DEF InHand
      <4>5. QED BY <2>2, <4>2, <4>3, <4>4 DEF Accounted
    <3>6. RowsConserved'
      <4>1. ASSUME NEW p \in Passes, result'[p] = "ok", NEW row \in RowsOf(p) PROVE Through(p, row)'
        <5>1. CASE p = pass
          BY <1>3, <2>1, <2>2, <3>5, <4>1, <5>1 DEF Through
        <5>2. CASE p # pass
          <6>1. result[p] = "ok"
            BY <1>1, <2>1, <2>7, <4>1, <5>2, Types
          <6>2. QED BY <1>1, <1>3, <4>1, <6>1, RowsTyped DEF RowsConserved
        <5>3. QED BY <5>1, <5>2
      <4>2. QED BY <3>1, <4>1 DEF RowsConserved
    <3>7. QED BY <1>2, <3>2, <3>3, <3>6 DEF RowsInv
  <2>8. CASE SendRow /\ UNCHANGED result
    <3> DEFINE row == Head(job.out)
               w == <<pass, Route(row)>>
    <3>1. /\ job.step = "sending" /\ job.out # <<>> /\ ~Ended(w)
          /\ chan' = [chan EXCEPT ![w] = Append(@, row)]
          /\ job' = [job EXCEPT !.out = Tail(@)]
      BY <1>1, <2>1, <2>8, Types DEF SendRow, ReturnErr
    <3>2. job.out \in Seq(Rows) /\ row \in Rows /\ ToSet(job.out) = {row} \cup ToSet(Tail(job.out))
      <4>1. job.out \in Seq(Rows) /\ job.out # <<>>
        BY <1>1, <3>1 DEF JobType
      <4>2. QED BY <4>1, HeadTailProperties, ToSetHeadTail
    <3>3. w \in Writers /\ w[1] = pass
      BY <1>1, <2>1, <3>2, RouteTyped, WritersArePairs DEF TypeInv
    <3>4. /\ job'.step = "sending" /\ job'.page = job.page /\ job'.rows = job.rows
          /\ job'.out = Tail(job.out)
      BY <1>1, <3>1 DEF JobType
    <3> HIDE DEF row, w
    <3>5. /\ ToSet(chan'[w]) = ToSet(chan[w]) \cup {row}
          /\ \A v \in Writers : v # w => chan'[v] = chan[v]
      <4>1. chan[w] \in Seq(Rows)
        BY <1>1, <3>3, Types
      <4>2. ToSet(Append(chan[w], row)) = ToSet(chan[w]) \cup {row}
        BY <3>2, <4>1, ToSetAppend
      <4>3. QED BY <1>1, <3>1, <3>3, <4>2, Types
    <3>6. \A r \in Rows : \A v \in Writers : WithWriter(v, r) => WithWriter(v, r)'
      BY <1>1, <3>5 DEF WithWriter
    <3>7. ASSUME NEW r \in RowsOf(pass), InHand(r) PROVE Accounted(r)'
      <4>1. CASE r = row
        BY <2>1, <3>3, <3>5, <4>1 DEF Accounted, WithWriter
      <4>2. CASE r # row
        <5>1. InHand(r)'
          BY <2>1, <3>2, <3>4, <3>7, <4>2 DEF InHand
        <5>2. QED BY <5>1 DEF Accounted
      <4>3. QED BY <4>1, <4>2
    <3>8. RowsConserved'
      <4>1. \A r \in RowsOf(pass) : Accounted(r)'
        BY <2>2, <2>3, <3>6, <3>7
      <4>2. \A p \in Passes : result'[p] = "ok" => \A r \in RowsOf(p) : Through(p, r)'
        BY <2>1, <2>4, <2>8
      <4>3. QED BY <2>1, <4>1, <4>2 DEF RowsConserved
    <3>9. HandsEmpty'
      BY <3>4 DEF HandsEmpty
    <3>10. ThreadsEmpty'
      <4>1. thread[w] \notin {"draining", "done"}
        BY <1>1, <3>1, <3>3 DEF ThreadsEmpty, SendersOpen, Mine
      <4>2. \A v \in Writers : SendersOpen(v)' <=> SendersOpen(v)
        BY <2>1, <3>1, <3>4 DEF SendersOpen, Mine
      <4>3. QED BY <1>1, <1>4, <2>1, <3>5, <4>1, <4>2 DEF ThreadsEmpty
    <3>11. QED BY <1>2, <3>8, <3>9, <3>10 DEF RowsInv
  <2>9. \/ SendRow
        \/ UNCHANGED chan /\ (NextPage \/ RunEtl \/ PageDone \/ Join)
    BY <1>6 DEF JobStep, NextPage, RunEtl, PageDone, Join, threadVars
  <2>10. \/ job' = Idle /\ result' = [result EXCEPT ![pass] = "err"]
         \/ UNCHANGED result /\ job'.step # "idle"
         \/ job.step = "joining" /\ job.joined = N /\ job' = Idle /\ result' = [result EXCEPT ![pass] = "ok"]
    BY <1>1, <1>6, JobStepDoes DEF JobType
  <2>11. QED BY <2>5, <2>6, <2>7, <2>8, <2>9, <2>10
<1>7. QED BY <1>5, <1>6

LEMMA RowsStep ==
  ASSUME RowsInv, [PoolNext]_poolVars
  PROVE  RowsInv'
<1>1. CASE UNCHANGED poolVars
  <2>1. ControlInv'
    BY <1>1, ControlStep DEF RowsInv
  <2>2. /\ RowsConserved' <=> RowsConserved
        /\ HandsEmpty' <=> HandsEmpty
        /\ CallCarries' <=> CallCarries
    BY <1>1 DEF poolVars, RowsConserved, HandsEmpty, CallCarries, Accounted, InHand, Through,
       SomeFailed, WithWriter
  <2>3. ThreadsEmpty' <=> ThreadsEmpty
    BY <1>1 DEF poolVars, ThreadsEmpty, SendersOpen, Mine, NoBuckets
  <2>4. QED BY <2>1, <2>2, <2>3 DEF RowsInv
<1>2. QED BY <1>1, JobRowsStep, ThreadRowsStep DEF PoolNext, AllDone

LEMMA RowsInit == PoolInit => RowsInv
<1> SUFFICES ASSUME PoolInit PROVE RowsInv
  OBVIOUS
<1>1. /\ job.step = "idle" /\ job.joined = 0
      /\ \A p \in Passes : result[p] = "none"
      /\ \A w \in Writers : thread[w] = "unborn" /\ call[w] = W!NoCall
  BY DEF PoolInit, Idle, W!WriterInit
<1>2. ControlInv
  BY <1>1, InitTyped, WritersArePairs DEF ControlInv, Joined, OkMeansQuiet
<1>3. RowsConserved /\ HandsEmpty /\ ThreadsEmpty /\ CallCarries
  BY <1>1 DEF RowsConserved, HandsEmpty, ThreadsEmpty, CallCarries
<1>4. QED BY <1>2, <1>3 DEF RowsInv

LEMMA RowsHold == PoolSpec => []RowsInv
BY RowsInit, RowsStep, PTL DEF PoolSpec

(* In the modes upsert and append a pass that returned Ok has written      *)
(* every output row of its ETL, and the rows stay written whatever later   *)
(* passes and the writers they leave behind do.  (Mode full cannot have    *)
(* this for more than one pass: a later pass truncates.)                   *)
THEOREM OkPassesHaveWritten ==
  ASSUME Mode # "full"
  PROVE  PoolSpec => []OkMeansWritten
<1>1. RowsInv => OkMeansWritten
  BY DEF RowsInv, RowsConserved, Through, OkMeansWritten
<1>2. QED BY <1>1, RowsHold, PTL

-----------------------------------------------------------------------------
(* A full pass leaves only rows of its own: what it writes is its own, and *)
(* a table it marks is cleared before it is written, or the pass fails.    *)

\* Every row under way is one of the pass.
OwnRows ==
    /\ \A w \in Writers : ToSet(chan[w]) \subseteq RowsOf(1)
    /\ \A w \in Writers : \A t \in Tables : ToSet(buckets[w][t]) \subseteq RowsOf(1)
    /\ job.step # "idle" => OutputOf(job.rows) \cup ToSet(job.out) \subseteq RowsOf(1)

\* A marked table holds only rows of the pass, is about to be truncated, or
\* its truncation has failed and the writer fails with it.
Replaced ==
    \A t \in truncated[1] :
        \/ ToSet(target[t]) \subseteq RowsOf(1)
        \/ \E w \in Writers : W!At(w, "truncate") /\ call[w].table = t
        \/ \E w \in Writers : W!At(w, "err")
        \/ SomeFailed(1)

ReplaceInv == RowsInv /\ OwnRows /\ Replaced

LEMMA OwnRowsStep ==
  ASSUME ReplaceInv, MaxPasses = 1, [PoolNext]_poolVars
  PROVE  OwnRows'
<1>1. /\ TypeInv /\ HandsEmpty /\ OwnRows
      /\ job.step # "idle" => pass = 1
      /\ 1 \in Passes
  BY DEF ReplaceInv, RowsInv, ControlInv, TypeInv, PassRuns, Passes
<1>2. CASE UNCHANGED poolVars \/ AllDone
  BY <1>1, <1>2 DEF AllDone, poolVars, OwnRows
<1>3. ASSUME UNCHANGED <<chan, buckets>>,
             job'.step # "idle" => OutputOf(job'.rows) \cup ToSet(job'.out) \subseteq RowsOf(1)
      PROVE  OwnRows'
  BY <1>1, <1>3 DEF OwnRows
<1>4. CASE StartPass
  <2>1. UNCHANGED <<chan, buckets>> /\ job' \in {Idle, [Idle EXCEPT !.step = "reading"]}
    BY <1>4 DEF StartPass
  <2>2. job'.rows = <<>> /\ job'.out = <<>>
    BY <2>1 DEF Idle
  <2>3. QED BY <1>3, <2>1, <2>2, OutputEmpty, ToSetEmpty
<1>5. CASE job' = Idle /\ UNCHANGED <<chan, buckets>>
  BY <1>3, <1>5 DEF Idle
<1>6. CASE NextPage
  <2>1. CASE /\ job.page < Len(Output[pass])
             /\ job' = [job EXCEPT !.step = "sending", !.page = @ + 1,
                                   !.rows = Output[pass][job.page + 1]]
    <3>1. /\ job.out = <<>> /\ pass = 1 /\ job.page \in Nat
      BY <1>1, <1>6, Types DEF NextPage, HandsEmpty, JobType
    <3>2. job.page + 1 \in DOMAIN Output[1]
      <4>1. Output[1] \in Seq(Seq(Seq(Rows)))
        BY <1>1, Types
      <4>2. QED BY <2>1, <3>1, <4>1, LenProperties
    <3>3. job'.rows = Output[1][job.page + 1] /\ job'.out = <<>>
      BY <2>1, <3>1, Types DEF JobType
    <3>4. OutputOf(job'.rows) \subseteq RowsOf(1)
      BY <1>1, <3>2, <3>3, RowsTyped
    <3>5. QED BY <1>3, <1>6, <3>3, <3>4, ToSetEmpty DEF NextPage, threadVars
  <2>2. CASE job' = [job EXCEPT !.step = "joining"]
    <3>1. job'.rows = job.rows /\ job'.out = job.out /\ job.step # "idle"
      BY <1>6, <2>2, Types DEF NextPage, JobType
    <3>2. QED BY <1>1, <1>3, <1>6, <3>1 DEF NextPage, threadVars, OwnRows
  <2>3. QED BY <1>5, <1>6, <2>1, <2>2 DEF NextPage, ReturnErr, threadVars
<1>7. CASE RunEtl
  <2>1. CASE job.rows # <<>> /\ job' = [job EXCEPT !.out = Head(job.rows), !.rows = Tail(@)]
    <3>1. job'.rows = Tail(job.rows) /\ job'.out = Head(job.rows) /\ job.rows \in Seq(Seq(Rows))
      BY <1>1, <2>1, Types DEF JobType
    <3>2. OutputOf(job.rows) = ToSet(Head(job.rows)) \cup OutputOf(Tail(job.rows))
      BY <2>1, <3>1, OutputHeadTail
    <3>3. QED BY <1>1, <1>3, <1>7, <3>1, <3>2 DEF RunEtl, threadVars, OwnRows
  <2>2. QED BY <1>5, <1>7, <2>1 DEF RunEtl, ReturnErr, threadVars
<1>8. CASE SendRow
  <2> DEFINE row == Head(job.out)
             w == <<pass, Route(row)>>
  <2>1. CASE /\ chan' = [chan EXCEPT ![w] = Append(@, row)]
             /\ job' = [job EXCEPT !.out = Tail(@)]
    <3>1. /\ job.out \in Seq(Rows) /\ job.out # <<>> /\ job.step = "sending" /\ UNCHANGED buckets
          /\ job'.rows = job.rows /\ job'.out = Tail(job.out) /\ job'.step = "sending"
      BY <1>1, <1>8, <2>1, Types DEF SendRow, JobType
    <3>2. row \in Rows /\ ToSet(job.out) = {row} \cup ToSet(Tail(job.out))
      BY <3>1, HeadTailProperties, ToSetHeadTail
    <3>3. row \in RowsOf(1) /\ ToSet(Tail(job.out)) \subseteq RowsOf(1)
          /\ OutputOf(job.rows) \subseteq RowsOf(1)
      BY <1>1, <3>1, <3>2 DEF OwnRows
    <3> HIDE DEF row, w
    <3>4. ASSUME NEW v \in Writers PROVE ToSet(chan'[v]) \subseteq RowsOf(1)
      <4>1. chan[v] \in Seq(Rows) /\ ToSet(chan[v]) \subseteq RowsOf(1)
        BY <1>1, Types DEF OwnRows
      <4>2. ToSet(Append(chan[v], row)) = ToSet(chan[v]) \cup {row}
        BY <3>2, <4>1, ToSetAppend
      <4>3. chan'[v] \in {chan[v], Append(chan[v], row)}
        BY <1>1, <2>1, Types
      <4>4. QED BY <3>3, <4>1, <4>2, <4>3
    <3>5. QED BY <1>1, <3>1, <3>3, <3>4 DEF OwnRows
  <2>2. QED BY <1>5, <1>8, <2>1 DEF SendRow, ReturnErr
<1>9. CASE PageDone \/ Join
  <2>1. /\ UNCHANGED <<chan, buckets>> /\ job.step # "idle"
        /\ \/ job' = Idle
           \/ job'.rows = job.rows /\ job'.out = job.out
    <3>1. /\ UNCHANGED <<chan, buckets>> /\ job.step \in {"sending", "joining"}
          /\ \/ job' = Idle
             \/ job' = [job EXCEPT !.step = "reading"]
             \/ job' = [job EXCEPT !.joined = @ + 1]
      BY <1>9 DEF PageDone, Join, ReturnErr, threadVars
    <3>2. job \in JobType
      BY <1>1, Types
    <3>3. \/ job' = [job EXCEPT !.step = "reading"]
          \/ job' = [job EXCEPT !.joined = @ + 1]
          => job'.rows = job.rows /\ job'.out = job.out
      BY <3>2 DEF JobType
    <3>4. QED BY <3>1, <3>3
  <2>2. QED BY <1>1, <1>3, <1>5, <2>1 DEF OwnRows
<1>10. ASSUME NEW w \in Writers, WriterStep(w) PROVE OwnRows'
  <2>1. /\ UNCHANGED <<pass, job, result, round>>
        /\ \A v \in Writers : v # w => chan'[v] = chan[v] /\ buckets'[v] = buckets[v]
    BY <1>1, <1>10, RunningThreads DEF OthersAlone, jobVars
  <2>2. ASSUME ToSet(chan'[w]) \subseteq RowsOf(1),
               \A t \in Tables : ToSet(buckets'[w][t]) \subseteq RowsOf(1)
        PROVE  OwnRows'
    BY <1>1, <2>1, <2>2 DEF OwnRows
  <2>3. CASE Recv(w)
    <3> DEFINE row == Head(chan[w])
               t == TableOf(row)
    <3>1. /\ ToSet(chan[w]) = {row} \cup ToSet(chan'[w])
          /\ ToSet(buckets'[w][t]) = ToSet(buckets[w][t]) \cup {row}
          /\ \A u \in Tables : u # t => buckets'[w][u] = buckets[w][u]
          /\ t \in Tables
      BY <1>1, <2>3, RecvDoes
    <3> HIDE DEF row, t
    <3>2. QED BY <1>1, <2>2, <3>1 DEF OwnRows
  <2>4. CASE Disconnect(w) \/ Drain(w) \/ InWriteBatch(w)
    <3>1. UNCHANGED <<chan, buckets>>
      BY <1>1, <2>4, DisconnectDoes, DrainDoes, InWriteBatchDoes
    <3>2. QED BY <1>1, <1>3, <2>1, <3>1 DEF OwnRows
  <2>5. CASE Written(w)
    <3>1. /\ chan'[w] \in {chan[w], <<>>}
          /\ \A t \in Tables : buckets'[w][t] \in {buckets[w][t], <<>>}
      BY <1>1, <2>5, WrittenDoes DEF NoBuckets
    <3>2. QED BY <1>1, <2>2, <3>1, ToSetEmpty DEF OwnRows
  <2>6. QED BY <1>10, <2>3, <2>4, <2>5 DEF WriterStep
<1>11. QED BY <1>2, <1>4, <1>6, <1>7, <1>8, <1>9, <1>10 DEF PoolNext, JobStep

LEMMA ReplacedStep ==
  ASSUME ReplaceInv, MaxPasses = 1, [PoolNext]_poolVars
  PROVE  Replaced'
<1>1. /\ TypeInv /\ CallCarries /\ OwnRows /\ Replaced /\ CallOwned /\ Unborn
      /\ 1 \in Passes /\ \A w \in Writers : w[1] = 1
  BY WritersArePairs DEF ReplaceInv, RowsInv, ControlInv, TypeInv, Passes
<1>2. CASE UNCHANGED poolVars \/ AllDone
  BY <1>1, <1>2 DEF AllDone, poolVars, Replaced, SomeFailed, W!At
<1>3. ASSUME UNCHANGED <<truncated, target>>,
             \A v \in Writers : W!At(v, "truncate") => call'[v] = call[v],
             \A v \in Writers : W!At(v, "err") => call'[v] = call[v] \/ thread'[v] = "failed",
             \A v \in Writers : thread[v] = "failed" => thread'[v] = "failed"
      PROVE  Replaced'
  <2>1. SomeFailed(1) => SomeFailed(1)'
    BY <1>3 DEF SomeFailed
  <2>2. (\E w \in Writers : W!At(w, "err")) => (\E w \in Writers : W!At(w, "err")') \/ SomeFailed(1)'
    BY <1>1, <1>3 DEF SomeFailed, W!At
  <2>3. \A t : (\E w \in Writers : W!At(w, "truncate") /\ call[w].table = t)
                  => \E w \in Writers : W!At(w, "truncate")' /\ call'[w].table = t
    BY <1>3 DEF W!At
  <2>4. QED BY <1>1, <1>3, <2>1, <2>2, <2>3 DEF Replaced
<1>4. CASE JobStep
  <2>1. UNCHANGED <<truncated, target, call>>
    BY <1>4 DEF JobStep, StartPass, NextPage, RunEtl, SendRow, PageDone, Join, writerVars
  <2>2. ASSUME NEW v \in Writers, thread[v] = "failed" PROVE thread'[v] = "failed"
    <3>1. CASE StartPass
      <4>1. pass' = pass + 1 /\ pass \in Nat
            /\ \A w \in Writers : w[1] # pass' => thread'[w] = thread[w]
        BY <1>1, <3>1, Types DEF StartPass
      <4>2. ~(v[1] > pass)
        BY <1>1, <2>2 DEF Unborn
      <4>3. v[1] # pass'
        BY <1>1, <4>1, <4>2
      <4>4. QED BY <2>2, <4>1, <4>3
    <3>2. CASE ~StartPass
      BY <1>1, <1>4, <2>2, <3>2, JobStepDoes
    <3>3. QED BY <3>1, <3>2
  <2>3. QED BY <1>3, <2>1, <2>2
<1>5. ASSUME NEW w \in Writers, WriterStep(w) PROVE Replaced'
  <2>1. /\ thread[w] # "failed"
        /\ \A v \in Writers : v # w => thread'[v] = thread[v] /\ call'[v] = call[v]
    BY <1>1, <1>5, RunningThreads DEF OthersAlone
  <2>2. CASE Recv(w) \/ Disconnect(w) \/ Drain(w)
    <3>1. UNCHANGED <<truncated, target>> /\ (call[w] = W!NoCall \/ UNCHANGED call)
      BY <1>1, <2>2, RecvDoes, DisconnectDoes, DrainDoes DEF CallOwned
    <3>2. \/ ~W!At(w, "truncate") /\ ~W!At(w, "err")
          \/ UNCHANGED call
      BY <3>1 DEF W!At, W!NoCall
    <3>3. QED BY <1>3, <2>1, <3>1, <3>2
  <2>3. CASE Written(w)
    <3>1. /\ UNCHANGED <<truncated, target>>
          /\ \/ call[w].step = "ok"
             \/ call[w].step = "err" /\ thread' = [thread EXCEPT ![w] = "failed"]
      BY <1>1, <2>3, WrittenDoes
    <3>2. ~W!At(w, "truncate") /\ (W!At(w, "err") => thread'[w] = "failed")
      BY <1>1, <3>1, Types DEF W!At
    <3>3. QED BY <1>3, <2>1, <3>1, <3>2
  <2>4. CASE InWriteBatch(w)
    <3> DEFINE c == call[w]
    <3>1. /\ c.table \in Tables /\ c.rows \in Seq(Rows) /\ c # W!NoCall
          /\ UNCHANGED <<thread, buckets>> /\ call'[w].table = c.table
      BY <1>1, <2>4, InWriteBatchDoes
    <3>2. ToSet(c.rows) \subseteq RowsOf(1)
      BY <1>1, <3>1 DEF CallCarries, OwnRows
    <3> HIDE DEF c
    <3>3. SomeFailed(1) => SomeFailed(1)'
      BY <3>1 DEF SomeFailed
    <3>4. ASSUME NEW t \in Tables, t \in truncated'[1],
                 t \in truncated[1],
                 t = c.table /\ W!At(w, "truncate") =>
                    W!At(w, "truncate")' \/ W!At(w, "err")' \/ ToSet(target'[t]) \subseteq RowsOf(1),
                 ~W!At(w, "err"),
                 ToSet(target[t]) \subseteq RowsOf(1) => ToSet(target'[t]) \subseteq RowsOf(1)
          PROVE  \/ ToSet(target'[t]) \subseteq RowsOf(1)
                 \/ \E v \in Writers : W!At(v, "truncate")' /\ call'[v].table = t
                 \/ \E v \in Writers : W!At(v, "err")'
                 \/ SomeFailed(1)'
      <4>1. CASE ToSet(target[t]) \subseteq RowsOf(1)
        BY <3>4, <4>1
      <4>2. ASSUME NEW v \in Writers, W!At(v, "truncate"), call[v].table = t
            PROVE  \/ ToSet(target'[t]) \subseteq RowsOf(1)
                   \/ \E u \in Writers : W!At(u, "truncate")' /\ call'[u].table = t
                   \/ \E u \in Writers : W!At(u, "err")'
        <5>1. CASE v = w
          BY <3>1, <3>4, <4>2, <5>1 DEF c
        <5>2. CASE v # w
          BY <2>1, <4>2, <5>2 DEF W!At
        <5>3. QED BY <5>1, <5>2
      <4>3. ASSUME NEW v \in Writers, W!At(v, "err") PROVE W!At(v, "err")'
        BY <2>1, <3>4, <4>3 DEF W!At
      <4>4. QED BY <1>1, <3>3, <3>4, <4>1, <4>2, <4>3 DEF Replaced
    <3>5. \A t \in Tables : \/ target'[t] = target[t]
                            \/ t = c.table /\ target'[t] = <<>>
                            \/ t = c.table /\ target'[t] = target[t] \o c.rows
      <4>1. target' \in {target, [target EXCEPT ![c.table] = <<>>],
                                 [target EXCEPT ![c.table] = @ \o c.rows]}
        BY <1>1, <2>4, WriteStepDoes DEF c
      <4>2. target \in [Tables -> Seq(Rows)]
        BY <1>1, Types
      <4>3. QED BY <3>1, <4>1, <4>2
    <3>6. ASSUME NEW t \in Tables, ToSet(target[t]) \subseteq RowsOf(1)
          PROVE  ToSet(target'[t]) \subseteq RowsOf(1)
      <4>1. target[t] \in Seq(Rows)
        BY <1>1, Types
      <4>2. ToSet(target[t] \o c.rows) = ToSet(target[t]) \cup ToSet(c.rows)
        BY <3>1, <4>1, ToSetConcat
      <4>3. QED BY <3>2, <3>5, <3>6, <4>2, ToSetEmpty
    <3>7. ~W!At(w, "err")
      BY <1>1, <2>4, WriteStepDoes DEF W!At
    <3>8. W!At(w, "truncate") => W!At(w, "err")' \/ ToSet(target'[c.table]) \subseteq RowsOf(1)
      <4>1. W!At(w, "truncate") => W!At(w, "err")' \/ target' = [target EXCEPT ![c.table] = <<>>]
        BY <1>1, <2>4, WriteStepDoes DEF W!At, c
      <4>2. QED BY <1>1, <3>1, <4>1, Types, ToSetEmpty
    <3>9. \/ UNCHANGED truncated
          \/ truncated'[1] = truncated[1] \cup {c.table} /\ W!At(w, "truncate")'
      <4>1. \/ UNCHANGED truncated
            \/ truncated' = [truncated EXCEPT ![w[1]] = @ \cup {c.table}] /\ W!At(w, "truncate")'
        BY <1>1, <2>4, WriteStepDoes DEF W!At, c
      <4>2. QED BY <1>1, <4>1, Types
    <3>10. truncated'[1] \subseteq Tables
      BY <1>1, <3>1, <3>9, Types
    <3>11. QED BY <3>1, <3>4, <3>6, <3>7, <3>8, <3>9, <3>10 DEF Replaced
  <2>5. QED BY <1>5, <2>2, <2>3, <2>4 DEF WriterStep
<1>6. QED BY <1>2, <1>4, <1>5 DEF PoolNext

(* In mode full a pass that returned Ok leaves nothing older in the tables *)
(* it wrote, whichever writer truncated them and whichever calls failed.   *)
(* It holds for a job's first pass: a writer that a failed pass has left   *)
(* behind may insert its rows after the truncate of the next one.          *)
THEOREM FullPassesReplace ==
  ASSUME MaxPasses = 1
  PROVE  PoolSpec => []FullReplaces
<1>1. PoolInit => ReplaceInv
  <2> SUFFICES ASSUME PoolInit PROVE ReplaceInv
    OBVIOUS
  <2>1. /\ \A w \in Writers : chan[w] = <<>>
        /\ \A w \in Writers : \A t \in Tables : buckets[w][t] = <<>>
        /\ job.step = "idle" /\ truncated[1] = {}
    BY DEF PoolInit, NoBuckets, Idle, W!WriterInit, Passes
  <2>2. QED BY <2>1, RowsInit, ToSetEmpty DEF ReplaceInv, OwnRows, Replaced
<1>2. ReplaceInv /\ [PoolNext]_poolVars => ReplaceInv'
  <2>1. ReplaceInv /\ [PoolNext]_poolVars => RowsInv'
    BY RowsStep DEF ReplaceInv
  <2>2. QED BY <2>1, OwnRowsStep, ReplacedStep DEF ReplaceInv
<1>3. ReplaceInv => FullReplaces
  <2> SUFFICES ASSUME ReplaceInv, Mode = "full", result[1] = "ok",
                      NEW t \in Tables, NEW row \in RowsOf(1), TableOf(row) = t
               PROVE  ToSet(target[t]) \subseteq RowsOf(1)
    BY DEF FullReplaces
  <2>1. /\ RowsConserved /\ OkMeansQuiet /\ CallOwned /\ Replaced
        /\ 1 \in Passes /\ \A w \in Writers : w[1] = 1
    BY WritersArePairs DEF ReplaceInv, RowsInv, ControlInv, TypeInv, Passes
  <2>2. \A w \in Writers : thread[w] = "done" /\ call[w] = W!NoCall
    BY <2>1 DEF OkMeansQuiet, CallOwned
  <2>3. ~SomeFailed(1) /\ \A w \in Writers : ~W!At(w, "truncate") /\ ~W!At(w, "err")
    BY <2>2 DEF SomeFailed, W!At, W!NoCall
  <2>4. t \in truncated[1]
    BY <2>1 DEF RowsConserved, Through
  <2>5. QED BY <2>1, <2>3, <2>4 DEF Replaced
<1>4. QED BY <1>1, <1>2, <1>3, PTL DEF PoolSpec
=============================================================================
