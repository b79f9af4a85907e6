-------------------------- MODULE JobRunner_proofs --------------------------
(***************************************************************************)
(* Proofs about a job with one writer: its high-water mark, in memory and  *)
(* in the state file, and the rows it stands for.                          *)
(***************************************************************************)
EXTENDS JobRunner, DataFacts

(* The query of the reader returns the rows of the table above the mark,   *)
(* all of them and no others.                                              *)
LEMMA RowsAboveAreAll ==
  ASSUME NEW rows \in Seq(SourceRows), NEW mark \in Nat
  PROVE  /\ RowsAbove(rows, mark) \in Seq(SourceRows)
         /\ ToSet(RowsAbove(rows, mark)) = {r \in ToSet(rows) : r.wm > mark}
<1> DEFINE Step(g, n) ==
      IF n = 0 THEN <<>>
      ELSE IF rows[n].wm > mark THEN Append(g[n - 1], rows[n]) ELSE g[n - 1]
<1> DEFINE Solves(g, m) == g = [n \in 0..m |-> Step(g, n)]
<1>l. Len(rows) \in Nat /\ DOMAIN rows = 1..Len(rows)
      /\ \A i \in 1..Len(rows) : rows[i] \in SourceRows
  BY LenProperties, ElementOfSeq
<1> DEFINE L == Len(rows)
<1>0. /\ 0 \in 0..L /\ L \in 0..L
      /\ \A m \in 0..(L - 1) : m \in Nat /\ m + 1 \in 0..L /\ m + 1 \in 1..L
      /\ \A m \in Nat : m + 1 # 0 /\ m + 1 - 1 = m /\ m \in 0..m /\ m + 1 \in 0..(m + 1)
  BY <1>l
<1>1. \E g : Solves(g, L)
  <2> DEFINE H == {m \in 0..L : \E g : Solves(g, m)}
  <2>1. 0 \in H
    <3>1. Solves([n \in 0..0 |-> <<>>], 0)
      OBVIOUS
    <3> HIDE DEF Solves
    <3>2. QED BY <3>1, <1>0
  <2>2. ASSUME NEW m \in 0..(L - 1), m \in H PROVE m + 1 \in H
    <3>1. PICK g : Solves(g, m)
      BY <2>2
    <3> DEFINE h == [n \in 0..(m + 1) |-> IF n <= m THEN g[n] ELSE Step(g, m + 1)]
    <3>2. \A n \in 0..(m + 1) : h[n] = Step(h, n)
      <4> SUFFICES ASSUME NEW n \in 0..(m + 1) PROVE h[n] = Step(h, n)
        OBVIOUS
      <4>1. n # 0 => h[n - 1] = g[n - 1]
        BY <1>l
      <4>2. CASE n <= m
        <5>0. n \in 0..m
          BY <4>2, <1>0
        <5>1. g[n] = Step(g, n) /\ h[n] = g[n]
          <6> HIDE DEF Step
          <6> QED BY <3>1, <4>2, <5>0
        <5>2. QED BY <5>1, <4>1
      <4>3. CASE n = m + 1
        BY <4>1, <4>3, <1>l
      <4>4. QED BY <4>2, <4>3, <1>l
    <3>3. Solves(h, m + 1)
      <4> HIDE DEF Step
      <4> QED BY <3>2
    <3> HIDE DEF Solves
    <3>4. QED BY <3>3, <1>0
  <2>3. L \in H
    <3> HIDE DEF H
    <3>1. \A n \in 0..L : n \in H
      BY <2>1, <2>2, <1>l, InductionTo
    <3>2. QED BY <3>1, <1>l
  <2>4. QED BY <2>3
<1> DEFINE f == CHOOSE g : Solves(g, L)
<1>2. f = [n \in 0..L |-> Step(f, n)]
  <2>1. Solves(f, L)
    <3> HIDE DEF Solves
    <3> QED BY <1>1
  <2>2. QED BY <2>1
<1>3. RowsAbove(rows, mark) = f[L]
  BY DEF RowsAbove
<1> HIDE DEF f
<1> DEFINE Above(n) == {r \in {rows[i] : i \in 1..n} : r.wm > mark}
<1> DEFINE H == {n \in 0..L : f[n] \in Seq(SourceRows) /\ ToSet(f[n]) = Above(n)}
<1>4. 0 \in H
  BY <1>2, <1>l, ToSetEmpty
<1>5. ASSUME NEW m \in 0..(L - 1), m \in H PROVE m + 1 \in H
  <2>1. f[m + 1] = IF rows[m + 1].wm > mark THEN Append(f[m], rows[m + 1]) ELSE f[m]
    <3>1. f[m + 1] = Step(f, m + 1)
      <4> HIDE DEF Step
      <4> QED BY <1>2, <1>0
    <3>2. QED BY <3>1, <1>0
  <2>2. rows[m + 1] \in SourceRows
    BY <1>l
  <2>3. {rows[i] : i \in 1..(m + 1)} = {rows[i] : i \in 1..m} \cup {rows[m + 1]}
    <3>1. 1..(m + 1) = (1..m) \cup {m + 1}
      BY <1>l
    <3>2. QED BY <3>1
  <2>4. CASE rows[m + 1].wm > mark
    <3>1. ToSet(f[m + 1]) = ToSet(f[m]) \cup {rows[m + 1]} /\ f[m + 1] \in Seq(SourceRows)
      BY <1>5, <2>1, <2>2, <2>4, ToSetAppend, AppendProperties
    <3>2. QED BY <3>1, <1>5, <2>3, <2>4, <1>l
  <2>5. CASE ~(rows[m + 1].wm > mark)
    BY <1>5, <2>1, <2>3, <2>5, <1>l
  <2>6. QED BY <2>4, <2>5
<1>6. L \in H
  <2> HIDE DEF H
  <2>1. \A n \in 0..L : n \in H
    BY <1>4, <1>5, <1>l, InductionTo
  <2>2. QED BY <2>1, <1>l
<1>7. Above(L) = {r \in ToSet(rows) : r.wm > mark}
  BY <1>l DEF ToSet
<1>8. QED BY <1>3, <1>6, <1>7

-----------------------------------------------------------------------------
(* The type of the state.  The bound on a bucket is inductive only with    *)
(* what a full bucket means: it is the one being written.                  *)

BucketsBounded ==
    \A t \in Tables : Len(buckets[t]) >= Threshold =>
        step = "flushing" /\ call["main"].table = t

TypeInv == RunnerTypeOK /\ BucketsBounded

(* What the invariant says of a row that is drawn from the query.          *)
LEMMA QueryTyped ==
  ASSUME RunnerTypeOK
  PROVE  Query \in Seq(SourceRows) /\ ToSet(Query) = {r \in ToSet(source) : r.wm > low}
BY RowsAboveAreAll DEF RunnerTypeOK, Query

(* A page is the next PageSize rows of the query, and is empty only when   *)
(* the offset has passed the last one.                                     *)
LEMMA PageTyped ==
  ASSUME RunnerTypeOK
  PROVE  /\ Page \in Seq(SourceRows)
         /\ ToSet(Page) \subseteq ToSet(Query)
         /\ Page = <<>> => offset >= Len(Query)
         /\ \A k \in 1..Len(Query) :
                offset < k /\ k <= offset + PageSize => Query[k] \in ToSet(Page)
<1> DEFINE L == Len(Query)
           last == Min({offset + PageSize, L})
<1>1. L \in Nat /\ offset \in Nat /\ PageSize \in Nat \ {0} /\ Query \in Seq(SourceRows)
  BY QueryTyped, LenProperties, RunnerAssumption DEF RunnerTypeOK
<1>2. last = IF offset + PageSize <= L THEN offset + PageSize ELSE L
  BY <1>1 DEF Min
<1>3. \A k \in 1..L : Query[k] \in SourceRows /\ Query[k] \in ToSet(Query)
  BY <1>1, LenProperties, ElementOfSeq DEF ToSet
<1> HIDE DEF last
<1>4. CASE offset < L
  <2>1. Page \in Seq(SourceRows) /\ ToSet(Page) = {Query[i] : i \in (offset + 1)..last}
    <3>1. offset + 1 \in 1..(L + 1) /\ last \in 0..L
      BY <1>1, <1>2, <1>4
    <3>2. QED BY <1>1, <3>1, ToSetSubSeq DEF Page, last
  <2>2. offset + 1 \in (offset + 1)..last /\ (offset + 1)..last \subseteq 1..L
    BY <1>1, <1>2, <1>4
  <2>3. ToSet(Page) \subseteq ToSet(Query) /\ ToSet(Page) # {}
    BY <1>3, <2>1, <2>2
  <2>4. Page # <<>>
    BY <2>3, ToSetEmpty
  <2>5. \A k \in 1..L : offset < k /\ k <= offset + PageSize => k \in (offset + 1)..last
    BY <1>1, <1>2
  <2>6. QED BY <2>1, <2>3, <2>4, <2>5
<1>5. CASE offset >= L
  <2>1. offset + 1 \in Int /\ last \in Int /\ last < offset + 1
    BY <1>1, <1>2, <1>5
  <2>2. Page = <<>>
    BY <2>1, SubSeqEmpty DEF Page, last
  <2>3. Page \in Seq(SourceRows) /\ ToSet(Page) = {}
    BY <2>2, ToSetEmpty, EmptySeq
  <2>4. QED BY <1>1, <1>5, <2>3
<1>6. QED BY <1>1, <1>4, <1>5

(* The mark after a page: a value of the page or the mark as it was, and   *)
(* not below either.                                                       *)
LEMMA MarkAfterPage ==
  ASSUME RunnerTypeOK, Page # <<>>
  PROVE  /\ UpdateState(Page) \in 1..MaxClock
         /\ UpdateState(Page) = mem \/ \E r \in ToSet(Page) : UpdateState(Page) = r.wm
         /\ mem # None => UpdateState(Page) >= mem
         /\ \A r \in ToSet(Page) : UpdateState(Page) >= r.wm
<1> DEFINE wms == {r.wm : r \in ToSet(Page)}
<1>1. Page \in Seq(SourceRows) /\ ToSet(Page) \subseteq SourceRows /\ ToSet(Page) # {}
  <2>1. Page \in Seq(SourceRows) /\ ToSet(Page) \subseteq SourceRows
    BY PageTyped, ToSetIn
  <2>2. ToSet(Page) = {Head(Page)} \cup ToSet(Tail(Page))
    BY <2>1, ToSetHeadTail
  <2>3. QED BY <2>1, <2>2
<1>2. wms \subseteq 1..MaxClock /\ wms # {} /\ MaxClock \in Nat
  BY <1>1, RunnerAssumption DEF SourceRows
<1>3. Max(wms) \in wms /\ \A n \in wms : n <= Max(wms)
  <2>1. wms \subseteq 0..MaxClock
    BY <1>2
  <2> HIDE DEF wms
  <2>2. QED BY <1>2, <2>1, LargestNatural
<1>4. mem \in Marks /\ None \notin Nat
  BY RunnerAssumption DEF RunnerTypeOK
<1>5. UpdateState(Page) = IF mem = None \/ Max(wms) > mem THEN Max(wms) ELSE mem
  BY DEF UpdateState
<1>6. Max(wms) \in 1..MaxClock /\ \E r \in ToSet(Page) : Max(wms) = r.wm
  BY <1>2, <1>3
<1>7. \A r \in ToSet(Page) : r.wm \in wms
  OBVIOUS
<1> DEFINE best == Max(wms)
<1>8. /\ best \in 1..MaxClock /\ \A r \in ToSet(Page) : r.wm \in Nat /\ r.wm <= best
      /\ UpdateState(Page) = IF mem = None \/ best > mem THEN best ELSE mem
  <2>1. \A r \in ToSet(Page) : r.wm \in Nat
    BY <1>1 DEF SourceRows
  <2>2. QED BY <1>3, <1>5, <1>6, <1>7, <2>1
<1>9. mem # None => mem \in 1..MaxClock
  BY <1>4 DEF Marks
<1>10. \E r \in ToSet(Page) : best = r.wm
  BY <1>6
<1> HIDE DEF best
<1>11. QED BY <1>2, <1>8, <1>9, <1>10

(* The call into the writer keeps its table and its rows while it runs,    *)
(* and its types.                                                          *)
LEMMA WriteTyped ==
  ASSUME W!WriterTypeOK, W!WriteStep("main")
  PROVE  /\ W!WriterTypeOK'
         /\ call["main"] # W!NoCall /\ call'["main"] # W!NoCall
         /\ call'["main"].table = call["main"].table
         /\ call'["main"].rows = call["main"].rows
<1> DEFINE c == call["main"]
<1>1. /\ c \in W!CallType /\ c.step \in {"mark", "truncate", "insert"} /\ c # W!NoCall
      /\ c.table \in Tables /\ c.rows \in Seq(Rows) /\ c.attempt \in Nat
      /\ call \in [Writers -> W!CallType] /\ "main" \in Writers
  BY DEF W!WriterTypeOK, W!WriteStep, W!Mark, W!Truncate, W!Insert, W!At, W!CallType, W!NoCall, Writers
<1>2. ASSUME NEW s \in {"mark", "truncate", "insert", "ok", "err"},
             call' = [call EXCEPT !["main"].step = s]
      PROVE  call' \in [Writers -> W!CallType] /\ call'["main"] # W!NoCall
             /\ call'["main"].table = c.table /\ call'["main"].rows = c.rows
  BY <1>1, <1>2 DEF W!CallType, W!NoCall
<1>3. ASSUME call' = [call EXCEPT !["main"].attempt = @ + 1]
      PROVE  call' \in [Writers -> W!CallType] /\ call'["main"] # W!NoCall
             /\ call'["main"].table = c.table /\ call'["main"].rows = c.rows
  BY <1>1, <1>3 DEF W!CallType, W!NoCall
<1>4. CASE W!Mark("main")
  BY <1>1, <1>2, <1>4 DEF W!Mark, W!Goto, W!WriterTypeOK, Passes, PassOf, Writers
<1>5. CASE W!Truncate("main")
  <2>1. [target EXCEPT ![c.table] = <<>>] \in [Tables -> Seq(Rows)]
    BY <1>1, EmptySeq DEF W!WriterTypeOK
  <2>2. target' \in [Tables -> Seq(Rows)]
    BY <1>5, <2>1 DEF W!Truncate, W!WriterTypeOK
  <2>3. faults' \in 0..MaxFaults /\ truncated' \in [Passes -> SUBSET Tables]
    BY <1>5, RunnerAssumption DEF W!Truncate, W!Fault, W!WriterTypeOK
  <2>4. PICK s \in {"insert", "err"} : call' = [call EXCEPT !["main"].step = s]
    BY <1>5 DEF W!Truncate, W!Goto
  <2>5. /\ call' \in [Writers -> W!CallType] /\ call'["main"] # W!NoCall
        /\ call'["main"].table = c.table /\ call'["main"].rows = c.rows
    BY <1>2, <2>4
  <2>6. QED BY <1>1, <2>2, <2>3, <2>5 DEF W!WriterTypeOK
<1>6. CASE W!Insert("main")
  <2>1. W!Applied("main") \in [Tables -> Seq(Rows)]
    BY <1>1, ConcatProperties DEF W!WriterTypeOK, W!Applied
  <2>2. target' \in [Tables -> Seq(Rows)]
    BY <1>6, <2>1 DEF W!Insert, W!WriterTypeOK
  <2>3. faults' \in 0..MaxFaults /\ truncated' \in [Passes -> SUBSET Tables]
    BY <1>6, RunnerAssumption DEF W!Insert, W!Fault, W!WriterTypeOK
  <2>4. \/ \E s \in {"ok", "err"} : call' = [call EXCEPT !["main"].step = s]
        \/ call' = [call EXCEPT !["main"].attempt = @ + 1]
    BY <1>6 DEF W!Insert, W!Goto
  <2>5. /\ call' \in [Writers -> W!CallType] /\ call'["main"] # W!NoCall
        /\ call'["main"].table = c.table /\ call'["main"].rows = c.rows
    <3>1. CASE \E s \in {"ok", "err"} : call' = [call EXCEPT !["main"].step = s]
      <4>1. PICK s \in {"ok", "err"} : call' = [call EXCEPT !["main"].step = s]
        BY <3>1
      <4>2. QED BY <1>2, <4>1
    <3>2. QED BY <1>3, <2>4, <3>1
  <2>6. QED BY <1>1, <2>2, <2>3, <2>5 DEF W!WriterTypeOK
<1>7. QED BY <1>4, <1>5, <1>6 DEF W!WriteStep

LEMMA InitTyped ==
  ASSUME RunnerInit
  PROVE  /\ TypeInv /\ call["main"] = W!NoCall
         /\ \A r \in ToSet(source) : r.wm <= clock
<1> DEFINE wms == {0} \cup {r.wm : r \in ToSet(Initial)}
<1>1. ToSet(Initial) \subseteq SourceRows /\ MaxClock \in Nat
  BY RunnerAssumption, ToSetIn
<1>2. wms \subseteq 0..MaxClock /\ wms # {}
  BY <1>1 DEF SourceRows
<1>3. Max(wms) \in wms /\ \A n \in wms : n <= Max(wms)
  <2> HIDE DEF wms
  <2> QED BY <1>1, <1>2, LargestNatural
<1>4. clock \in 0..MaxClock /\ \A r \in ToSet(source) : r.wm <= clock
  <2>1. clock = Max(wms) /\ source = Initial
    BY DEF RunnerInit
  <2>2. \A r \in ToSet(Initial) : r.wm \in wms
    OBVIOUS
  <2> HIDE DEF wms
  <2>3. QED BY <1>2, <1>3, <2>1, <2>2
<1>5. W!WriterTypeOK /\ call["main"] = W!NoCall /\ committed \in [Tables -> Seq(Rows)]
  BY RunnerAssumption, EmptySeq DEF RunnerInit, W!WriterInit, W!WriterTypeOK, W!CallType, Writers
<1>6. buckets = [t \in Tables |-> <<>>] /\ \A t \in Tables : buckets[t] = <<>>
  BY DEF RunnerInit, NoBuckets
<1>7. RunnerTypeOK
  <2>1. buckets \in [Tables -> Seq(Rows)] /\ \A t \in Tables : Len(buckets[t]) <= Threshold
    BY <1>6, RunnerAssumption, EmptySeq
  <2>2. todo \in Seq(Rows) /\ out \in Seq(RoutedRow) /\ mem \in Marks /\ disk \in Marks
    BY EmptySeq DEF RunnerInit, Marks
  <2>3. /\ source \in Seq(SourceRows) /\ low \in 0..MaxClock /\ offset \in Nat
        /\ up \in BOOLEAN /\ erred \in BOOLEAN /\ crashes \in 0..MaxCrashes
        /\ step = "idle"
    <3>1. MaxClock \in Nat /\ MaxCrashes \in Nat /\ Initial \in Seq(SourceRows)
      BY RunnerAssumption
    <3>2. /\ source = Initial /\ low = 0 /\ offset = 0 /\ up = TRUE /\ erred = FALSE
          /\ crashes = 0 /\ step = "idle"
      BY DEF RunnerInit
    <3>3. source \in Seq(SourceRows) /\ up \in BOOLEAN /\ erred \in BOOLEAN
      BY <3>1, <3>2, Zenon
    <3>4. low \in 0..MaxClock /\ crashes \in 0..MaxCrashes /\ offset \in Nat
      BY <3>1, <3>2
    <3>5. QED BY <3>2, <3>3, <3>4
  <2>4. QED BY <1>4, <1>5, <2>1, <2>2, <2>3 DEF RunnerTypeOK
<1>8. BucketsBounded
  BY <1>6, RunnerAssumption, EmptySeq DEF BucketsBounded
<1>9. QED BY <1>4, <1>5, <1>7, <1>8 DEF TypeInv

(* What is left when run_once returns an error. *)
LEMMA ReturnErrTyped ==
  ASSUME ReturnErr
  PROVE  /\ step' = "idle" /\ erred' = TRUE
         /\ todo' = <<>> /\ out' = <<>> /\ \A t \in Tables : buckets'[t] = <<>>
         /\ buckets' = NoBuckets
         /\ todo' \in Seq(Rows) /\ out' \in Seq(RoutedRow)
         /\ buckets' \in [Tables -> Seq(Rows)]
         /\ \A t \in Tables : Len(buckets'[t]) <= Threshold
         /\ BucketsBounded'
<1>1. \A t \in Tables : buckets'[t] = <<>>
  BY DEF ReturnErr, NoBuckets
<1>2. QED
  BY <1>1, RunnerAssumption, EmptySeq DEF ReturnErr, NoBuckets, BucketsBounded

\* A failing call keeps the types of the writer's variables.
LEMMA FaultTyped ==
  ASSUME TypeInv, W!Fault \/ UNCHANGED faults
  PROVE  /\ faults' \in 0..MaxFaults
         /\ UNCHANGED <<truncated, target, call>> => W!WriterTypeOK'
<1>1. W!WriterTypeOK /\ faults \in 0..MaxFaults /\ MaxFaults \in Nat
  BY RunnerAssumption DEF TypeInv, RunnerTypeOK, W!WriterTypeOK
<1>2. faults' \in 0..MaxFaults
  BY <1>1 DEF W!Fault
<1>3. QED BY <1>1, <1>2 DEF W!WriterTypeOK

(* The rows the ETL makes of a source row, and where they go. *)
LEMMA EtlOutputTyped ==
  ASSUME NEW r \in SourceRows
  PROVE  /\ EtlOutput(r) \in Seq(RoutedRow)
         /\ \A i \in DOMAIN EtlTables[r.id] :
               /\ EtlTables[r.id][i] \in Tables
               /\ [table |-> EtlTables[r.id][i], row |-> r] \in ToSet(EtlOutput(r))
<1>1. EtlTables[r.id] \in Seq(Tables)
  BY RunnerAssumption DEF SourceRows
<1>2. /\ DOMAIN EtlTables[r.id] = 1..Len(EtlTables[r.id]) /\ Len(EtlTables[r.id]) \in Nat
      /\ \A i \in DOMAIN EtlTables[r.id] : EtlTables[r.id][i] \in Tables
  BY <1>1, LenProperties, ElementOfSeq
<1>3. EtlOutput(r) \in [1..Len(EtlTables[r.id]) -> RoutedRow]
  BY <1>2 DEF EtlOutput, RoutedRow, Rows
<1>4. EtlOutput(r) \in Seq(RoutedRow)
  BY <1>2, <1>3, FunctionIsSeq
<1>5. \A i \in DOMAIN EtlTables[r.id] :
         [table |-> EtlTables[r.id][i], row |-> r] \in ToSet(EtlOutput(r))
  BY DEF EtlOutput, ToSet
<1>6. QED BY <1>2, <1>4, <1>5

(* The source changes only outside a pass or where it is live, gets no row *)
(* but one of the new clock, and loses none but the one that is updated.   *)
LEMMA SourceStep ==
  ASSUME RunnerTypeOK, SourceInsert \/ SourceUpdate
  PROVE  /\ source' \in Seq(SourceRows) /\ clock' = clock + 1 /\ clock' \in 1..MaxClock
         /\ \A r \in ToSet(source') : r \in ToSet(source) \/ r.wm = clock'
         /\ LiveSource \/ step = "idle"
         /\ UNCHANGED <<truncated, target, committed, call, faults>>
         /\ UNCHANGED <<up, step, mem, disk, low, offset, todo, out, buckets, erred, crashes>>
<1>1. /\ clock' = clock + 1 /\ clock' \in 1..MaxClock
      /\ LiveSource \/ step = "idle"
      /\ UNCHANGED writerVars /\ UNCHANGED processVars
  BY RunnerAssumption DEF SourceInsert, SourceUpdate, Tick, Quiet, RunnerTypeOK
<1>2. source \in Seq(SourceRows)
  BY DEF RunnerTypeOK
<1>3. CASE SourceInsert
  <2>1. PICK id \in Ids : source' = Append(source, [id |-> id, wm |-> clock'])
    BY <1>3 DEF SourceInsert
  <2>2. [id |-> id, wm |-> clock'] \in SourceRows
    BY <1>1 DEF SourceRows
  <2>3. source' \in Seq(SourceRows) /\ ToSet(source') = ToSet(source) \cup {[id |-> id, wm |-> clock']}
    BY <1>2, <2>1, <2>2, ToSetAppend, AppendProperties
  <2>4. QED BY <1>1, <2>3 DEF writerVars, processVars
<1>4. CASE SourceUpdate
  <2>1. PICK i \in DOMAIN source :
           source' \in {ReplaceAt(source, i, [source[i] EXCEPT !.wm = clock']),
                        Append(RemoveAt(source, i), [source[i] EXCEPT !.wm = clock'])}
    BY <1>4 DEF SourceUpdate
  <2> DEFINE new == [source[i] EXCEPT !.wm = clock']
  <2>2. new \in SourceRows /\ new.wm = clock'
    <3>1. source[i] \in SourceRows
      BY <1>2, LenProperties, ElementOfSeq
    <3>2. QED BY <1>1, <3>1 DEF SourceRows
  <2> HIDE DEF new
  <2>3. CASE source' = ReplaceAt(source, i, new)
    <3>1. source' \in Seq(SourceRows) /\ ToSet(source') \subseteq ToSet(source) \cup {new}
      BY <1>2, <2>2, <2>3, ReplaceAtIn
    <3>2. QED BY <1>1, <2>2, <3>1 DEF writerVars, processVars
  <2>4. CASE source' = Append(RemoveAt(source, i), new)
    <3>1. RemoveAt(source, i) \in Seq(SourceRows) /\ ToSet(RemoveAt(source, i)) \subseteq ToSet(source)
      BY <1>2, RemoveAtIn
    <3>2. source' \in Seq(SourceRows) /\ ToSet(source') = ToSet(RemoveAt(source, i)) \cup {new}
      BY <2>2, <2>4, <3>1, ToSetAppend, AppendProperties
    <3>3. QED BY <1>1, <2>2, <3>1, <3>2 DEF writerVars, processVars
  <2>5. QED BY <2>1, <2>3, <2>4 DEF new
<1>5. QED BY <1>3, <1>4

(* Every step keeps the types. *)
LEMMA TypeStep ==
  ASSUME TypeInv, [RunnerNext]_runnerVars
  PROVE  TypeInv'
<1> USE DEF TypeInv
<1>1. CASE SourceInsert \/ SourceUpdate
  <2>1. /\ source' \in Seq(SourceRows) /\ clock' \in 0..MaxClock
        /\ UNCHANGED <<truncated, target, committed, call, faults>>
        /\ UNCHANGED <<up, step, mem, disk, low, offset, todo, out, buckets, erred, crashes>>
    <3>1. clock' \in 1..MaxClock => clock' \in 0..MaxClock
      OBVIOUS
    <3>2. QED BY <1>1, <3>1, SourceStep
  <2>2. QED BY <2>1 DEF RunnerTypeOK, BucketsBounded, W!WriterTypeOK
<1>2. CASE StartPass
  <2>1. truncated' \in [Passes -> SUBSET Tables] /\ faults' \in 0..MaxFaults
    <3>1. truncated \in [Passes -> SUBSET Tables]
      BY DEF RunnerTypeOK, W!WriterTypeOK
    <3>2. truncated' = truncated \/ truncated' = [truncated EXCEPT !["current"] = {}]
      BY <1>2 DEF StartPass
    <3>3. W!Fault \/ UNCHANGED faults
      BY <1>2 DEF StartPass
    <3>4. QED BY <3>1, <3>2, <3>3, FaultTyped DEF Passes
  <2>2. W!WriterTypeOK'
    BY <1>2, <2>1 DEF StartPass, RunnerTypeOK, W!WriterTypeOK
  <2>3. CASE ReturnErr /\ UNCHANGED <<low, offset>>
    BY <1>2, <2>2, <2>3, ReturnErrTyped DEF StartPass, RunnerTypeOK, sourceVars
  <2>4. CASE step' = "reading" /\ low' = LowBound /\ offset' = 0
             /\ UNCHANGED <<todo, out, buckets, erred>>
    <3>1. low' \in 0..MaxClock
      BY <2>4, RunnerAssumption DEF LowBound, RunnerTypeOK, Marks
    <3>2. BucketsBounded'
      BY <1>2, <2>4 DEF StartPass, BucketsBounded
    <3>3. QED BY <1>2, <2>2, <2>4, <3>1, <3>2 DEF StartPass, RunnerTypeOK, sourceVars
  <2>5. QED BY <1>2, <2>3, <2>4 DEF StartPass
<1>3. CASE NextPage
  <2>1. W!WriterTypeOK'
    <3>1. (W!Fault \/ UNCHANGED faults) /\ UNCHANGED <<truncated, target, call>>
      BY <1>3 DEF NextPage, ReadPage
    <3>2. QED BY <3>1, FaultTyped
  <2>2. CASE ReturnErr /\ UNCHANGED <<offset, mem>>
    BY <1>3, <2>1, <2>2, ReturnErrTyped DEF NextPage, RunnerTypeOK, sourceVars
  <2>3. CASE ReadPage(Page = <<>>)
    <3>1. offset' \in Nat
      BY <2>3, RunnerAssumption DEF ReadPage, RunnerTypeOK
    <3>2. mem' \in Marks /\ todo' \in Seq(Rows) /\ step' \in {"draining", "rows"}
      BY <2>3, MarkAfterPage, PageTyped DEF ReadPage, RunnerTypeOK, Marks, Rows
    <3>3. BucketsBounded'
      BY <1>3, <2>3, <3>2 DEF NextPage, ReadPage, BucketsBounded
    <3>4. QED BY <1>3, <2>1, <2>3, <3>1, <3>2, <3>3 DEF NextPage, ReadPage, RunnerTypeOK, sourceVars
  <2>4. QED BY <1>3, <2>2, <2>3 DEF NextPage
<1>4. CASE RunEtl
  <2>1. W!WriterTypeOK'
    <3>1. (W!Fault \/ UNCHANGED faults) /\ UNCHANGED <<truncated, target, call>>
      BY <1>4 DEF RunEtl
    <3>2. QED BY <3>1, FaultTyped
  <2>2. CASE ReturnErr
    BY <1>4, <2>1, <2>2, ReturnErrTyped DEF RunEtl, RunnerTypeOK, sourceVars
  <2>3. CASE todo # <<>> /\ out' = EtlOutput(Head(todo)) /\ todo' = Tail(todo)
             /\ UNCHANGED <<step, buckets, erred>>
    <3>1. todo' \in Seq(Rows) /\ out' \in Seq(RoutedRow)
      BY <2>3, HeadTailProperties, EtlOutputTyped DEF RunnerTypeOK, Rows
    <3>2. QED BY <1>4, <2>1, <2>3, <3>1 DEF RunEtl, RunnerTypeOK, BucketsBounded, sourceVars
  <2>4. CASE step' = "reading" /\ UNCHANGED <<todo, out, buckets, erred>>
    BY <1>4, <2>1, <2>4 DEF RunEtl, RunnerTypeOK, BucketsBounded, sourceVars
  <2>5. QED BY <1>4, <2>2, <2>3, <2>4 DEF RunEtl
<1>5. CASE PushRow
  <2> DEFINE t == Head(out).table
             bucket == Append(buckets[t], Head(out).row)
  <2>1. /\ Head(out) \in RoutedRow /\ Tail(out) \in Seq(RoutedRow)
        /\ t \in Tables /\ Head(out).row \in Rows
    <3>1. Head(out) \in RoutedRow /\ Tail(out) \in Seq(RoutedRow)
      BY <1>5, HeadTailProperties DEF PushRow, Bucket, RunnerTypeOK
    <3>2. QED BY <3>1 DEF RoutedRow
  <2>2. bucket \in Seq(Rows) /\ Len(bucket) = Len(buckets[t]) + 1 /\ bucket # <<>>
    <3>1. buckets[t] \in Seq(Rows)
      BY <2>1 DEF RunnerTypeOK
    <3>2. QED BY <2>1, <3>1, AppendProperties
  <2>3. \A u \in Tables : Len(buckets[u]) \in Nat /\ Len(buckets[u]) < Threshold
    BY <1>5, RunnerAssumption, LenProperties DEF PushRow, Bucket, RunnerTypeOK, BucketsBounded
  <2>4. /\ buckets' = [buckets EXCEPT ![t] = bucket] /\ out' = Tail(out)
        /\ IF Len(bucket) >= Threshold
           THEN step' = "flushing" /\ call' = [call EXCEPT !["main"] = W!NewCall(t, bucket)]
           ELSE UNCHANGED <<step, call>>
    BY <1>5 DEF PushRow, Bucket
  <2> HIDE DEF t, bucket
  <2>5. W!NewCall(t, bucket) \in W!CallType /\ W!NewCall(t, bucket).table = t
    BY <2>1, <2>2 DEF W!NewCall, W!CallType
  <2>6. call' \in [Writers -> W!CallType]
    BY <2>4, <2>5 DEF RunnerTypeOK, W!WriterTypeOK
  <2>7. /\ buckets' \in [Tables -> Seq(Rows)] /\ buckets'[t] = bucket
        /\ \A u \in Tables \ {t} : buckets'[u] = buckets[u]
    BY <2>1, <2>2, <2>4 DEF RunnerTypeOK
  <2>8. /\ \A u \in Tables \ {t} : Len(buckets'[u]) < Threshold
        /\ Len(buckets'[t]) <= Threshold
    BY <2>1, <2>2, <2>3, <2>7, RunnerAssumption
  <2>9. BucketsBounded'
    <3>1. CASE Len(bucket) >= Threshold
      <4>1. step' = "flushing" /\ call'["main"].table = t
        BY <2>4, <2>5, <3>1 DEF RunnerTypeOK, W!WriterTypeOK, Writers
      <4>2. QED BY <2>3, <2>7, <2>8, <4>1, RunnerAssumption DEF BucketsBounded
    <3>2. CASE ~(Len(bucket) >= Threshold)
      BY <2>3, <2>7, <2>8, <3>2, RunnerAssumption DEF BucketsBounded
    <3>3. QED BY <3>1, <3>2
  <2>10. W!WriterTypeOK'
    BY <1>5, <2>6 DEF PushRow, Bucket, RunnerTypeOK, W!WriterTypeOK
  <2>11. step' \in {"flushing", "rows"} /\ out' \in Seq(RoutedRow)
    BY <1>5, <2>1, <2>4 DEF PushRow, Bucket
  <2>12. \A u \in Tables : Len(buckets'[u]) <= Threshold
    BY <2>3, <2>7, <2>8, RunnerAssumption
  <2>13. UNCHANGED <<committed, source, clock, up, mem, disk, low, offset, todo, erred, crashes>>
    BY <1>5 DEF PushRow, Bucket, sourceVars
  <2>14. QED BY <2>7, <2>9, <2>10, <2>11, <2>12, <2>13 DEF RunnerTypeOK
<1>6. CASE Drain
  <2>1. call' \in [Writers -> W!CallType]
    <3>1. ASSUME NEW t \in Tables PROVE W!NewCall(t, buckets[t]) \in W!CallType
      BY DEF W!NewCall, W!CallType, RunnerTypeOK
    <3>2. QED BY <1>6, <3>1 DEF Drain, RunnerTypeOK, W!WriterTypeOK
  <2>2. step # "flushing" /\ step' \in {"draining", "write_tmp"}
    BY <1>6 DEF Drain
  <2>3. BucketsBounded'
    BY <1>6, <2>2 DEF Drain, BucketsBounded
  <2>4. W!WriterTypeOK'
    BY <1>6, <2>1 DEF Drain, RunnerTypeOK, W!WriterTypeOK
  <2>5. QED BY <1>6, <2>2, <2>3, <2>4 DEF Drain, RunnerTypeOK, sourceVars
<1>7. CASE InWriteBatch
  <2>1. W!WriterTypeOK' /\ call'["main"].table = call["main"].table
    BY <1>7, WriteTyped DEF InWriteBatch, RunnerTypeOK
  <2>2. committed' \in [Tables -> Seq(Rows)]
    BY <1>7, <2>1 DEF InWriteBatch, Commit, RunnerTypeOK, W!WriterTypeOK
  <2>3. QED
    BY <1>7, <2>1, <2>2 DEF InWriteBatch, RunnerTypeOK, BucketsBounded, sourceVars, processVars
<1>8. CASE Written
  <2> DEFINE c == call["main"]
  <2>1. W!WriterTypeOK'
    BY <1>8 DEF Written, RunnerTypeOK, W!WriterTypeOK, W!CallType
  <2>2. CASE c.step = "err" /\ ReturnErr
    BY <1>8, <2>1, <2>2, ReturnErrTyped DEF Written, RunnerTypeOK, sourceVars
  <2>3. CASE /\ c.step = "ok" /\ buckets' = [buckets EXCEPT ![c.table] = <<>>]
             /\ step' = IF step = "flushing" THEN "rows" ELSE step
             /\ UNCHANGED <<todo, out, erred>>
    <3>1. c.table \in Tables
      BY <2>3 DEF RunnerTypeOK, W!WriterTypeOK, W!CallType, W!NoCall, Writers
    <3>2. \A t \in Tables : buckets'[t] = IF t = c.table THEN <<>> ELSE buckets[t]
      BY <2>3, <3>1 DEF RunnerTypeOK
    <3>3. buckets' \in [Tables -> Seq(Rows)]
      BY <2>3, <3>1, EmptySeq DEF RunnerTypeOK
    <3>4. \A t \in Tables : Len(buckets'[t]) < Threshold
      <4> SUFFICES ASSUME NEW t \in Tables PROVE Len(buckets'[t]) < Threshold
        OBVIOUS
      <4>1. CASE t = c.table
        BY <3>2, <4>1, EmptySeq, RunnerAssumption
      <4>2. CASE t # c.table
        <5>1. ~(Len(buckets[t]) >= Threshold) /\ Len(buckets[t]) \in Nat
          BY <4>2, LenProperties DEF RunnerTypeOK, BucketsBounded
        <5>2. QED BY <3>2, <4>2, <5>1, RunnerAssumption
      <4>3. QED BY <4>1, <4>2
    <3>5. \A t \in Tables : Len(buckets'[t]) \in Nat
      BY <3>3, LenProperties
    <3>6. BucketsBounded' /\ \A t \in Tables : Len(buckets'[t]) <= Threshold
      BY <3>4, <3>5, RunnerAssumption DEF BucketsBounded
    <3>7. QED BY <1>8, <2>1, <2>3, <3>3, <3>6 DEF Written, RunnerTypeOK, sourceVars
  <2>4. QED BY <1>8, <2>2, <2>3 DEF Written
<1>9. CASE SaveTmp
  <2>1. W!WriterTypeOK'
    <3>1. (W!Fault \/ UNCHANGED faults) /\ UNCHANGED <<truncated, target, call>>
      BY <1>9 DEF SaveTmp
    <3>2. QED BY <3>1, FaultTyped
  <2>2. CASE ReturnErr
    BY <1>9, <2>1, <2>2, ReturnErrTyped DEF SaveTmp, RunnerTypeOK, sourceVars
  <2>3. CASE step' = "rename" /\ UNCHANGED <<faults, todo, out, buckets, erred>>
    BY <1>9, <2>1, <2>3 DEF SaveTmp, RunnerTypeOK, BucketsBounded, sourceVars
  <2>4. QED BY <1>9, <2>2, <2>3 DEF SaveTmp
<1>10. CASE SaveRename
  <2>1. W!WriterTypeOK'
    <3>1. (W!Fault \/ UNCHANGED faults) /\ UNCHANGED <<truncated, target, call>>
      BY <1>10 DEF SaveRename
    <3>2. QED BY <3>1, FaultTyped
  <2>2. CASE ReturnErr /\ UNCHANGED disk
    BY <1>10, <2>1, <2>2, ReturnErrTyped DEF SaveRename, RunnerTypeOK, sourceVars
  <2>3. CASE step' = "idle" /\ disk' = mem /\ UNCHANGED <<faults, todo, out, buckets, erred>>
    BY <1>10, <2>1, <2>3 DEF SaveRename, RunnerTypeOK, BucketsBounded, sourceVars
  <2>4. QED BY <1>10, <2>2, <2>3 DEF SaveRename
<1>11. CASE Crash
  <2>1. W!WriterTypeOK'
    BY <1>11 DEF Crash, RunnerTypeOK, W!WriterTypeOK, W!CallType
  <2>2. /\ buckets' \in [Tables -> Seq(Rows)] /\ \A t \in Tables : buckets'[t] = <<>>
        /\ todo' \in Seq(Rows) /\ out' \in Seq(RoutedRow)
    BY <1>11, EmptySeq DEF Crash, NoBuckets
  <2>3. BucketsBounded' /\ \A t \in Tables : Len(buckets'[t]) <= Threshold
    BY <2>2, EmptySeq, RunnerAssumption DEF BucketsBounded
  <2>4. crashes' \in 0..MaxCrashes /\ mem' \in Marks /\ low' \in 0..MaxClock
    BY <1>11, RunnerAssumption DEF Crash, RunnerTypeOK, Marks
  <2>5. QED BY <1>11, <2>1, <2>2, <2>3, <2>4 DEF Crash, RunnerTypeOK, sourceVars
<1>12. CASE Restart
  <2>1. W!WriterTypeOK'
    BY <1>12 DEF Restart, RunnerTypeOK, W!WriterTypeOK, writerVars
  <2>2. QED BY <1>12, <2>1 DEF Restart, RunnerTypeOK, BucketsBounded, writerVars, sourceVars
<1>13. CASE UNCHANGED runnerVars
  <2>1. W!WriterTypeOK'
    BY <1>13 DEF runnerVars, RunnerTypeOK, W!WriterTypeOK
  <2>2. QED BY <1>13, <2>1 DEF runnerVars, RunnerTypeOK, BucketsBounded
<1>14. QED
  BY <1>1, <1>2, <1>3, <1>4, <1>5, <1>6, <1>7, <1>8, <1>9, <1>10, <1>11, <1>12, <1>13
     DEF RunnerNext, RunnerStep

(* The state of a job has its type, and a bucket never holds more rows     *)
(* than flush_threshold, for any source, ETL, page size and threshold.     *)
THEOREM RunnerTypeCorrect == RunnerSpec => []RunnerTypeOK
<1>1. RunnerInit => TypeInv
  BY InitTyped
<1>2. TypeInv /\ [RunnerNext]_runnerVars => TypeInv'
  BY TypeStep
<1>3. TypeInv => RunnerTypeOK
  BY DEF TypeInv
<1>4. QED BY <1>1, <1>2, <1>3, PTL DEF RunnerSpec

-----------------------------------------------------------------------------
(* The mark.  It is inductive with what bounds it: no row of the source,   *)
(* and so no mark, is above the clock.                                     *)

MarksBounded ==
    /\ \A r \in ToSet(source) : r.wm <= clock
    /\ mem # None => mem <= clock
    /\ disk # None => disk <= clock

MarkInv == TypeInv /\ MarkInMemory /\ MarksBounded

(* The only steps that change a mark: a page, a save, a crash and a        *)
(* restart.  Every other leaves both marks and erred alone or raises erred.*)
LEMMA MarksAlone ==
  ASSUME [RunnerNext]_runnerVars
  PROVE  \/ UNCHANGED <<up, mem, disk>> /\ UNCHANGED step /\ UNCHANGED erred
         \/ UNCHANGED <<up, mem, disk>> /\ UNCHANGED erred /\ (step' # "idle")
         \/ UNCHANGED <<up, mem, disk>> /\ erred' = TRUE
         \/ NextPage /\ Page # <<>> /\ mem' = UpdateState(Page) /\ step' = "rows" /\ UNCHANGED <<up, disk, erred>>
         \/ SaveRename /\ disk' = mem /\ UNCHANGED <<up, mem, erred>>
         \/ Crash \/ Restart
<1>1. CASE SourceInsert \/ SourceUpdate
  BY <1>1 DEF SourceInsert, SourceUpdate, processVars
<1>2. CASE StartPass
  BY <1>2 DEF StartPass, ReturnErr
<1>3. CASE NextPage
  BY <1>3 DEF NextPage, ReadPage, ReturnErr
<1>4. CASE RunEtl
  BY <1>4 DEF RunEtl, ReturnErr
<1>5. CASE PushRow
  <2>1. step' = "flushing" \/ UNCHANGED step
    BY <1>5 DEF PushRow, Bucket
  <2>2. QED BY <1>5, <2>1 DEF PushRow, Bucket
<1>6. CASE Drain
  BY <1>6 DEF Drain
<1>7. CASE InWriteBatch
  BY <1>7 DEF InWriteBatch, processVars
<1>8. CASE Written
  BY <1>8 DEF Written, ReturnErr
<1>9. CASE SaveTmp
  BY <1>9 DEF SaveTmp, ReturnErr
<1>10. CASE SaveRename
  BY <1>10 DEF SaveRename, ReturnErr
<1>11. CASE UNCHANGED runnerVars
  BY <1>11 DEF runnerVars
<1>12. QED
  BY <1>1, <1>2, <1>3, <1>4, <1>5, <1>6, <1>7, <1>8, <1>9, <1>10, <1>11 DEF RunnerNext, RunnerStep

LEMMA MarkTypes ==
  ASSUME RunnerTypeOK
  PROVE  /\ mem # None => mem \in 1..MaxClock
         /\ disk # None => disk \in 1..MaxClock
         /\ None \notin Nat /\ MaxClock \in Nat /\ clock \in Nat
BY RunnerAssumption DEF RunnerTypeOK, Marks

(* The mark in memory does not fall when a page is read. *)
LEMMA MarkInMemoryStep ==
  ASSUME MarkInv, [RunnerNext]_runnerVars
  PROVE  MarkInMemory'
<1>1. TypeInv /\ RunnerTypeOK /\ MarkInMemory
  BY DEF MarkInv, TypeInv
<1>2. CASE UNCHANGED <<up, mem, disk>> /\ UNCHANGED step /\ UNCHANGED erred
  BY <1>1, <1>2 DEF MarkInMemory
<1>3. CASE UNCHANGED <<up, mem, disk>> /\ UNCHANGED erred /\ (step' # "idle")
  BY <1>1, <1>3 DEF MarkInMemory
<1>4. CASE UNCHANGED <<up, mem, disk>> /\ erred' = TRUE
  BY <1>1, <1>4 DEF MarkInMemory
<1>5. CASE NextPage /\ Page # <<>> /\ mem' = UpdateState(Page) /\ step' = "rows" /\ UNCHANGED <<up, disk, erred>>
  <2>1. mem' \in 1..MaxClock /\ (mem # None => mem' >= mem)
    BY <1>1, <1>5, MarkAfterPage
  <2>2. mem' # None
    BY <1>1, <2>1, MarkTypes
  <2>3. ASSUME up, disk # None PROVE mem' >= disk
    <3>1. mem # None /\ mem >= disk
      BY <1>1, <2>3 DEF MarkInMemory
    <3>2. QED BY <1>1, <2>1, <2>3, <3>1, MarkTypes
  <2>4. QED BY <1>5, <2>2, <2>3 DEF MarkInMemory
<1>6. CASE SaveRename /\ disk' = mem /\ UNCHANGED <<up, mem, erred>>
  <2>1. mem # None => mem >= mem
    BY <1>1, MarkTypes
  <2>2. QED BY <1>6, <2>1 DEF MarkInMemory
<1>7. CASE Crash
  BY <1>7 DEF Crash, MarkInMemory
<1>8. CASE Restart
  <2>1. mem' = disk' /\ disk' = disk
    BY <1>8 DEF Restart
  <2>2. disk # None => disk >= disk
    BY <1>1, MarkTypes
  <2>3. QED BY <2>1, <2>2 DEF MarkInMemory
<1>9. QED
  BY <1>2, <1>3, <1>4, <1>5, <1>6, <1>7, <1>8, MarksAlone

LEMMA MarksBoundedStep ==
  ASSUME MarkInv, [RunnerNext]_runnerVars
  PROVE  MarksBounded'
<1>1. TypeInv /\ RunnerTypeOK /\ MarksBounded
  BY DEF MarkInv, TypeInv
<1>2. CASE SourceInsert \/ SourceUpdate
  <2>1. /\ clock' = clock + 1 /\ UNCHANGED <<mem, disk>>
        /\ \A r \in ToSet(source') : r \in ToSet(source) \/ r.wm = clock'
    BY <1>1, <1>2, SourceStep
  <2>2. ASSUME NEW r \in ToSet(source') PROVE r.wm <= clock'
    <3>1. r \in ToSet(source) => r.wm \in Nat
      <4>1. ToSet(source) \subseteq SourceRows
        BY <1>1, ToSetIn DEF RunnerTypeOK
      <4>2. QED BY <4>1 DEF SourceRows
    <3>2. QED BY <1>1, <2>1, <3>1, MarkTypes DEF MarksBounded
  <2>3. QED BY <1>1, <2>1, <2>2, MarkTypes DEF MarksBounded
<1>3. CASE ~(SourceInsert \/ SourceUpdate)
  <2>1. UNCHANGED <<source, clock>>
    BY <1>3 DEF RunnerNext, RunnerStep, StartPass, NextPage, RunEtl, PushRow, Bucket, Drain,
                InWriteBatch, Written, SaveTmp, SaveRename, Crash, Restart, sourceVars, runnerVars
  <2>2. CASE NextPage /\ Page # <<>> /\ mem' = UpdateState(Page) /\ step' = "rows" /\ UNCHANGED <<up, disk, erred>>
    <3>1. mem' = mem \/ \E r \in ToSet(Page) : mem' = r.wm
      BY <1>1, <2>2, MarkAfterPage
    <3>2. ToSet(Page) \subseteq ToSet(source)
      BY <1>1, PageTyped, QueryTyped
    <3>3. QED BY <1>1, <2>1, <2>2, <3>1, <3>2 DEF MarksBounded
  <2>3. CASE UNCHANGED <<mem, disk>>
    BY <1>1, <2>1, <2>3 DEF MarksBounded
  <2>4. CASE SaveRename /\ disk' = mem /\ UNCHANGED mem
    BY <1>1, <2>1, <2>4 DEF MarksBounded
  <2>5. CASE Crash \/ Restart
    BY <1>1, <2>1, <2>5 DEF Crash, Restart, MarksBounded
  <2>6. QED BY <2>2, <2>3, <2>4, <2>5, MarksAlone
<1>4. QED BY <1>2, <1>3

LEMMA MarkInvHolds == RunnerSpec => []MarkInv
<1>1. RunnerInit => MarkInv
  <2> SUFFICES ASSUME RunnerInit PROVE MarkInv
    OBVIOUS
  <2>1. mem = None /\ disk = None
    BY DEF RunnerInit
  <2>2. QED BY <2>1, InitTyped DEF MarkInv, MarkInMemory, MarksBounded
<1>2. MarkInv /\ [RunnerNext]_runnerVars => MarkInv'
  BY TypeStep, MarkInMemoryStep, MarksBoundedStep DEF MarkInv
<1>3. QED BY <1>1, <1>2, PTL DEF RunnerSpec

(* While the process runs, its mark is not behind the state file, and is   *)
(* above it only in a pass or after a pass that failed.                    *)
THEOREM MarkNotBehindFile == RunnerSpec => []MarkInMemory
<1>1. MarkInv => MarkInMemory
  BY DEF MarkInv
<1>2. QED BY <1>1, MarkInvHolds, PTL

(* No pass, failure, crash or restart moves the mark of the state file     *)
(* down, nor the mark of a running process.                                *)
THEOREM MarksOnlyGrow == RunnerSpec => MarkNeverFalls
<1> DEFINE Grow == /\ disk # None => disk' # None /\ disk' >= disk
                   /\ up /\ up' /\ mem # None => mem' # None /\ mem' >= mem
<1>1. MarkInv /\ [RunnerNext]_runnerVars => Grow
  <2> SUFFICES ASSUME MarkInv, [RunnerNext]_runnerVars PROVE Grow
    OBVIOUS
  <2>1. RunnerTypeOK /\ MarkInMemory
    BY DEF MarkInv, TypeInv
  <2>2. /\ mem # None => mem >= mem
        /\ disk # None => disk >= disk
    BY <2>1, MarkTypes
  <2>3. CASE UNCHANGED <<mem, disk>>
    BY <2>2, <2>3
  <2>4. CASE NextPage /\ Page # <<>> /\ mem' = UpdateState(Page) /\ UNCHANGED disk
    <3>1. mem' \in 1..MaxClock /\ (mem # None => mem' >= mem)
      BY <2>1, <2>4, MarkAfterPage
    <3>2. mem' # None
      BY <2>1, <3>1, MarkTypes
    <3>3. QED BY <2>2, <2>4, <3>1, <3>2
  <2>5. CASE SaveRename /\ disk' = mem /\ UNCHANGED mem
    <3>1. up
      BY <2>5 DEF SaveRename
    <3>2. disk # None => mem # None /\ mem >= disk
      BY <2>1, <3>1 DEF MarkInMemory
    <3>3. QED BY <2>2, <2>5, <3>2
  <2>6. CASE Crash \/ Restart
    <3>1. UNCHANGED disk /\ ~(up /\ up')
      BY <2>6 DEF Crash, Restart
    <3>2. QED BY <2>2, <3>1
  <2>7. QED BY <2>3, <2>4, <2>5, <2>6, MarksAlone
<1>2. QED BY <1>1, MarkInvHolds, PTL DEF RunnerSpec, MarkNeverFalls

-----------------------------------------------------------------------------
(* The rows.  A pass is in order when every row of its query up to the     *)
(* offset is still in hand or has reached each of its tables.              *)

\* An output row that is in its table, or on its way there.
Placed(t, r) ==
    \/ r \in ToSet(target[t])
    \/ [table |-> t, row |-> r] \in ToSet(out)
    \/ r \in ToSet(buckets[t])

Accounted(r) ==
    \/ r \in ToSet(todo)
    \/ \A i \in DOMAIN EtlTables[r.id] : Placed(EtlTables[r.id][i], r)

PassAccounts ==
    step # "idle" => \A k \in 1..Len(Query) : k <= offset => Accounted(Query[k])

\* What a pass still holds, step by step.
HandsEmpty ==
    /\ step \in {"idle", "reading", "draining", "write_tmp", "rename"} => todo = <<>> /\ out = <<>>
    /\ step \in {"idle", "write_tmp", "rename"} => buckets = NoBuckets
    /\ step \in {"draining", "write_tmp", "rename"} => offset >= Len(Query)

\* The call into the writer carries the bucket of its table.
CallInPlace ==
    /\ call["main"] # W!NoCall => /\ step \in {"flushing", "draining"}
                                  /\ call["main"].rows = buckets[call["main"].table]
    /\ ~W!At("main", "truncate")
    /\ W!At("main", "ok") =>
          ToSet(call["main"].rows) \subseteq ToSet(target[call["main"].table])

\* The query of a pass starts from the mark of the file.
LowIsFile == step # "idle" /\ ~erred => low = IF disk = None THEN 0 ELSE disk

PassInv ==
    /\ PassAccounts /\ HandsEmpty /\ CallInPlace /\ LowIsFile
    /\ ~up => step = "idle"
    /\ committed = target

(* Without mode full a write only adds to its table, and has added its     *)
(* rows when it returns Ok.                                                *)
LEMMA WriteGrows ==
  ASSUME RunnerTypeOK, Mode # "full", W!WriteStep("main"), ~W!At("main", "truncate")
  PROVE  /\ \A t \in Tables : ToSet(target[t]) \subseteq ToSet(target'[t])
         /\ ~W!At("main", "truncate")'
         /\ W!At("main", "ok")' =>
               ToSet(call'["main"].rows) \subseteq ToSet(target'[call'["main"].table])
<1> DEFINE c == call["main"]
<1>1. /\ c \in W!CallType /\ c # W!NoCall /\ call \in [Writers -> W!CallType]
      /\ "main" \in Writers /\ target \in [Tables -> Seq(Rows)]
      /\ call'["main"].table = c.table /\ call'["main"].rows = c.rows
  BY WriteTyped DEF RunnerTypeOK, W!WriterTypeOK, Writers
<1>2. c.table \in Tables /\ c.rows \in Seq(Rows)
  BY <1>1 DEF W!CallType, W!NoCall
<1>3. CASE W!Mark("main")
  <2>1. UNCHANGED target /\ call'["main"].step = "insert"
    BY <1>1, <1>3 DEF W!Mark, W!Goto, W!CallType, W!NoCall
  <2>2. QED BY <2>1 DEF W!At
<1>4. CASE W!Insert("main")
  <2>1. target[c.table] \in Seq(Rows)
    BY <1>1, <1>2
  <2>2. ToSet(target[c.table] \o c.rows) = ToSet(target[c.table]) \cup ToSet(c.rows)
    BY <1>2, <2>1, ToSetConcat
  <2>3. \A t \in Tables : W!Applied("main")[t] =
           IF t = c.table THEN target[c.table] \o c.rows ELSE target[t]
    BY <1>1, <1>2 DEF W!Applied
  <2>4. /\ target' = target \/ target' = W!Applied("main")
        /\ \/ target' = W!Applied("main") /\ call'["main"].step = "ok"
           \/ call'["main"].step \in {"err", "insert"}
    BY <1>1, <1>4 DEF W!Insert, W!Goto, W!At, W!CallType, W!NoCall
  <2>5. \A t \in Tables : ToSet(target[t]) \subseteq ToSet(target'[t])
    BY <2>2, <2>3, <2>4
  <2>6. QED BY <1>1, <1>2, <2>2, <2>3, <2>4, <2>5 DEF W!At
<1>5. QED BY <1>3, <1>4 DEF W!WriteStep, W!Truncate

(* A row in hand stays in hand until it is in its tables. *)
LEMMA AccountsKept ==
  ASSUME RunnerTypeOK, PassAccounts, step # "idle",
         UNCHANGED <<source, low, offset>>,
         \A r \in SourceRows : Accounted(r) => Accounted(r)'
  PROVE  PassAccounts'
<1>1. Query' = Query
  BY DEF Query
<1>2. \A k \in 1..Len(Query) : Query[k] \in SourceRows
  BY QueryTyped, ElementOfSeq
<1>3. \A k \in 1..Len(Query) : k <= offset => \E r \in SourceRows : r = Query[k] /\ Accounted(r)'
  BY <1>2 DEF PassAccounts
<1>4. \A k \in 1..Len(Query) : k <= offset => Accounted(Query[k])'
  BY <1>1, <1>3 DEF Accounted, Placed
<1>5. QED BY <1>1, <1>4 DEF PassAccounts

(* Placed and Accounted survive when nothing they look at shrinks. *)
LEMMA AccountedKept ==
  ASSUME RunnerTypeOK, NEW r \in SourceRows, Accounted(r),
         r \in ToSet(todo) => Accounted(r)',
         \A t \in Tables : Placed(t, r) => Placed(t, r)'
  PROVE  Accounted(r)'
<1>1. \A i \in DOMAIN EtlTables[r.id] : EtlTables[r.id][i] \in Tables
  BY EtlOutputTyped
<1>2. QED BY <1>1 DEF Accounted



(* A pass that returns has nothing in hand. *)
LEMMA ReturnErrInOrder ==
  ASSUME ReturnErr, call'["main"] = W!NoCall, committed' = target'
  PROVE  PassInv'
<1>1. /\ step' = "idle" /\ todo' = <<>> /\ out' = <<>> /\ buckets' = NoBuckets
  BY DEF ReturnErr
<1>2. CallInPlace'
  BY DEF CallInPlace, W!At, W!NoCall
<1>3. QED BY <1>1, <1>2 DEF PassInv, PassAccounts, HandsEmpty, LowIsFile, NoBuckets

(* Each step of a pass keeps it in order. *)
LEMMA PassStep ==
  ASSUME Mode # "full", AutoCommit = TRUE, LiveSource = FALSE,
         MarkInv, PassInv, [RunnerNext]_runnerVars
  PROVE  PassInv'
<1> USE DEF PassInv
<1>0. /\ RunnerTypeOK /\ MarkInMemory /\ TypeInv'
      /\ call \in [Writers -> W!CallType] /\ "main" \in Writers
      /\ ~up => step = "idle"
  BY TypeStep DEF MarkInv, TypeInv, RunnerTypeOK, W!WriterTypeOK, Writers
<1>1. CASE SourceInsert \/ SourceUpdate
  <2>1. /\ step = "idle" /\ UNCHANGED <<target, committed, call>>
        /\ UNCHANGED <<up, step, todo, out, buckets>>
    BY <1>0, <1>1, SourceStep
  <2>2. QED
    BY <2>1 DEF PassAccounts, HandsEmpty, CallInPlace, LowIsFile, NoBuckets, W!At, W!NoCall
<1>2. CASE StartPass
  <2>1. up /\ step = "idle" /\ UNCHANGED <<target, committed, call, up, mem, disk>>
    BY <1>2 DEF StartPass
  <2>2. call["main"] = W!NoCall
    BY <2>1 DEF CallInPlace
  <2>3. CASE ReturnErr
    BY <2>1, <2>2, <2>3, ReturnErrInOrder
  <2>4. CASE step' = "reading" /\ low' = LowBound /\ offset' = 0
             /\ UNCHANGED <<todo, out, buckets, erred>>
    <3>1. PassAccounts'
      BY <2>4 DEF PassAccounts
    <3>2. HandsEmpty'
      BY <2>1, <2>4 DEF HandsEmpty
    <3>3. CallInPlace'
      BY <2>1, <2>2 DEF CallInPlace, W!At, W!NoCall
    <3>4. LowIsFile'
      <4>1. ~erred => mem = disk
        BY <1>0, <2>1 DEF MarkInMemory
      <4>2. QED BY <2>1, <2>4, <4>1 DEF LowIsFile, LowBound
    <3>5. QED BY <2>1, <3>1, <3>2, <3>3, <3>4
  <2>5. QED BY <1>2, <2>3, <2>4 DEF StartPass
<1>3. CASE NextPage
  <2>1. /\ up /\ step = "reading" /\ UNCHANGED <<target, committed, call, up, disk, low, source>>
    BY <1>3 DEF NextPage, sourceVars
  <2>2. call["main"] = W!NoCall /\ todo = <<>> /\ out = <<>>
    BY <2>1 DEF CallInPlace, HandsEmpty
  <2>3. CASE ReturnErr
    BY <2>1, <2>2, <2>3, ReturnErrInOrder
  <2>4. CASE ReadPage(Page = <<>>)
    <3>1. /\ offset' = offset + PageSize /\ UNCHANGED <<out, buckets, erred>>
          /\ \/ Page = <<>> /\ step' = "draining" /\ todo' = <<>>
             \/ Page # <<>> /\ step' = "rows" /\ todo' = Page
      BY <2>2, <2>4 DEF ReadPage
    <3>2. Query' = Query /\ offset \in Nat /\ PageSize \in Nat
      BY <1>0, <2>1, RunnerAssumption DEF Query, RunnerTypeOK
    <3>3. \A k \in 1..Len(Query) : k <= offset' =>
             \E r \in SourceRows : r = Query[k] /\ Accounted(r)'
      <4> SUFFICES ASSUME NEW k \in 1..Len(Query), k <= offset'
                   PROVE  \E r \in SourceRows : r = Query[k] /\ Accounted(r)'
        OBVIOUS
      <4>1. Query[k] \in SourceRows
        BY <1>0, QueryTyped, ElementOfSeq
      <4>2. CASE k <= offset
        <5>1. Accounted(Query[k]) /\ Query[k] \notin ToSet(todo)
          BY <2>1, <2>2, <4>2, ToSetEmpty DEF PassAccounts
        <5>2. \A i \in DOMAIN EtlTables[Query[k].id] : Placed(EtlTables[Query[k].id][i], Query[k])
          BY <5>1 DEF Accounted
        <5>3. PICK r \in SourceRows : r = Query[k]
          BY <4>1
        <5>4. Accounted(r)'
          BY <2>1, <3>1, <5>2, <5>3 DEF Accounted, Placed
        <5>5. QED BY <5>3, <5>4
      <4>3. CASE ~(k <= offset)
        <5>1. Query[k] \in ToSet(Page)
          BY <1>0, <3>1, <3>2, <4>3, PageTyped
        <5>2. Page # <<>>
          BY <5>1, ToSetEmpty
        <5>3. Query[k] \in ToSet(todo')
          BY <3>1, <5>1, <5>2
        <5>4. QED BY <4>1, <5>3 DEF Accounted
      <4>4. QED BY <4>2, <4>3
    <3>4. PassAccounts'
      <4>1. \A k \in 1..Len(Query) : k <= offset' => Accounted(Query[k])'
        BY <3>2, <3>3 DEF Accounted, Placed
      <4>2. QED BY <3>2, <4>1 DEF PassAccounts
    <3>5. HandsEmpty'
      <4>1. Page = <<>> => offset' >= Len(Query)
        <5>1. Page = <<>> => offset >= Len(Query)
          BY <1>0, PageTyped
        <5>2. Len(Query) \in Nat
          BY <1>0, QueryTyped, LenProperties
        <5>3. QED BY <3>1, <3>2, <5>1, <5>2
      <4>2. QED BY <2>2, <3>1, <3>2, <4>1 DEF HandsEmpty
    <3>6. CallInPlace'
      BY <2>1, <2>2 DEF CallInPlace, W!At, W!NoCall
    <3>7. LowIsFile'
      BY <2>1, <3>1 DEF LowIsFile
    <3>8. QED BY <2>1, <3>4, <3>5, <3>6, <3>7
  <2>5. QED BY <1>3, <2>3, <2>4 DEF NextPage
<1>4. CASE RunEtl
  <2>1. /\ up /\ step = "rows" /\ out = <<>>
        /\ UNCHANGED <<target, committed, call, up, disk, low, offset, source>>
    BY <1>4 DEF RunEtl, sourceVars
  <2>2. call["main"] = W!NoCall /\ Query' = Query
    BY <2>1 DEF CallInPlace, Query
  <2>3. CallInPlace'
    BY <2>1, <2>2 DEF CallInPlace, W!At, W!NoCall
  <2>4. CASE ReturnErr
    BY <2>1, <2>2, <2>4, ReturnErrInOrder
  <2>5. CASE todo # <<>> /\ out' = EtlOutput(Head(todo)) /\ todo' = Tail(todo)
             /\ UNCHANGED <<step, buckets, erred>>
    <3>1. todo \in Seq(SourceRows) /\ Head(todo) \in SourceRows
          /\ ToSet(todo) = {Head(todo)} \cup ToSet(todo')
      BY <1>0, <2>5, ToSetHeadTail, HeadTailProperties DEF RunnerTypeOK, Rows
    <3>2. ASSUME NEW r \in SourceRows, Accounted(r) PROVE Accounted(r)'
      <4>1. \A t \in Tables : Placed(t, r) => Placed(t, r)'
        BY <2>1, <2>5, ToSetEmpty DEF Placed
      <4>2. CASE r = Head(todo)
        <5>1. \A i \in DOMAIN EtlTables[r.id] :
                 [table |-> EtlTables[r.id][i], row |-> r] \in ToSet(out')
          BY <2>5, <4>2, EtlOutputTyped
        <5>2. QED BY <5>1 DEF Accounted, Placed
      <4>3. CASE r # Head(todo)
        <5>1. r \in ToSet(todo) => Accounted(r)'
          BY <3>1, <4>3 DEF Accounted
        <5>2. QED BY <1>0, <3>2, <4>1, <5>1, AccountedKept
      <4>4. QED BY <4>2, <4>3
    <3>3. PassAccounts'
      BY <1>0, <2>1, <3>2, AccountsKept
    <3>4. HandsEmpty' /\ LowIsFile'
      BY <2>1, <2>5 DEF HandsEmpty, LowIsFile
    <3>5. QED BY <2>1, <2>3, <3>3, <3>4
  <2>6. CASE todo = <<>> /\ step' = "reading" /\ UNCHANGED <<todo, out, buckets, erred>>
    <3>1. \A r \in SourceRows : Accounted(r) => Accounted(r)'
      BY <2>1, <2>6 DEF Accounted, Placed
    <3>2. PassAccounts'
      BY <1>0, <2>1, <3>1, AccountsKept
    <3>3. HandsEmpty' /\ LowIsFile'
      BY <2>1, <2>6 DEF HandsEmpty, LowIsFile
    <3>4. QED BY <2>1, <2>3, <3>2, <3>3
  <2>7. QED BY <1>4, <2>4, <2>5, <2>6 DEF RunEtl
<1>5. CASE PushRow
  <2> DEFINE t == Head(out).table
             row == Head(out).row
             bucket == Append(buckets[t], row)
  <2>1. /\ up /\ step = "rows" /\ out # <<>> /\ out' = Tail(out)
        /\ UNCHANGED <<target, committed, up, disk, low, offset, todo, erred, source>>
        /\ buckets' = [buckets EXCEPT ![t] = bucket]
        /\ \/ step' = "flushing" /\ call' = [call EXCEPT !["main"] = W!NewCall(t, bucket)]
           \/ UNCHANGED <<step, call>>
    BY <1>5 DEF PushRow, Bucket, sourceVars
  <2>2. /\ call["main"] = W!NoCall
        /\ out \in Seq(RoutedRow) /\ Head(out) \in RoutedRow
        /\ buckets \in [Tables -> Seq(Rows)]
    BY <1>0, <2>1, HeadTailProperties DEF CallInPlace, RunnerTypeOK
  <2>3. t \in Tables /\ row \in Rows /\ Head(out) = [table |-> t, row |-> row]
    BY <2>2 DEF RoutedRow
  <2> HIDE DEF t, row
  <2>4. /\ ToSet(bucket) = ToSet(buckets[t]) \cup {row} /\ bucket # <<>>
        /\ ToSet(out) = {Head(out)} \cup ToSet(out')
    <3>1. buckets[t] \in Seq(Rows)
      BY <2>2, <2>3
    <3>2. QED BY <2>1, <2>2, <2>3, <3>1, ToSetAppend, ToSetHeadTail, AppendProperties
  <2>5. \A u \in Tables : buckets'[u] = IF u = t THEN bucket ELSE buckets[u]
    BY <2>1, <2>2, <2>3
  <2> HIDE DEF bucket
  <2>6. ASSUME NEW r \in SourceRows, Accounted(r) PROVE Accounted(r)'
    <3>1. ASSUME NEW u \in Tables, Placed(u, r) PROVE Placed(u, r)'
      <4>1. CASE [table |-> u, row |-> r] \in ToSet(out)
        <5>1. CASE [table |-> u, row |-> r] = Head(out)
          <6>1. u = t /\ r = row
            BY <2>3, <5>1
          <6>2. QED BY <2>4, <2>5, <3>1, <6>1 DEF Placed
        <5>2. CASE [table |-> u, row |-> r] # Head(out)
          BY <2>4, <4>1, <5>2 DEF Placed
        <5>3. QED BY <5>1, <5>2
      <4>2. CASE r \in ToSet(buckets[u])
        BY <2>4, <2>5, <3>1, <4>2 DEF Placed
      <4>3. CASE r \in ToSet(target[u])
        BY <2>1, <4>3 DEF Placed
      <4>4. QED BY <3>1, <4>1, <4>2, <4>3 DEF Placed
    <3>2. r \in ToSet(todo) => Accounted(r)'
      BY <2>1 DEF Accounted
    <3>3. QED BY <1>0, <2>6, <3>1, <3>2, AccountedKept
  <2>7. PassAccounts'
    BY <1>0, <2>1, <2>6, AccountsKept
  <2>8. HandsEmpty' /\ LowIsFile'
    BY <2>1 DEF HandsEmpty, LowIsFile
  <2>9. CallInPlace'
    <3>1. CASE step' = "flushing" /\ call' = [call EXCEPT !["main"] = W!NewCall(t, bucket)]
      <4>1. call'["main"] = [step |-> "mark", table |-> t, rows |-> bucket, attempt |-> 0]
        BY <1>0, <2>4, <3>1 DEF W!NewCall
      <4>2. buckets'[t] = bucket
        BY <2>3, <2>5
      <4>3. QED BY <3>1, <4>1, <4>2 DEF CallInPlace, W!At
    <3>2. CASE UNCHANGED <<step, call>>
      BY <2>2, <3>2 DEF CallInPlace, W!At, W!NoCall
    <3>3. QED BY <2>1, <3>1, <3>2
  <2>10. QED BY <2>1, <2>7, <2>8, <2>9
<1>6. CASE Drain
  <2>1. /\ up /\ step = "draining" /\ call["main"] = W!NoCall
        /\ UNCHANGED <<target, committed, up, disk, low, offset, todo, out, buckets, erred, source>>
        /\ \/ /\ UNCHANGED step
              /\ \E t \in Tables : /\ buckets[t] # <<>>
                                   /\ call' = [call EXCEPT !["main"] = W!NewCall(t, buckets[t])]
           \/ buckets = NoBuckets /\ step' = "write_tmp" /\ UNCHANGED call
    BY <1>6 DEF Drain, sourceVars
  <2>2. \A r \in SourceRows : Accounted(r) => Accounted(r)'
    BY <2>1 DEF Accounted, Placed
  <2>3. PassAccounts'
    BY <1>0, <2>1, <2>2, AccountsKept
  <2>4. Query' = Query
    BY <2>1 DEF Query
  <2>5. HandsEmpty' /\ LowIsFile'
    BY <2>1, <2>4 DEF HandsEmpty, LowIsFile, NoBuckets
  <2>6. CallInPlace'
    <3>1. CASE \E t \in Tables : /\ buckets[t] # <<>>
                                 /\ call' = [call EXCEPT !["main"] = W!NewCall(t, buckets[t])]
      <4>1. PICK t \in Tables : /\ buckets[t] # <<>>
                                /\ call' = [call EXCEPT !["main"] = W!NewCall(t, buckets[t])]
        BY <3>1
      <4>2. call'["main"] = [step |-> "mark", table |-> t, rows |-> buckets[t], attempt |-> 0]
        BY <1>0, <4>1 DEF W!NewCall
      <4>3. step' = "draining"
        <5>1. call' # call
          BY <2>1, <4>2 DEF W!NoCall
        <5>2. QED BY <2>1, <5>1
      <4>4. QED BY <2>1, <4>2, <4>3 DEF CallInPlace, W!At
    <3>2. CASE UNCHANGED call
      BY <2>1, <3>2 DEF CallInPlace, W!At, W!NoCall
    <3>3. QED BY <2>1, <3>1, <3>2
  <2>7. QED BY <2>1, <2>3, <2>5, <2>6
<1>7. CASE InWriteBatch
  <2>1. /\ up /\ W!WriteStep("main") /\ committed' = target'
        /\ UNCHANGED <<up, step, disk, low, offset, todo, out, buckets, erred, source>>
    BY <1>7 DEF InWriteBatch, Commit, sourceVars, processVars
  <2>2. /\ \A t \in Tables : ToSet(target[t]) \subseteq ToSet(target'[t])
        /\ ~W!At("main", "truncate")'
        /\ W!At("main", "ok")' => ToSet(call'["main"].rows) \subseteq ToSet(target'[call'["main"].table])
    BY <1>0, <2>1, WriteGrows DEF CallInPlace
  <2>3. /\ call["main"] # W!NoCall /\ call'["main"].table = call["main"].table
        /\ call'["main"].rows = call["main"].rows
    BY <1>0, <2>1, WriteTyped DEF RunnerTypeOK
  <2>4. CallInPlace'
    BY <2>1, <2>2, <2>3 DEF CallInPlace
  <2>5. step # "idle"
    BY <2>3 DEF CallInPlace
  <2>6. ASSUME NEW r \in SourceRows, Accounted(r) PROVE Accounted(r)'
    <3>1. \A t \in Tables : Placed(t, r) => Placed(t, r)'
      BY <2>1, <2>2 DEF Placed
    <3>2. r \in ToSet(todo) => Accounted(r)'
      BY <2>1 DEF Accounted
    <3>3. QED BY <1>0, <2>6, <3>1, <3>2, AccountedKept
  <2>7. PassAccounts'
    BY <1>0, <2>1, <2>5, <2>6, AccountsKept
  <2>8. Query' = Query
    BY <2>1 DEF Query
  <2>9. HandsEmpty' /\ LowIsFile'
    BY <2>1, <2>8 DEF HandsEmpty, LowIsFile, NoBuckets
  <2>10. QED BY <2>1, <2>4, <2>5, <2>7, <2>9
<1>8. CASE Written
  <2> DEFINE c == call["main"]
  <2>1. /\ up /\ call' = [call EXCEPT !["main"] = W!NoCall]
        /\ UNCHANGED <<target, committed, up, disk, low, offset, source>>
    BY <1>8 DEF Written, sourceVars
  <2>2. call'["main"] = W!NoCall
    BY <1>0, <2>1
  <2>3. CASE ReturnErr
    BY <2>1, <2>2, <2>3, ReturnErrInOrder
  <2>4. CASE /\ c.step = "ok" /\ buckets' = [buckets EXCEPT ![c.table] = <<>>]
             /\ step' = IF step = "flushing" THEN "rows" ELSE step
             /\ UNCHANGED <<todo, out, erred>>
    <3>1. /\ c # W!NoCall /\ c.table \in Tables /\ step \in {"flushing", "draining"}
          /\ c.rows = buckets[c.table] /\ ToSet(c.rows) \subseteq ToSet(target[c.table])
      <4>1. c # W!NoCall /\ c.table \in Tables
        BY <1>0, <2>4 DEF W!CallType, W!NoCall
      <4>2. QED BY <2>4, <4>1 DEF CallInPlace, W!At
    <3>2. \A t \in Tables : buckets'[t] = IF t = c.table THEN <<>> ELSE buckets[t]
      BY <1>0, <2>4, <3>1 DEF RunnerTypeOK
    <3> HIDE DEF c
    <3>3. ASSUME NEW r \in SourceRows, Accounted(r) PROVE Accounted(r)'
      <4>1. \A t \in Tables : Placed(t, r) => Placed(t, r)'
        BY <2>1, <2>4, <3>1, <3>2 DEF Placed
      <4>2. r \in ToSet(todo) => Accounted(r)'
        BY <2>4 DEF Accounted
      <4>3. QED BY <1>0, <3>3, <4>1, <4>2, AccountedKept
    <3>4. PassAccounts'
      BY <1>0, <2>1, <3>1, <3>3, AccountsKept
    <3>5. Query' = Query
      BY <2>1 DEF Query
    <3>6. HandsEmpty' /\ LowIsFile'
      BY <2>1, <2>4, <3>1, <3>5 DEF HandsEmpty, LowIsFile
    <3>7. CallInPlace'
      BY <2>2 DEF CallInPlace, W!At, W!NoCall
    <3>8. QED BY <2>1, <3>4, <3>6, <3>7
  <2>5. QED BY <1>8, <2>3, <2>4 DEF Written
<1>9. CASE SaveTmp
  <2>1. /\ up /\ step = "write_tmp"
        /\ UNCHANGED <<target, committed, call, up, disk, low, offset, source>>
    BY <1>9 DEF SaveTmp, sourceVars
  <2>2. call["main"] = W!NoCall /\ Query' = Query
    BY <2>1 DEF CallInPlace, Query
  <2>3. CASE ReturnErr
    BY <2>1, <2>2, <2>3, ReturnErrInOrder
  <2>4. CASE step' = "rename" /\ UNCHANGED <<todo, out, buckets, erred>>
    <3>1. \A r \in SourceRows : Accounted(r) => Accounted(r)'
      BY <2>1, <2>4 DEF Accounted, Placed
    <3>2. PassAccounts'
      BY <1>0, <2>1, <3>1, AccountsKept
    <3>3. HandsEmpty' /\ LowIsFile'
      BY <2>1, <2>2, <2>4 DEF HandsEmpty, LowIsFile, NoBuckets
    <3>4. CallInPlace'
      BY <2>1, <2>2 DEF CallInPlace, W!At, W!NoCall
    <3>5. QED BY <2>1, <3>2, <3>3, <3>4
  <2>5. QED BY <1>9, <2>3, <2>4 DEF SaveTmp
<1>10. CASE SaveRename
  <2>1. /\ up /\ step = "rename"
        /\ UNCHANGED <<target, committed, call, up, low, offset, source>>
    BY <1>10 DEF SaveRename, sourceVars
  <2>2. call["main"] = W!NoCall
    BY <2>1 DEF CallInPlace
  <2>3. CASE ReturnErr
    BY <2>1, <2>2, <2>3, ReturnErrInOrder
  <2>4. CASE step' = "idle" /\ UNCHANGED <<todo, out, buckets, erred>>
    <3>1. HandsEmpty'
      BY <2>1, <2>4 DEF HandsEmpty, NoBuckets
    <3>2. CallInPlace'
      BY <2>1, <2>2 DEF CallInPlace, W!At, W!NoCall
    <3>3. QED BY <2>1, <2>4, <3>1, <3>2 DEF PassAccounts, LowIsFile
  <2>5. QED BY <1>10, <2>3, <2>4 DEF SaveRename
<1>11. CASE Crash
  <2>1. /\ step' = "idle" /\ todo' = <<>> /\ out' = <<>> /\ buckets' = NoBuckets
        /\ call'["main"] = W!NoCall /\ committed' = target'
    BY <1>11 DEF Crash, Writers
  <2>2. CallInPlace'
    BY <2>1 DEF CallInPlace, W!At, W!NoCall
  <2>3. QED BY <2>1, <2>2 DEF PassAccounts, HandsEmpty, LowIsFile, NoBuckets
<1>12. CASE Restart
  <2>1. /\ step = "idle" /\ UNCHANGED <<step, todo, out, buckets, target, committed, call>>
    BY <1>0, <1>12 DEF Restart, writerVars
  <2>2. QED
    BY <2>1 DEF PassAccounts, HandsEmpty, CallInPlace, LowIsFile, NoBuckets, W!At, W!NoCall
<1>13. CASE UNCHANGED runnerVars
  <2>1. UNCHANGED <<target, committed, call, up, step, disk, low, offset, todo, out, buckets, erred, source>>
    BY <1>13 DEF runnerVars
  <2>2. Query' = Query
    BY <2>1 DEF Query
  <2>3. PassAccounts'
    <3>1. step = "idle" => PassAccounts'
      BY <2>1 DEF PassAccounts
    <3>2. \A r \in SourceRows : Accounted(r) => Accounted(r)'
      BY <2>1 DEF Accounted, Placed
    <3>3. QED BY <1>0, <2>1, <3>1, <3>2, AccountsKept
  <2>4. QED BY <2>1, <2>2, <2>3 DEF HandsEmpty, CallInPlace, LowIsFile, NoBuckets, W!At, W!NoCall
<1>14. QED
  BY <1>1, <1>2, <1>3, <1>4, <1>5, <1>6, <1>7, <1>8, <1>9, <1>10, <1>11, <1>12, <1>13
     DEF RunnerNext, RunnerStep

(* A save of a process without a failed pass covers only written rows.     *)
LEMMA SaveCovers ==
  ASSUME MarkInv, PassInv, MarkCoversWritten, step = "rename", ~erred,
         NEW r \in ToSet(source), mem # None, r.wm <= mem
  PROVE  IsWritten(r)
<1>1. RunnerTypeOK /\ source \in Seq(SourceRows) /\ r \in SourceRows
  <2>1. RunnerTypeOK /\ source \in Seq(SourceRows)
    BY DEF MarkInv, TypeInv, RunnerTypeOK
  <2>2. QED BY <2>1, ToSetIn
<1>2. CASE disk # None /\ r.wm <= disk
  BY <1>2 DEF MarkCoversWritten, ToSet
<1>3. CASE ~(disk # None /\ r.wm <= disk)
  <2>1. r.wm > low
    <3>1. low = IF disk = None THEN 0 ELSE disk
      BY DEF PassInv, LowIsFile
    <3>2. r.wm \in 1..MaxClock
      BY <1>1 DEF SourceRows
    <3>3. QED BY <1>1, <1>3, <3>1, <3>2, MarkTypes
  <2>2. r \in ToSet(Query) /\ Query \in Seq(SourceRows)
    BY <1>1, <2>1, QueryTyped
  <2>3. PICK k \in 1..Len(Query) : Query[k] = r
    BY <2>2, LenProperties DEF ToSet
  <2>4. k <= offset
    <3>1. offset >= Len(Query) /\ offset \in Nat /\ Len(Query) \in Nat
      BY <1>1, <2>2, LenProperties DEF PassInv, HandsEmpty, RunnerTypeOK
    <3>2. QED BY <3>1
  <2>5. Accounted(r)
    BY <2>3, <2>4 DEF PassInv, PassAccounts
  <2>6. todo = <<>> /\ out = <<>> /\ \A t \in Tables : buckets[t] = <<>>
    BY DEF PassInv, HandsEmpty, NoBuckets
  <2>7. \A i \in DOMAIN EtlTables[r.id] : EtlTables[r.id][i] \in Tables
    BY <1>1, EtlOutputTyped
  <2>8. QED BY <2>5, <2>6, <2>7, ToSetEmpty DEF Accounted, Placed, IsWritten
<1>4. QED BY <1>2, <1>3

(* Rows that are not above the mark stay written. *)
LEMMA LostStep ==
  ASSUME Mode # "full", AutoCommit = TRUE, LiveSource = FALSE,
         MarkInv, PassInv, [RunnerNext]_runnerVars, MarkCoversWritten,
         ~(erred /\ step = "rename")
  PROVE  MarkCoversWritten'
<1>1. /\ RunnerTypeOK /\ source \in Seq(SourceRows)
      /\ \A r \in ToSet(source) : r \in SourceRows
      /\ \A r \in SourceRows : \A i \in DOMAIN EtlTables[r.id] : EtlTables[r.id][i] \in Tables
  <2>1. RunnerTypeOK /\ source \in Seq(SourceRows)
    BY DEF MarkInv, TypeInv, RunnerTypeOK
  <2>2. QED BY <2>1, ToSetIn, EtlOutputTyped
<1>2. disk # None => \A r \in ToSet(source) : r.wm <= disk => IsWritten(r)
  BY DEF MarkCoversWritten, ToSet
<1>3. SUFFICES disk' # None => \A r \in ToSet(source') : r.wm <= disk' => IsWritten(r)'
  BY DEF MarkCoversWritten, ToSet, IsWritten
<1>4. CASE SourceInsert \/ SourceUpdate
  <2>1. /\ UNCHANGED <<disk, target>> /\ clock' = clock + 1
        /\ \A r \in ToSet(source') : r \in ToSet(source) \/ r.wm = clock'
    BY <1>1, <1>4, SourceStep
  <2>2. disk # None => disk \in Nat /\ disk <= clock /\ clock \in Nat
    BY <1>1, MarkTypes DEF MarkInv, MarksBounded
  <2>3. QED BY <1>2, <2>1, <2>2 DEF IsWritten
<1>5. CASE SaveRename /\ disk' = mem
  <2>1. /\ UNCHANGED <<source, target>> /\ step = "rename" /\ ~erred
    BY <1>5 DEF SaveRename, sourceVars
  <2>2. mem # None => \A r \in ToSet(source) : r.wm <= mem => IsWritten(r)
    BY <2>1, SaveCovers
  <2>3. QED BY <1>5, <2>1, <2>2 DEF IsWritten
<1>6. CASE UNCHANGED <<source, disk>>
  <2>1. \A t \in Tables : ToSet(target[t]) \subseteq ToSet(target'[t])
    <3>1. CASE UNCHANGED target
      BY <3>1
    <3>2. CASE InWriteBatch
      BY <1>1, <3>2, WriteGrows DEF InWriteBatch, PassInv, CallInPlace
    <3>3. CASE Crash
      BY <3>3 DEF Crash, PassInv
    <3>4. CASE SourceInsert \/ SourceUpdate
      BY <1>1, <3>4, SourceStep
    <3>5. QED
      BY <3>1, <3>2, <3>3, <3>4 DEF RunnerNext, RunnerStep, StartPass, NextPage, RunEtl, PushRow,
         Bucket, Drain, Written, SaveTmp, SaveRename, Restart, writerVars, runnerVars
  <2>2. \A r \in SourceRows : IsWritten(r) => IsWritten(r)'
    BY <1>1, <2>1 DEF IsWritten
  <2>3. QED BY <1>1, <1>2, <1>6, <2>2
<1>7. SourceInsert \/ SourceUpdate \/ (SaveRename /\ disk' = mem) \/ UNCHANGED <<source, disk>>
  BY DEF RunnerNext, RunnerStep, StartPass, NextPage, RunEtl, PushRow, Bucket, Drain,
         InWriteBatch, Written, SaveTmp, SaveRename, Crash, Restart, sourceVars, processVars, runnerVars
<1>8. QED BY <1>4, <1>5, <1>6, <1>7

(* With a source that is quiet during a pass, a target that commits each   *)
(* insert and no truncation, the mark of the file passes a row that has    *)
(* not been written only in a save of a process that has had a failed      *)
(* pass: failures, crashes at any point and restarts alone lose no row.    *)
THEOREM OnlyErrorsLoseRows ==
  ASSUME Mode # "full", AutoCommit = TRUE, LiveSource = FALSE
  PROVE  RunnerSpec => LostOnlyAfterError
<1>1. RunnerInit => PassInv
  <2> SUFFICES ASSUME RunnerInit PROVE PassInv
    OBVIOUS
  <2>1. call["main"] = W!NoCall
    BY InitTyped
  <2>2. CallInPlace
    BY <2>1 DEF CallInPlace, W!At, W!NoCall
  <2>3. QED BY <2>2 DEF RunnerInit, PassInv, PassAccounts, HandsEmpty, LowIsFile, NoBuckets
<1>2. MarkInv /\ PassInv /\ [RunnerNext]_runnerVars => PassInv'
  BY PassStep
<1>3. MarkInv /\ PassInv /\ [RunnerNext]_runnerVars =>
         (MarkCoversWritten /\ ~MarkCoversWritten' => erred /\ step = "rename")
  BY LostStep
<1>4. QED BY <1>1, <1>2, <1>3, MarkInvHolds, PTL DEF RunnerSpec, LostOnlyAfterError
=============================================================================
