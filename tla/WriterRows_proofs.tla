------------------------- MODULE WriterRows_proofs -------------------------
(***************************************************************************)
(* Proofs about the rows the writer pool writes: in which order it writes  *)
(* the versions of a row, so which version a reader of the target sees,    *)
(* and how often it writes one.                                            *)
(***************************************************************************)
EXTENDS WriterPool_proofs, FiniteSetTheorems

NoErr == \A p \in Passes : result[p] # "err"

\* The output rows the job thread still has before it.
Later(n) == UNION {OutputOf(Output[pass][i]) : i \in {k \in DOMAIN Output[pass] : k > n}}
Ahead == ToSet(job.out) \cup OutputOf(job.rows) \cup Later(job.page)

JobInOrder == job.step # "idle" =>
    /\ Ahead \subseteq RowsOf(pass)
    /\ Sorted(job.out) /\ InTurn(job.rows)
    /\ OlderThan(ToSet(job.out), OutputOf(job.rows))
    /\ OlderThan(ToSet(job.out) \cup OutputOf(job.rows), Later(job.page))

\* What a writer thread holds for the main table, and the written rows it
\* must not be behind: those of its pass, and all others while no pass failed.
Held(w) == ToSet(chan[w]) \cup ToSet(buckets[w][Main])
Seen(p) == {r \in ToSet(target[Main]) : r \in RowsOf(p) \/ NoErr}

\* A batch that is written a second time ends with versions as new as before.
Outdone(r, rows) == (\E s \in rows : s.key = r.key) => \E s \in rows : s.key = r.key /\ r.ver <= s.ver

ThreadInOrder(w) ==
    /\ Held(w) \subseteq RowsOf(w[1])
    /\ \A r \in ToSet(buckets[w][Main]) : TableOf(r) = Main
    /\ \A r \in Held(w) : TableOf(r) = Main => w[2] = (KeyHash[r] % N) + 1
    /\ Sorted(chan[w]) /\ Sorted(buckets[w][Main])
    /\ OlderThan(ToSet(buckets[w][Main]), ToSet(chan[w]))
    /\ w[1] = pass /\ job.step # "idle" => OlderThan(Held(w), Ahead)
    /\ w[1] > pass => chan[w] = <<>> /\ buckets[w] = NoBuckets
    /\ OlderThan(Seen(w[1]), ToSet(chan[w]))
    /\ \A r \in Seen(w[1]) : Outdone(r, ToSet(buckets[w][Main]))

TargetInOrder ==
    /\ \A r \in ToSet(target[Main]) :
          /\ TableOf(r) = Main
          /\ r \in ToSet(Prior[Main]) \/ \E p \in 1..pass : r \in RowsOf(p)
    /\ job.step # "idle" => OlderThan(Seen(pass), Ahead)
    /\ \A p \in Passes : NewestLast(target[Main], RowsOf(p))
    /\ NoErr => NewestLast(target[Main], Rows)

PassesOver ==
    \A p \in Passes : p < pass \/ (p = pass /\ job.step = "idle") => result[p] \in {"ok", "err"}

OrderInv ==
    /\ RowsInv
    /\ JobInOrder /\ TargetInOrder /\ PassesOver
    /\ \A w \in Writers : ThreadInOrder(w)

(* The rows of the passes and of the tables before them are told apart.    *)
LEMMA RowsApart ==
  /\ \A p, q \in Passes : p # q => RowsOf(p) \cap RowsOf(q) = {}
  /\ \A t \in Tables : \A p \in Passes : ToSet(Prior[t]) \cap RowsOf(p) = {}
<1>1. ASSUME NEW p \in Passes, NEW q \in Passes, p < q PROVE RowsOf(p) \cap RowsOf(q) = {}
  BY <1>1, SourceAssumption DEF OlderThan, Older
<1>2. \A p, q \in Passes : p # q => p < q \/ q < p
  BY PoolAssumption DEF Passes
<1>3. \A t \in Tables : \A p \in Passes : ToSet(Prior[t]) \cap RowsOf(p) = {}
  BY SourceAssumption DEF OlderThan, Older
<1>4. QED BY <1>1, <1>2, <1>3

-----------------------------------------------------------------------------
(* Sequences of rows in order.                                             *)

LEMMA SortedEmpty == Sorted(<<>>) /\ InTurn(<<>>)
BY DEF Sorted, InTurn

LEMMA SortedHead ==
  ASSUME NEW s \in Seq(Rows), s # <<>>, Sorted(s)
  PROVE  Sorted(Tail(s)) /\ OlderThan({Head(s)}, ToSet(Tail(s)))
<1>1. /\ Tail(s) \in Seq(Rows) /\ Len(s) \in Nat \ {0} /\ Len(Tail(s)) = Len(s) - 1
      /\ DOMAIN s = 1..Len(s) /\ DOMAIN Tail(s) = 1..Len(Tail(s))
      /\ Head(s) = s[1] /\ \A i \in 1..Len(Tail(s)) : Tail(s)[i] = s[i + 1]
  BY HeadTailProperties, LenProperties
<1>2. Sorted(Tail(s))
  <2> SUFFICES ASSUME NEW i \in 1..Len(Tail(s)), NEW k \in 1..Len(Tail(s)), i < k
               PROVE  Older(Tail(s)[i], Tail(s)[k])
    BY <1>1 DEF Sorted
  <2>1. i + 1 \in 1..Len(s) /\ k + 1 \in 1..Len(s) /\ i + 1 < k + 1
    BY <1>1
  <2>2. QED BY <1>1, <2>1 DEF Sorted
<1>3. ASSUME NEW r \in ToSet(Tail(s)) PROVE Older(Head(s), r)
  <2>1. PICK i \in 1..Len(Tail(s)) : r = Tail(s)[i]
    BY <1>1, <1>3 DEF ToSet
  <2>2. i + 1 \in 1..Len(s) /\ 1 \in 1..Len(s) /\ 1 < i + 1
    BY <1>1
  <2>3. QED BY <1>1, <2>1, <2>2 DEF Sorted
<1>4. QED BY <1>2, <1>3 DEF OlderThan

LEMMA SortedAppend ==
  ASSUME NEW s \in Seq(Rows), NEW e \in Rows, Sorted(s), OlderThan(ToSet(s), {e})
  PROVE  Sorted(Append(s, e))
<1>1. /\ Len(s) \in Nat /\ DOMAIN s = 1..Len(s)
      /\ DOMAIN Append(s, e) = 1..(Len(s) + 1)
      /\ \A i \in 1..Len(s) : Append(s, e)[i] = s[i]
      /\ Append(s, e)[Len(s) + 1] = e
  BY AppendProperties, LenProperties
<1>2. ASSUME NEW i \in 1..(Len(s) + 1), NEW k \in 1..(Len(s) + 1), i < k
      PROVE  Older(Append(s, e)[i], Append(s, e)[k])
  <2>1. CASE k = Len(s) + 1
    <3>1. i \in 1..Len(s) /\ s[i] \in ToSet(s)
      BY <1>1, <1>2, <2>1 DEF ToSet
    <3>2. QED BY <1>1, <2>1, <3>1 DEF OlderThan
  <2>2. CASE k # Len(s) + 1
    <3>1. i \in 1..Len(s) /\ k \in 1..Len(s)
      BY <1>1, <1>2, <2>2
    <3>2. QED BY <1>1, <1>2, <3>1 DEF Sorted
  <2>3. QED BY <2>1, <2>2
<1>3. QED BY <1>1, <1>2 DEF Sorted

LEMMA InTurnHead ==
  ASSUME NEW s \in Seq(Seq(Rows)), s # <<>>, InTurn(s)
  PROVE  /\ Sorted(Head(s)) /\ InTurn(Tail(s))
         /\ OlderThan(ToSet(Head(s)), OutputOf(Tail(s)))
<1>1. /\ Tail(s) \in Seq(Seq(Rows)) /\ Len(s) \in Nat \ {0} /\ Len(Tail(s)) = Len(s) - 1
      /\ DOMAIN s = 1..Len(s) /\ DOMAIN Tail(s) = 1..Len(Tail(s))
      /\ Head(s) = s[1] /\ \A i \in 1..Len(Tail(s)) : Tail(s)[i] = s[i + 1]
  BY HeadTailProperties, LenProperties
<1>2. \A i \in 1..Len(Tail(s)) : i + 1 \in 1..Len(s) /\ 1 < i + 1
  BY <1>1
<1>3. Sorted(Head(s))
  BY <1>1 DEF InTurn
<1>4. InTurn(Tail(s))
  <2>1. \A i \in 1..Len(Tail(s)) : Sorted(Tail(s)[i])
    BY <1>1, <1>2 DEF InTurn
  <2>2. ASSUME NEW i \in 1..Len(Tail(s)), NEW k \in 1..Len(Tail(s)), i < k
        PROVE  OlderThan(ToSet(Tail(s)[i]), ToSet(Tail(s)[k]))
    <3>1. i + 1 < k + 1
      BY <1>1, <2>2
    <3>2. QED BY <1>1, <1>2, <3>1 DEF InTurn
  <2>3. QED BY <1>1, <2>1, <2>2 DEF InTurn
<1>5. ASSUME NEW r \in ToSet(Head(s)), NEW q \in OutputOf(Tail(s)) PROVE Older(r, q)
  <2>1. PICK i \in 1..Len(Tail(s)) : q \in ToSet(Tail(s)[i])
    BY <1>1, <1>5 DEF OutputOf
  <2>2. 1 \in 1..Len(s) /\ OlderThan(ToSet(s[1]), ToSet(s[i + 1]))
    BY <1>1, <1>2 DEF InTurn
  <2>3. QED BY <1>1, <1>5, <2>1, <2>2 DEF OlderThan
<1>6. QED BY <1>3, <1>4, <1>5 DEF OlderThan

(* A batch in order, none of whose keys it leaves behind a version already *)
(* written, leaves the newest version of every key last; so does a batch   *)
(* of other rows.                                                          *)
LEMMA BatchKeepsNewest ==
  ASSUME NEW T \in Seq(Rows), NEW B \in Seq(Rows), NEW R, NewestLast(T, R), Sorted(B),
         \A r \in ToSet(B) : TableOf(r) = Main,
         \/ ToSet(B) \cap R = {}
         \/ ToSet(B) \subseteq R /\ \A r \in ToSet(T) \cap R : Outdone(r, ToSet(B))
  PROVE  NewestLast(T \o B, R)
<1> DEFINE m == Len(T)
           n == Len(B)
           s == T \o B
           at == {i \in DOMAIN s : s[i] \in R}
<1>1. /\ m \in Nat /\ n \in Nat /\ DOMAIN T = 1..m /\ DOMAIN B = 1..n
      /\ s \in Seq(Rows) /\ DOMAIN s = 1..(m + n)
      /\ \A i \in 1..(m + n) : s[i] = IF i <= m THEN T[i] ELSE B[i - m]
  BY ConcatProperties, LenProperties
<1>2. \A r \in Rows : r.ver \in Nat
  BY SourceAssumption
<1>3. SUFFICES ASSUME NEW j \in at, \A i \in at : s[i].key = s[j].key => i <= j,
                      NEW i \in at, s[i].key = s[j].key
               PROVE  s[i].ver <= s[j].ver
  BY DEF NewestLast
<1>4. i \in 1..(m + n) /\ j \in 1..(m + n) /\ s[i] \in R /\ s[j] \in R /\ i <= j
      /\ s[i] \in Rows /\ s[j] \in Rows
  BY <1>1, <1>3, ElementOfSeq
<1>5. \A k \in 1..n : m + k \in 1..(m + n) /\ s[m + k] = B[k] /\ B[k] \in ToSet(B)
  BY <1>1 DEF ToSet
<1>6. \A k \in 1..m : k \in 1..(m + n) /\ s[k] = T[k] /\ T[k] \in ToSet(T)
  BY <1>1 DEF ToSet
<1> HIDE DEF s, m, n
<1>7. CASE j <= m
  <2>1. i \in 1..m /\ j \in 1..m
    BY <1>1, <1>4, <1>7
  <2>2. ASSUME NEW k \in 1..m, T[k] \in R, T[k].key = T[j].key PROVE k <= j
    BY <1>1, <1>3, <1>6, <2>1, <2>2
  <2>3. QED BY <1>1, <1>3, <1>4, <1>6, <2>1, <2>2 DEF NewestLast
<1>8. CASE ~(j <= m)
  <2>1. PICK k \in 1..n : j = m + k
    <3>1. j - m \in 1..n /\ j = m + (j - m)
      BY <1>1, <1>4, <1>8
    <3>2. QED BY <3>1
  <2>2. s[j] = B[k] /\ B[k] \in ToSet(B) /\ ToSet(B) \subseteq R
    BY <1>4, <1>5, <2>1
  <2>3. \A l \in 1..n : B[l].key = s[j].key => B[l].ver <= s[j].ver
    <3> SUFFICES ASSUME NEW l \in 1..n, B[l].key = s[j].key PROVE B[l].ver <= s[j].ver
      OBVIOUS
    <3>1. m + l \in at /\ s[m + l] = B[l]
      BY <1>1, <1>5, <2>2
    <3>2. m + l <= m + k
      BY <1>3, <2>1, <3>1
    <3>3. l <= k
      BY <1>1, <3>2
    <3>4. CASE l = k
      BY <1>2, <1>4, <2>2, <3>4
    <3>5. CASE l < k
      <4>1. Older(B[l], B[k])
        BY <1>1, <3>5 DEF Sorted
      <4>2. TableOf(B[l]) = Main /\ TableOf(B[k]) = Main
        BY <1>5
      <4>3. QED BY <2>2, <4>1, <4>2 DEF Older
    <3>6. QED BY <3>3, <3>4, <3>5
  <2>4. CASE i > m
    <3>1. i - m \in 1..n /\ s[i] = B[i - m]
      BY <1>1, <1>4, <2>4
    <3>2. QED BY <1>3, <2>3, <3>1
  <2>5. CASE ~(i > m)
    <3>1. i \in 1..m /\ s[i] = T[i] /\ T[i] \in ToSet(T) \cap R
      BY <1>1, <1>4, <1>6, <2>5
    <3>2. PICK q \in ToSet(B) : q.key = s[i].key /\ s[i].ver <= q.ver
      BY <1>3, <2>2, <3>1 DEF Outdone
    <3>3. PICK l \in 1..n : q = B[l]
      BY <1>1 DEF ToSet
    <3>4. B[l].ver <= s[j].ver /\ B[l] \in Rows
      <4>1. B[l] \in Rows
        BY <3>2, <3>3, ToSetIn
      <4>2. B[l].key = s[j].key
        BY <1>3, <3>2, <3>3
      <4>3. QED BY <2>3, <4>1, <4>2
    <3>5. QED BY <1>2, <1>4, <3>2, <3>3, <3>4
  <2>6. QED BY <2>4, <2>5
<1>9. QED BY <1>7, <1>8

-----------------------------------------------------------------------------
(* The job thread.                                                         *)

\* What a step of the job thread does to the rows it has before it.
LEMMA JobMoves ==
  ASSUME RowsInv, JobStep
  PROVE  /\ UNCHANGED <<target, buckets>>
         /\ \/ /\ pass' = pass + 1 /\ pass' \in Passes /\ UNCHANGED chan
               /\ \/ job'.step = "idle"
                  \/ job'.page = 0 /\ job'.rows = <<>> /\ job'.out = <<>>
            \/ /\ UNCHANGED pass /\ job.step # "idle" /\ pass \in Passes
               /\ \/ job'.step = "idle" /\ UNCHANGED chan
                  \/ job'.page = job.page /\ job'.rows = job.rows /\ job'.out = job.out /\ UNCHANGED chan
                  \/ /\ job.out = <<>> /\ job'.out = <<>> /\ UNCHANGED chan
                     /\ job'.page = job.page + 1 /\ job'.page \in DOMAIN Output[pass]
                     /\ job'.rows = Output[pass][job'.page]
                  \/ /\ job.rows # <<>> /\ job.out = <<>> /\ UNCHANGED chan
                     /\ job'.page = job.page /\ job'.out = Head(job.rows) /\ job'.rows = Tail(job.rows)
                  \/ /\ job.out # <<>> /\ job'.page = job.page /\ job'.rows = job.rows
                     /\ job'.out = Tail(job.out)
                     /\ chan' = [chan EXCEPT ![<<pass, Route(Head(job.out))>>] = Append(@, Head(job.out))]
<1>1. TypeInv /\ job \in JobType /\ UNCHANGED <<target, buckets>> /\ HandsEmpty /\ Joined
  BY Types DEF RowsInv, ControlInv, JobStep, StartPass, NextPage, RunEtl, SendRow, PageDone, Join,
     writerVars, threadVars
<1>2. CASE StartPass
  <2>1. pass' = pass + 1 /\ pass' \in Passes /\ pass \in Nat /\ UNCHANGED chan
    BY <1>1, <1>2, Types DEF StartPass
  <2>2. job' \in {Idle, [Idle EXCEPT !.step = "reading"]}
    BY <1>2 DEF StartPass
  <2>3. job'.step = "idle" \/ (job'.page = 0 /\ job'.rows = <<>> /\ job'.out = <<>>)
    BY <2>2 DEF Idle
  <2>4. QED BY <1>1, <2>1, <2>3
<1>3. CASE JobStep /\ ~StartPass
  <2>1. UNCHANGED pass /\ job.step # "idle" /\ pass \in Passes
    BY <1>1, <1>3, JobStepDoes DEF TypeInv, PassRuns
  <2>2. CASE job' = Idle
    <3>1. job'.step = "idle"
      BY <2>2, IdleTyped
    <3>2. CASE UNCHANGED chan
      BY <1>1, <2>1, <3>1, <3>2
    <3>3. CASE ~UNCHANGED chan
      <4>1. SendRow /\ job' = [job EXCEPT !.out = Tail(@)] /\ job.step = "sending"
        BY <1>3, <3>3 DEF JobStep, NextPage, RunEtl, SendRow, PageDone, Join, threadVars
      <4>2. QED BY <1>1, <3>1, <4>1 DEF JobType
    <3>4. QED BY <3>2, <3>3
  <2>3. CASE NextPage /\ job' # Idle
    <3>1. job.out = <<>> /\ job.page \in Nat /\ UNCHANGED chan
      BY <1>1, <2>3 DEF NextPage, HandsEmpty, JobType, threadVars
    <3>2. CASE /\ job.page < Len(Output[pass])
               /\ job' = [job EXCEPT !.step = "sending", !.page = @ + 1,
                                     !.rows = Output[pass][job.page + 1]]
      <4>1. job.page + 1 \in DOMAIN Output[pass]
        <5>1. Output[pass] \in Seq(Seq(Seq(Rows)))
          BY <1>1, <2>1, Types
        <5>2. QED BY <3>1, <3>2, <5>1, LenProperties
      <4>2. job'.page = job.page + 1 /\ job'.rows = Output[pass][job.page + 1] /\ job'.out = job.out
        BY <1>1, <3>2 DEF JobType
      <4>3. QED BY <1>1, <2>1, <3>1, <4>1, <4>2
    <3>3. CASE job' = [job EXCEPT !.step = "joining"]
      <4>1. job'.page = job.page /\ job'.rows = job.rows /\ job'.out = job.out
        BY <1>1, <3>3 DEF JobType
      <4>2. QED BY <1>1, <2>1, <3>1, <4>1
    <3>4. QED BY <2>3, <3>2, <3>3 DEF NextPage, ReturnErr
  <2>4. CASE RunEtl /\ job' # Idle
    <3>1. /\ job.rows # <<>> /\ job.out = <<>> /\ UNCHANGED chan
          /\ job' = [job EXCEPT !.out = Head(job.rows), !.rows = Tail(@)]
      BY <2>4 DEF RunEtl, ReturnErr, threadVars
    <3>2. job'.page = job.page /\ job'.out = Head(job.rows) /\ job'.rows = Tail(job.rows)
      BY <1>1, <3>1 DEF JobType
    <3>3. QED BY <1>1, <2>1, <3>1, <3>2
  <2>5. CASE SendRow /\ job' # Idle
    <3>1. /\ job.out # <<>>
          /\ chan' = [chan EXCEPT ![<<pass, Route(Head(job.out))>>] = Append(@, Head(job.out))]
          /\ job' = [job EXCEPT !.out = Tail(@)]
      BY <2>5 DEF SendRow, ReturnErr
    <3>2. job'.page = job.page /\ job'.rows = job.rows /\ job'.out = Tail(job.out)
      BY <1>1, <3>1 DEF JobType
    <3>3. QED BY <1>1, <2>1, <3>1, <3>2
  <2>6. CASE (PageDone \/ Join) /\ job' # Idle
    <3>1. /\ UNCHANGED chan
          /\ job' = [job EXCEPT !.step = "reading"] \/ job' = [job EXCEPT !.joined = @ + 1]
      BY <2>6 DEF PageDone, Join, ReturnErr, threadVars
    <3>2. job'.page = job.page /\ job'.rows = job.rows /\ job'.out = job.out
      BY <1>1, <3>1 DEF JobType
    <3>3. QED BY <1>1, <2>1, <3>1, <3>2
  <2>7. QED BY <1>3, <2>2, <2>3, <2>4, <2>5, <2>6 DEF JobStep
<1>4. QED BY <1>2, <1>3

(* A pass that has failed stays failed. *)
LEMMA NoErrBefore ==
  ASSUME ControlInv, [PoolNext]_poolVars
  PROVE  NoErr' => NoErr
<1>1. /\ TypeInv /\ Joined /\ pass \in 0..MaxPasses /\ Passes = 1..MaxPasses
      /\ result \in [Passes -> {"none", "running", "ok", "err"}]
  BY Types DEF ControlInv
<1>2. CASE UNCHANGED result
  BY <1>2 DEF NoErr
<1>3. CASE StartPass
  <2>1. pass' \in Passes /\ pass' > pass /\ \A p \in Passes \ {pass'} : result'[p] = result[p]
    <3>1. pass' = pass + 1 /\ pass < MaxPasses /\ MaxPasses \in Nat
      BY <1>1, <1>3, Types DEF StartPass
    <3>2. \/ result' = [result EXCEPT ![pass'] = "running"]
          \/ result' = [result EXCEPT ![pass'] = "err"]
      BY <1>3 DEF StartPass
    <3>3. QED BY <1>1, <3>1, <3>2
  <2>2. result[pass'] = "none"
    BY <1>1, <2>1 DEF Joined
  <2>3. QED BY <2>1, <2>2 DEF NoErr
<1>4. CASE JobStep /\ ~StartPass
  <2>1. /\ pass \in Passes /\ result[pass] = "running"
        /\ \A p \in Passes \ {pass} : result'[p] = result[p]
    BY <1>1, <1>4, JobStepDoes DEF TypeInv, PassRuns, Joined
  <2>2. QED BY <2>1 DEF NoErr
<1>5. CASE \E w \in Writers : WriterStep(w)
  BY <1>1, <1>2, <1>5, RunningThreads DEF OthersAlone, jobVars
<1>6. QED BY <1>2, <1>3, <1>4, <1>5 DEF PoolNext, AllDone, poolVars

(* Every pass before the current one has returned. *)
LEMMA PassesOverStep ==
  ASSUME ControlInv, PassesOver, [PoolNext]_poolVars
  PROVE  PassesOver'
<1>1. /\ TypeInv /\ Joined /\ pass \in 0..MaxPasses /\ Passes = 1..MaxPasses /\ MaxPasses \in Nat
      /\ result \in [Passes -> {"none", "running", "ok", "err"}]
  BY Types DEF ControlInv
<1>2. CASE UNCHANGED <<pass, job, result>>
  BY <1>2 DEF PassesOver
<1>3. CASE StartPass
  <2>1. /\ pass' = pass + 1 /\ pass' \in Passes /\ job.step = "idle"
        /\ \A p \in Passes \ {pass'} : result'[p] = result[p]
        /\ result'[pass'] = "err" \/ job'.step = "reading"
    BY <1>1, <1>3 DEF StartPass, Idle
  <2>2. \A p \in Passes : p < pass' => p < pass \/ (p = pass /\ job.step = "idle")
    BY <1>1, <2>1
  <2>3. \A p \in Passes : p < pass' => p # pass'
    BY <1>1, <2>1
  <2>4. QED BY <2>1, <2>2, <2>3 DEF PassesOver
<1>4. CASE JobStep /\ ~StartPass
  <2>1. /\ pass \in Passes /\ UNCHANGED pass
        /\ \A p \in Passes \ {pass} : result'[p] = result[p]
        /\ job'.step = "idle" => result'[pass] \in {"ok", "err"}
    <3>1. job \in JobType
      BY <1>1, Types
    <3>2. pass \in Passes
      BY <1>1, <1>4, JobStepDoes DEF TypeInv, PassRuns
    <3>3. \/ result' = [result EXCEPT ![pass] = "err"]
          \/ result' = [result EXCEPT ![pass] = "ok"]
          \/ UNCHANGED result /\ job'.step # "idle"
      BY <1>1, <1>4, <3>1, JobStepDoes DEF JobType
    <3>4. QED BY <1>1, <1>4, <3>2, <3>3, JobStepDoes
  <2>2. \A p \in Passes : p < pass => p # pass
    BY <1>1
  <2>3. QED BY <2>1, <2>2 DEF PassesOver
<1>5. CASE \E w \in Writers : WriterStep(w)
  BY <1>1, <1>2, <1>5, RunningThreads DEF OthersAlone, jobVars
<1>6. QED BY <1>2, <1>3, <1>4, <1>5 DEF PoolNext, AllDone, poolVars

(* While no pass has failed, only writers of the running pass hold rows.   *)
LEMMA OthersHoldNothing ==
  ASSUME OrderInv, NoErr, NEW w \in Writers, ~(w[1] = pass /\ job.step # "idle")
  PROVE  Held(w) = {} /\ chan[w] = <<>> /\ buckets[w][Main] = <<>>
<1>1. /\ TypeInv /\ OkMeansQuiet /\ ThreadsEmpty /\ PassesOver /\ ThreadInOrder(w)
      /\ w[1] \in Passes /\ Passes = 1..MaxPasses /\ pass \in 0..MaxPasses /\ Main \in Tables
  BY Types, WritersArePairs, PoolAssumption DEF OrderInv, RowsInv, ControlInv
<1>2. chan[w] = <<>> /\ buckets[w] = NoBuckets
  <2>1. CASE w[1] > pass
    BY <1>1, <2>1 DEF ThreadInOrder
  <2>2. CASE ~(w[1] > pass)
    <3>1. w[1] < pass \/ (w[1] = pass /\ job.step = "idle")
      BY <1>1, <2>2
    <3>2. result[w[1]] = "ok"
      BY <1>1, <3>1 DEF PassesOver, NoErr
    <3>3. QED BY <1>1, <3>2 DEF OkMeansQuiet, ThreadsEmpty
  <2>3. QED BY <2>1, <2>2
<1>3. QED BY <1>1, <1>2, ToSetEmpty DEF Held, NoBuckets

(* A writer stays in order while its rows stay where they are. *)
LEMMA ThreadKept ==
  ASSUME NEW w \in Writers, ThreadInOrder(w), chan'[w] = chan[w], buckets'[w] = buckets[w],
         Seen(w[1])' \subseteq Seen(w[1]),
         w[1] = pass' /\ job'.step # "idle" => OlderThan(Held(w), Ahead'),
         w[1] > pass' => w[1] > pass
  PROVE  ThreadInOrder(w)'
<1>1. Held(w)' = Held(w) /\ NoBuckets' = NoBuckets
  BY DEF Held, NoBuckets
<1>2. /\ OlderThan(Seen(w[1])', ToSet(chan[w]))
      /\ \A r \in Seen(w[1])' : Outdone(r, ToSet(buckets[w][Main]))
  BY DEF ThreadInOrder, OlderThan
<1>3. QED BY <1>1, <1>2 DEF ThreadInOrder, OlderThan

LEMMA SeenKept ==
  ASSUME NoErr' => NoErr, UNCHANGED target, NEW p \in Passes
  PROVE  Seen(p)' \subseteq Seen(p)
BY DEF Seen

(* The rows that a pass reads later than those of page n are its own and   *)
(* not older.                                                              *)
LEMMA LaterRows ==
  ASSUME pass \in Passes, NEW n \in Nat
  PROVE  /\ Later(n) \subseteq RowsOf(pass)
         /\ n + 1 \in DOMAIN Output[pass] =>
              LET page == Output[pass][n + 1]
              IN  /\ page \in Seq(Seq(Rows)) /\ InTurn(page)
                  /\ OutputOf(page) \cup Later(n + 1) \subseteq Later(n)
                  /\ OlderThan(OutputOf(page), Later(n + 1))
<1>1. Output[pass] \in Seq(Seq(Seq(Rows)))
  BY PoolAssumption
<1>2. /\ Later(n) \subseteq RowsOf(pass)
      /\ \A i \in DOMAIN Output[pass] : i > n + 1 => i > n
      /\ n + 1 > n
  BY <1>1, LenProperties DEF Later, RowsOf
<1>3. ASSUME n + 1 \in DOMAIN Output[pass]
      PROVE  LET page == Output[pass][n + 1]
              IN  /\ page \in Seq(Seq(Rows)) /\ InTurn(page)
                  /\ OutputOf(page) \cup Later(n + 1) \subseteq Later(n)
                  /\ OlderThan(OutputOf(page), Later(n + 1))
  <2> DEFINE page == Output[pass][n + 1]
  <2>1. page \in Seq(Seq(Rows))
    BY <1>1, <1>3, LenProperties, ElementOfSeq
  <2>2. OutputOf(page) \cup Later(n + 1) \subseteq Later(n)
    BY <1>2, <1>3 DEF Later
  <2>3. /\ InTurn(page)
        /\ \A k \in DOMAIN Output[pass] : n + 1 < k => OlderThan(OutputOf(page), OutputOf(Output[pass][k]))
    BY <1>3, SourceAssumption
  <2>4. ASSUME NEW r \in OutputOf(page), NEW s \in Later(n + 1) PROVE Older(r, s)
    <3>1. PICK k \in DOMAIN Output[pass] : k > n + 1 /\ s \in OutputOf(Output[pass][k])
      BY <2>4 DEF Later
    <3>2. n + 1 < k
      BY <1>1, <3>1, LenProperties
    <3>3. QED BY <2>3, <2>4, <3>1, <3>2 DEF OlderThan
  <2>5. QED BY <2>1, <2>2, <2>3, <2>4 DEF OlderThan
<1>4. QED BY <1>2, <1>3

(* The job thread works its rows off in order. *)
LEMMA JobOrderStep ==
  ASSUME RowsInv, JobInOrder, JobStep
  PROVE  /\ JobInOrder'
         /\ job'.step # "idle" /\ UNCHANGED pass => Ahead' \subseteq Ahead
<1>1. /\ job \in JobType /\ job.rows \in Seq(Seq(Rows)) /\ job.out \in Seq(Rows) /\ job.page \in Nat
      /\ pass \in 0..MaxPasses
  BY Types DEF RowsInv, ControlInv, JobType
<1>2. CASE job'.step = "idle"
  BY <1>2 DEF JobInOrder
<1>3. CASE /\ pass' = pass + 1 /\ pass' \in Passes
           /\ job'.page = 0 /\ job'.rows = <<>> /\ job'.out = <<>>
  <2>1. Ahead' = Later(0)' /\ Later(0)' \subseteq RowsOf(pass')
    <3>1. Later(0)' \subseteq RowsOf(pass')
      <4>1. \A i \in DOMAIN Output[pass'] : OutputOf(Output[pass'][i]) \subseteq RowsOf(pass')
        BY <1>3, RowsTyped
      <4>2. QED BY <4>1 DEF Later
    <3>2. QED BY <1>3, <3>1, ToSetEmpty, OutputEmpty DEF Ahead
  <2>2. Sorted(job'.out) /\ InTurn(job'.rows) /\ ToSet(job'.out) = {} /\ OutputOf(job'.rows) = {}
    BY <1>3, SortedEmpty, ToSetEmpty, OutputEmpty
  <2>3. QED BY <1>1, <1>3, <2>1, <2>2 DEF JobInOrder, OlderThan
<1>4. CASE UNCHANGED pass /\ job.step # "idle" /\ pass \in Passes /\ job'.step # "idle"
  <2>1. /\ Ahead \subseteq RowsOf(pass) /\ Sorted(job.out) /\ InTurn(job.rows)
        /\ OlderThan(ToSet(job.out), OutputOf(job.rows))
        /\ OlderThan(ToSet(job.out) \cup OutputOf(job.rows), Later(job.page))
        /\ \A n : Later(n)' = Later(n)
    BY <1>4 DEF JobInOrder, Later
  <2>2. CASE job'.page = job.page /\ job'.rows = job.rows /\ job'.out = job.out
    BY <1>4, <2>1, <2>2 DEF JobInOrder, Ahead
  <2>3. CASE /\ job.out = <<>> /\ job'.out = <<>>
             /\ job'.page = job.page + 1 /\ job'.page \in DOMAIN Output[pass]
             /\ job'.rows = Output[pass][job'.page]
    <3>1. /\ InTurn(job'.rows)
          /\ OutputOf(job'.rows) \cup Later(job'.page) \subseteq Later(job.page)
          /\ OlderThan(OutputOf(job'.rows), Later(job'.page))
      BY <1>1, <1>4, <2>3, LaterRows
    <3>2. Ahead' \subseteq Ahead /\ ToSet(job'.out) = {}
      BY <2>1, <2>3, <3>1, ToSetEmpty DEF Ahead
    <3>3. QED BY <1>4, <2>1, <2>3, <3>1, <3>2, SortedEmpty DEF JobInOrder, OlderThan
  <2>4. CASE /\ job.rows # <<>> /\ job.out = <<>>
             /\ job'.page = job.page /\ job'.out = Head(job.rows) /\ job'.rows = Tail(job.rows)
    <3>1. /\ Sorted(job'.out) /\ InTurn(job'.rows)
          /\ OlderThan(ToSet(job'.out), OutputOf(job'.rows))
          /\ OutputOf(job.rows) = ToSet(job'.out) \cup OutputOf(job'.rows)
      BY <1>1, <2>1, <2>4, InTurnHead, OutputHeadTail
    <3>2. Ahead' \subseteq Ahead
      BY <2>1, <2>4, <3>1 DEF Ahead
    <3>3. OlderThan(ToSet(job'.out) \cup OutputOf(job'.rows), Later(job.page))
      BY <2>1, <2>4, <3>1 DEF OlderThan
    <3>4. QED BY <1>4, <2>1, <2>4, <3>1, <3>2, <3>3 DEF JobInOrder
  <2>5. CASE /\ job.out # <<>> /\ job'.page = job.page /\ job'.rows = job.rows
             /\ job'.out = Tail(job.out)
    <3>1. Sorted(job'.out) /\ ToSet(job'.out) \subseteq ToSet(job.out)
      BY <1>1, <2>1, <2>5, SortedHead, ToSetHeadTail
    <3>2. Ahead' \subseteq Ahead
      BY <2>1, <2>5, <3>1 DEF Ahead
    <3>3. /\ OlderThan(ToSet(job'.out), OutputOf(job'.rows))
          /\ OlderThan(ToSet(job'.out) \cup OutputOf(job'.rows), Later(job.page))
      BY <2>1, <2>5, <3>1 DEF OlderThan
    <3>4. QED BY <1>4, <2>1, <2>5, <3>1, <3>2, <3>3 DEF JobInOrder
  <2>6. QED BY <1>1, <1>4, <2>2, <2>3, <2>4, <2>5, JobMoves
<1>5. pass' = pass + 1 => pass' # pass
  BY <1>1
<1>6. CASE UNCHANGED pass
  BY <1>2, <1>4, <1>5, <1>6, JobMoves
<1>7. CASE ~UNCHANGED pass
  BY <1>2, <1>3, <1>7, JobMoves
<1>8. QED BY <1>6, <1>7

(* The writer that a row is sent to stays in order. *)
LEMMA SendInOrder ==
  ASSUME HasPk, OrderInv, job.step # "idle", pass \in Passes, job.out # <<>>,
         NEW row \in Rows, row = Head(job.out), NEW w \in Writers, w = <<pass, Route(row)>>,
         chan' = [chan EXCEPT ![w] = Append(@, row)],
         UNCHANGED <<target, buckets, pass>>, NoErr' => NoErr, Ahead' \subseteq Ahead,
         job'.out = Tail(job.out), job'.rows = job.rows, job'.page = job.page
  PROVE  ThreadInOrder(w)'
<1>1. /\ TypeInv /\ JobInOrder /\ ThreadInOrder(w) /\ TargetInOrder
      /\ w[1] = pass /\ w[1] \in Passes /\ w[2] = Route(row) /\ pass \in Nat
      /\ chan[w] \in Seq(Rows) /\ job.out \in Seq(Rows) /\ chan'[w] = Append(chan[w], row)
  BY Types, WritersArePairs DEF OrderInv, RowsInv, ControlInv, JobType
<1>2. /\ ToSet(job.out) = {row} \cup ToSet(job'.out) /\ row \in Ahead
      /\ OlderThan({row}, ToSet(job'.out))
  BY <1>1, ToSetHeadTail, SortedHead DEF Ahead, JobInOrder
<1>3. /\ ToSet(chan'[w]) = ToSet(chan[w]) \cup {row}
      /\ Held(w)' = Held(w) \cup {row}
  <2>1. ToSet(chan'[w]) = ToSet(chan[w]) \cup {row}
    <3>1. chan[w] \in Seq(Rows) /\ chan'[w] = Append(chan[w], row)
      BY <1>1
    <3>2. \A s \in Seq(Rows) : ToSet(Append(s, row)) = ToSet(s) \cup {row}
      BY ToSetAppend
    <3>3. QED BY <3>1, <3>2
  <2>2. buckets' = buckets
    OBVIOUS
  <2>3. QED BY <2>1, <2>2 DEF Held
<1>4. Sorted(chan'[w]) /\ OlderThan(Held(w), Ahead)
  <2>1. OlderThan(Held(w), Ahead)
    BY <1>1 DEF ThreadInOrder
  <2>2. OlderThan(ToSet(chan[w]), {row})
    BY <1>2, <2>1 DEF OlderThan, Held
  <2>3. QED BY <1>1, <2>1, <2>2, SortedAppend DEF ThreadInOrder
<1>5. /\ Held(w)' \subseteq RowsOf(w[1])
      /\ \A r \in Held(w)' : TableOf(r) = Main => w[2] = (KeyHash[r] % N) + 1
  BY <1>1, <1>2, <1>3 DEF ThreadInOrder, JobInOrder, Route
<1>6. OlderThan(ToSet(buckets[w][Main]), ToSet(chan'[w]))
  <2>1. OlderThan(ToSet(buckets[w][Main]), ToSet(chan[w]))
    BY <1>1 DEF ThreadInOrder
  <2>2. ASSUME NEW r \in ToSet(buckets[w][Main]) PROVE Older(r, row)
    BY <1>2, <1>4, <2>2 DEF OlderThan, Held
  <2>3. QED BY <1>3, <2>1, <2>2 DEF OlderThan
<1>7. OlderThan(Held(w)', Ahead')
  <2>1. OlderThan({row}, Ahead')
    <3>1. OlderThan({row}, OutputOf(job.rows) \cup Later(job.page))
      BY <1>1, <1>2 DEF JobInOrder, OlderThan
    <3>2. Ahead' = ToSet(job'.out) \cup OutputOf(job.rows) \cup Later(job.page)
      BY DEF Ahead, Later
    <3>3. QED BY <1>2, <3>1, <3>2 DEF OlderThan
  <2>2. QED BY <1>3, <1>4, <2>1 DEF OlderThan
<1>8. /\ OlderThan(Seen(w[1])', ToSet(chan'[w]))
      /\ \A r \in Seen(w[1])' : Outdone(r, ToSet(buckets[w][Main]))
  <2>1. Seen(w[1])' \subseteq Seen(w[1])
    BY <1>1, SeenKept
  <2>2. OlderThan(Seen(w[1]), {row})
    BY <1>1, <1>2 DEF TargetInOrder, OlderThan
  <2>3. /\ OlderThan(Seen(w[1]), ToSet(chan[w]))
        /\ \A r \in Seen(w[1]) : Outdone(r, ToSet(buckets[w][Main]))
    BY <1>1 DEF ThreadInOrder
  <2>4. OlderThan(Seen(w[1])', ToSet(chan[w]) \cup {row})
    BY <2>1, <2>2, <2>3 DEF OlderThan
  <2>5. QED BY <1>3, <2>1, <2>3, <2>4
<1>9. ~(w[1] > pass')
  BY <1>1
<1>10. QED BY <1>1, <1>4, <1>5, <1>6, <1>7, <1>8, <1>9 DEF ThreadInOrder

LEMMA JobThreadsStep ==
  ASSUME HasPk, OrderInv, JobStep, NoErr' => NoErr, NEW v \in Writers
  PROVE  ThreadInOrder(v)'
<1>1. /\ RowsInv /\ TypeInv /\ JobInOrder /\ ThreadInOrder(v) /\ UNCHANGED <<target, buckets>>
      /\ pass \in 0..MaxPasses /\ v[1] \in Passes /\ Passes = 1..MaxPasses
      /\ chan \in [Writers -> Seq(Rows)] /\ job \in JobType
  BY Types, WritersArePairs, JobMoves DEF OrderInv, RowsInv, ControlInv
<1>2. Seen(v[1])' \subseteq Seen(v[1])
  BY <1>1, SeenKept
<1>3. CASE pass' = pass + 1 /\ UNCHANGED chan
  <2>1. v[1] > pass' => v[1] > pass
    BY <1>1, <1>3
  <2>2. v[1] = pass' => Held(v) = {}
    <3>1. v[1] = pass' => v[1] > pass
      BY <1>1, <1>3
    <3>2. Main \in Tables
      BY PoolAssumption
    <3>3. QED BY <1>1, <3>1, <3>2, ToSetEmpty DEF ThreadInOrder, Held, NoBuckets
  <2>3. QED BY <1>1, <1>2, <1>3, <2>1, <2>2, ThreadKept DEF OlderThan
<1>4. CASE UNCHANGED <<pass, chan>> /\ job.step # "idle"
  <2>1. job'.step # "idle" => Ahead' \subseteq Ahead
    BY <1>1, <1>4, JobOrderStep
  <2>2. v[1] = pass' /\ job'.step # "idle" => OlderThan(Held(v), Ahead')
    BY <1>1, <1>4, <2>1 DEF ThreadInOrder, OlderThan
  <2>3. QED BY <1>1, <1>2, <1>4, <2>2, ThreadKept
<1>5. CASE /\ UNCHANGED pass /\ job.step # "idle" /\ pass \in Passes
           /\ job.out # <<>> /\ job'.page = job.page /\ job'.rows = job.rows
           /\ job'.out = Tail(job.out)
           /\ chan' = [chan EXCEPT ![<<pass, Route(Head(job.out))>>] = Append(@, Head(job.out))]
  <2>0. PICK row \in Rows : row = Head(job.out)
    BY <1>1, <1>5, HeadTailProperties DEF JobType
  <2>1. PICK w \in Writers : w = <<pass, Route(row)>>
    <3>1. Route(row) \in 1..N
      BY <1>1, RouteTyped DEF TypeInv
    <3>2. QED BY <1>5, <3>1, WritersArePairs
  <2>2. job'.step # "idle" => Ahead' \subseteq Ahead
    BY <1>1, <1>5, JobOrderStep
  <2>3. Ahead' \subseteq Ahead
    <3>1. ToSet(job'.out) \subseteq ToSet(job.out)
      BY <1>1, <1>5, ToSetHeadTail DEF JobType
    <3>2. QED BY <1>5, <3>1 DEF Ahead, Later
  <2>4. CASE v = w
    <3>1. chan' = [chan EXCEPT ![w] = Append(@, row)]
      BY <1>5, <2>0, <2>1
    <3>2. ThreadInOrder(w)'
      BY <1>1, <1>5, <2>0, <2>1, <2>3, <3>1, SendInOrder
    <3>3. QED BY <2>4, <3>2
  <2>5. CASE v # w
    <3>1. chan'[v] = chan[v]
      BY <1>1, <1>5, <2>0, <2>1, <2>5
    <3>2. v[1] = pass' /\ job'.step # "idle" => OlderThan(Held(v), Ahead')
      BY <1>1, <1>5, <2>3 DEF ThreadInOrder, OlderThan
    <3>3. QED BY <1>1, <1>2, <1>5, <3>1, <3>2, ThreadKept
  <2>6. QED BY <2>4, <2>5
<1>6. QED BY <1>1, <1>3, <1>4, <1>5, JobMoves

LEMMA JobTargetStep ==
  ASSUME OrderInv, JobStep, NoErr' => NoErr
  PROVE  TargetInOrder'
<1>1. /\ RowsInv /\ JobInOrder /\ JobInOrder' /\ TargetInOrder /\ UNCHANGED target
      /\ pass \in 0..MaxPasses /\ Passes = 1..MaxPasses /\ MaxPasses \in Nat
      /\ pass' \in {pass, pass + 1}
      /\ pass' = pass + 1 => pass' \in Passes
      /\ pass' = pass => job.step # "idle" /\ pass \in Passes
  BY Types, JobMoves, JobOrderStep DEF OrderInv, RowsInv, ControlInv
<1>2. 1..pass \subseteq 1..pass' /\ \A p \in 1..pass : p \in Passes
  BY <1>1
<1>3. /\ \A r \in ToSet(target[Main]) :
            /\ TableOf(r) = Main
            /\ r \in ToSet(Prior[Main]) \/ \E p \in 1..pass : r \in RowsOf(p)
      /\ job.step # "idle" => OlderThan(Seen(pass), Ahead)
      /\ \A p \in Passes : NewestLast(target[Main], RowsOf(p))
      /\ NoErr' => NewestLast(target[Main], Rows)
  BY <1>1 DEF TargetInOrder
<1>4. ASSUME job'.step # "idle" PROVE OlderThan(Seen(pass)', Ahead')
  <2>1. CASE pass' = pass
    <3>1. Ahead' \subseteq Ahead
      BY <1>1, <1>4, <2>1, JobOrderStep
    <3>2. Seen(pass)' \subseteq Seen(pass)
      BY <1>1, <2>1 DEF Seen
    <3>3. QED BY <1>1, <1>3, <2>1, <3>1, <3>2 DEF OlderThan
  <2>2. CASE pass' = pass + 1
    <3>1. Ahead' \subseteq RowsOf(pass')
      BY <1>1, <1>4 DEF JobInOrder
    <3>2. ASSUME NEW r \in ToSet(target[Main]), NEW s \in RowsOf(pass') PROVE Older(r, s)
      <4>1. CASE r \in ToSet(Prior[Main])
        BY <1>1, <2>2, <3>2, <4>1, SourceAssumption, PoolAssumption DEF OlderThan
      <4>2. ASSUME NEW p \in 1..pass, r \in RowsOf(p) PROVE Older(r, s)
        <5>1. p \in Passes /\ p < pass' /\ pass' \in Passes
          BY <1>1, <1>2, <2>2, <4>2
        <5>2. OlderThan(RowsOf(p), RowsOf(pass'))
          BY <5>1, SourceAssumption
        <5>3. QED BY <3>2, <4>2, <5>2 DEF OlderThan
      <4>3. QED BY <1>3, <3>2, <4>1, <4>2
    <3>3. QED BY <1>1, <3>1, <3>2 DEF Seen, OlderThan
  <2>3. QED BY <1>1, <2>1, <2>2
<1>5. QED BY <1>1, <1>2, <1>3, <1>4 DEF TargetInOrder

-----------------------------------------------------------------------------
(* The writer threads.                                                     *)

LEMMA AheadKept ==
  ASSUME UNCHANGED jobVars
  PROVE  (NoErr' <=> NoErr) /\ Ahead' = Ahead
BY DEF jobVars, NoErr, Ahead, Later

(* A row that moves from the channel to its bucket comes after the rows in *)
(* the bucket and before the rows left in the channel.                     *)
LEMMA RecvInOrder ==
  ASSUME OrderInv, NEW w \in Writers, Recv(w)
  PROVE  ThreadInOrder(w)'
<1>1. /\ TypeInv /\ ThreadInOrder(w) /\ TargetInOrder
      /\ chan[w] \in Seq(Rows) /\ chan[w] # <<>> /\ chan'[w] = Tail(chan[w])
      /\ buckets[w] \in [Tables -> Seq(Rows)] /\ Main \in Tables /\ w[1] \in Passes
      /\ UNCHANGED <<target, pass, job, result>>
  BY Types, WritersArePairs, PoolAssumption DEF OrderInv, RowsInv, ControlInv, Recv, jobVars
<1>2. PICK row \in Rows : row = Head(chan[w])
  BY <1>1, HeadTailProperties
<1>3. /\ ToSet(chan[w]) = {row} \cup ToSet(chan'[w])
      /\ TableOf(row) = Main =>
            /\ buckets'[w][Main] = Append(buckets[w][Main], row)
            /\ ToSet(buckets'[w][Main]) = ToSet(buckets[w][Main]) \cup {row}
      /\ TableOf(row) # Main => buckets'[w][Main] = buckets[w][Main]
  BY <1>1, <1>2, RecvDoes
<1>4. Sorted(chan'[w]) /\ OlderThan({row}, ToSet(chan'[w]))
  BY <1>1, <1>2, SortedHead DEF ThreadInOrder
<1>5. /\ ToSet(buckets'[w][Main]) \subseteq ToSet(buckets[w][Main]) \cup {row}
      /\ Held(w)' \subseteq Held(w)
      /\ row \in ToSet(chan[w]) /\ row \in Held(w)
  BY <1>3 DEF Held
<1>6. Sorted(buckets'[w][Main])
  <2>1. OlderThan(ToSet(buckets[w][Main]), {row})
    BY <1>1, <1>5 DEF ThreadInOrder, OlderThan
  <2>2. buckets[w][Main] \in Seq(Rows) /\ Sorted(buckets[w][Main])
    BY <1>1 DEF ThreadInOrder
  <2>3. Sorted(Append(buckets[w][Main], row))
    BY <2>1, <2>2, SortedAppend
  <2>4. QED BY <1>3, <2>2, <2>3
<1>7. OlderThan(ToSet(buckets'[w][Main]), ToSet(chan'[w]))
  <2>1. OlderThan(ToSet(buckets[w][Main]), ToSet(chan[w]))
    BY <1>1 DEF ThreadInOrder
  <2>2. QED BY <1>3, <1>4, <1>5, <2>1 DEF OlderThan
<1>8. /\ Seen(w[1])' = Seen(w[1]) /\ Ahead' = Ahead
      /\ \A r \in Seen(w[1]) : TableOf(r) = Main
      /\ OlderThan(Seen(w[1]), ToSet(chan[w]))
      /\ \A r \in Seen(w[1]) : Outdone(r, ToSet(buckets[w][Main]))
  BY <1>1 DEF Seen, NoErr, Ahead, Later, TargetInOrder, ThreadInOrder
<1>9. ASSUME NEW r \in Seen(w[1]) PROVE Outdone(r, ToSet(buckets'[w][Main]))
  <2>1. CASE TableOf(row) # Main
    BY <1>3, <1>8, <2>1
  <2>2. CASE TableOf(row) = Main
    <3>1. ToSet(buckets'[w][Main]) = ToSet(buckets[w][Main]) \cup {row}
      BY <1>3, <2>2
    <3>2. row.key = r.key => r.ver <= row.ver
      BY <1>5, <1>8, <2>2 DEF OlderThan, Older
    <3>3. QED BY <1>8, <3>1, <3>2 DEF Outdone
  <2>3. QED BY <2>1, <2>2
<1>10. \A r \in ToSet(buckets'[w][Main]) : TableOf(r) = Main
  BY <1>1, <1>3 DEF ThreadInOrder
<1>11. ~(w[1] > pass)
  BY <1>1 DEF ThreadInOrder
<1>12. OlderThan(Seen(w[1])', ToSet(chan'[w]))
  BY <1>3, <1>8 DEF OlderThan
<1>13. /\ Held(w)' \subseteq RowsOf(w[1])
       /\ \A r \in Held(w)' : TableOf(r) = Main => w[2] = (KeyHash[r] % N) + 1
       /\ w[1] = pass /\ job.step # "idle" => OlderThan(Held(w)', Ahead)
  BY <1>1, <1>5 DEF ThreadInOrder, OlderThan
<1>14. QED
  BY <1>1, <1>4, <1>6, <1>7, <1>8, <1>9, <1>10, <1>11, <1>12, <1>13 DEF ThreadInOrder

(* A writer that lets go of rows stays in order. *)
LEMMA WrittenInOrder ==
  ASSUME OrderInv, NEW w \in Writers, Written(w)
  PROVE  ThreadInOrder(w)'
<1>1. /\ TypeInv /\ ThreadInOrder(w) /\ OthersAlone(w) /\ UNCHANGED target
      /\ Main \in Tables /\ thread[w] # "unborn"
  BY PoolAssumption, WrittenDoes, RunningThreads DEF OrderInv, RowsInv, ControlInv, WriterStep
<1>2. UNCHANGED <<pass, job, result>> /\ Ahead' = Ahead /\ Seen(w[1])' = Seen(w[1])
  BY <1>1, AheadKept DEF OthersAlone, jobVars, Seen
<1>3. /\ chan'[w] \in {chan[w], <<>>}
      /\ buckets'[w][Main] \in {buckets[w][Main], <<>>}
  BY <1>1, WrittenDoes DEF NoBuckets
<1>4. /\ ToSet(chan'[w]) \subseteq ToSet(chan[w])
      /\ ToSet(buckets'[w][Main]) \in {ToSet(buckets[w][Main]), {}}
      /\ Held(w)' \subseteq Held(w)
      /\ Sorted(chan'[w]) /\ Sorted(buckets'[w][Main])
  <2>1. Sorted(<<>>) /\ ToSet(<<>>) = {}
    BY SortedEmpty, ToSetEmpty
  <2>2. Sorted(chan[w]) /\ Sorted(buckets[w][Main])
    BY <1>1 DEF ThreadInOrder
  <2>3. QED BY <1>3, <2>1, <2>2 DEF Held
<1>5. ~(w[1] > pass)
  BY <1>1 DEF TypeInv, Unborn
<1>6. \A r \in Seen(w[1])' : Outdone(r, ToSet(buckets'[w][Main]))
  BY <1>1, <1>2, <1>4 DEF ThreadInOrder, Outdone
<1>7. /\ OlderThan(ToSet(buckets'[w][Main]), ToSet(chan'[w]))
      /\ OlderThan(Seen(w[1])', ToSet(chan'[w]))
      /\ w[1] = pass /\ job.step # "idle" => OlderThan(Held(w)', Ahead)
  BY <1>1, <1>2, <1>4 DEF ThreadInOrder, OlderThan
<1>8. /\ Held(w)' \subseteq RowsOf(w[1])
      /\ \A r \in ToSet(buckets'[w][Main]) : TableOf(r) = Main
      /\ \A r \in Held(w)' : TableOf(r) = Main => w[2] = (KeyHash[r] % N) + 1
  BY <1>1, <1>4 DEF ThreadInOrder
<1>9. QED BY <1>2, <1>4, <1>5, <1>6, <1>7, <1>8 DEF ThreadInOrder

(* Two writers of a pass hold rows of different keys; while no pass has    *)
(* failed so do any two writers.                                           *)
LEMMA KeysApart ==
  ASSUME HasPk, OrderInv, NEW v \in Writers, NEW w \in Writers, v # w, v[1] = w[1] \/ NoErr,
         NEW r \in Held(w), NEW s \in Held(v), TableOf(r) = Main, TableOf(s) = Main
  PROVE  r.key # s.key
<1>1. v[1] = w[1]
  <2>1. CASE NoErr
    <3>1. w[1] = pass /\ v[1] = pass
      BY <2>1, OthersHoldNothing
    <3>2. QED BY <3>1
  <2>2. QED BY <2>1
<1>2. v[2] # w[2]
  BY <1>1, WritersArePairs
<1>3. /\ w[2] = (KeyHash[r] % N) + 1 /\ v[2] = (KeyHash[s] % N) + 1
      /\ r \in RowsOf(w[1]) /\ s \in RowsOf(v[1])
  BY DEF OrderInv, ThreadInOrder
<1>4. r \in Rows /\ s \in Rows
  BY <1>3, WritersArePairs, RowsTyped
<1>5. QED BY <1>2, <1>3, <1>4, SourceAssumption

(* What a batch adds to the main table. *)
LEMMA BatchSeen ==
  ASSUME OrderInv, NEW w \in Writers, NoErr' => NoErr, NEW v \in Writers,
         ToSet(target'[Main]) = ToSet(target[Main]) \cup ToSet(buckets[w][Main]),
         NEW r \in Seen(v[1])', r \notin Seen(v[1])
  PROVE  r \in ToSet(buckets[w][Main]) /\ (v[1] = w[1] \/ NoErr)
<1>1. r \in ToSet(buckets[w][Main]) /\ (r \in RowsOf(v[1]) \/ NoErr)
  BY DEF Seen
<1>2. r \in RowsOf(w[1]) /\ v[1] \in Passes /\ w[1] \in Passes /\ Passes = 1..MaxPasses
  BY <1>1, WritersArePairs DEF OrderInv, ThreadInOrder, Held, Passes
<1>3. r \in RowsOf(v[1]) => v[1] = w[1]
  BY <1>2, RowsApart
<1>4. QED BY <1>1, <1>3

(* A batch written, for the first time or again, leaves the writers in     *)
(* order.                                                                  *)
LEMMA BatchInOrder ==
  ASSUME HasPk, OrderInv, NEW w \in Writers, thread[w] # "unborn",
         UNCHANGED jobVars, UNCHANGED <<chan, buckets>>,
         ToSet(target'[Main]) = ToSet(target[Main]) \cup ToSet(buckets[w][Main]),
         NEW v \in Writers
  PROVE  ThreadInOrder(v)'
<1>1. /\ (NoErr' <=> NoErr) /\ Ahead' = Ahead /\ UNCHANGED <<pass, job>>
      /\ ThreadInOrder(v) /\ ThreadInOrder(w) /\ Held(v)' = Held(v) /\ NoBuckets' = NoBuckets
  BY AheadKept DEF jobVars, OrderInv, Held, NoBuckets
<1>2. ASSUME NEW r \in Seen(v[1])', r \notin Seen(v[1])
      PROVE  /\ r \in ToSet(buckets[w][Main]) /\ TableOf(r) = Main /\ r \in Rows
             /\ v = w \/ \A s \in Held(v) : TableOf(s) = Main => s.key # r.key
  <2>1. r \in ToSet(buckets[w][Main]) /\ (v[1] = w[1] \/ NoErr)
    BY <1>1, <1>2, BatchSeen
  <2>2. TableOf(r) = Main /\ r \in Held(w) /\ r \in Rows
    BY <1>1, <2>1, WritersArePairs, RowsTyped DEF ThreadInOrder, Held
  <2>3. QED BY <2>1, <2>2, KeysApart
<1>3. OlderThan(Seen(v[1])', ToSet(chan[v]))
  <2> SUFFICES ASSUME NEW r \in Seen(v[1])', NEW s \in ToSet(chan[v]) PROVE Older(r, s)
    BY DEF OlderThan
  <2>1. CASE r \in Seen(v[1])
    BY <1>1, <2>1 DEF ThreadInOrder, OlderThan
  <2>2. CASE r \notin Seen(v[1]) /\ v = w
    BY <1>1, <1>2, <2>2 DEF ThreadInOrder, OlderThan
  <2>3. CASE r \notin Seen(v[1]) /\ v # w
    BY <1>2, <2>3 DEF Older, Held
  <2>4. QED BY <2>1, <2>2, <2>3
<1>4. ASSUME NEW r \in Seen(v[1])' PROVE Outdone(r, ToSet(buckets[v][Main]))
  <2>1. CASE r \in Seen(v[1])
    BY <1>1, <2>1 DEF ThreadInOrder
  <2>2. CASE r \notin Seen(v[1]) /\ v = w
    BY <1>2, <1>4, <2>2, SourceAssumption DEF Outdone
  <2>3. CASE r \notin Seen(v[1]) /\ v # w
    BY <1>1, <1>2, <1>4, <2>3 DEF Outdone, ThreadInOrder, Held
  <2>4. QED BY <2>1, <2>2, <2>3
<1>5. QED BY <1>1, <1>3, <1>4 DEF ThreadInOrder

LEMMA BatchTarget ==
  ASSUME OrderInv, NEW w \in Writers, thread[w] # "unborn", UNCHANGED jobVars,
         target'[Main] = target[Main] \o buckets[w][Main]
  PROVE  TargetInOrder'
<1> DEFINE T == target[Main]
           B == buckets[w][Main]
<1>1. /\ T \in Seq(Rows) /\ B \in Seq(Rows) /\ ToSet(T \o B) = ToSet(T) \cup ToSet(B)
      /\ w[1] \in Passes /\ ~(w[1] > pass) /\ pass \in 0..MaxPasses /\ Passes = 1..MaxPasses
      /\ TargetInOrder /\ ThreadInOrder(w) /\ MaxPasses \in Nat
  <2>1. T \in Seq(Rows) /\ B \in Seq(Rows)
    BY Types, PoolAssumption DEF OrderInv, RowsInv, ControlInv
  <2>2. ToSet(T \o B) = ToSet(T) \cup ToSet(B)
    BY <2>1, ToSetConcat
  <2>3. QED BY <2>1, <2>2, Types, WritersArePairs DEF OrderInv, RowsInv, ControlInv, TypeInv, Unborn
<1>2. /\ (NoErr' <=> NoErr) /\ Ahead' = Ahead /\ UNCHANGED <<pass, job>>
  BY AheadKept DEF jobVars
<1>3. /\ ToSet(B) \subseteq RowsOf(w[1]) /\ ToSet(B) \subseteq Held(w) /\ Sorted(B)
      /\ \A r \in ToSet(B) : TableOf(r) = Main
      /\ \A r \in Seen(w[1]) : Outdone(r, ToSet(B))
      /\ ToSet(B) \subseteq Rows /\ w[1] \in 1..pass
  BY <1>1, ToSetIn DEF ThreadInOrder, Held
<1>4. \A r \in ToSet(target'[Main]) :
         /\ TableOf(r) = Main
         /\ r \in ToSet(Prior[Main]) \/ \E p \in 1..pass : r \in RowsOf(p)
  BY <1>1, <1>3 DEF TargetInOrder
<1>5. ASSUME job.step # "idle", NEW r \in Seen(pass)' PROVE OlderThan({r}, Ahead)
  <2>1. CASE r \in Seen(pass)
    BY <1>1, <1>5, <2>1 DEF TargetInOrder, OlderThan
  <2>2. CASE r \notin Seen(pass)
    <3>1. pass \in Passes
      BY <1>5 DEF OrderInv, RowsInv, ControlInv, TypeInv, PassRuns
    <3>2. r \in ToSet(B) /\ (r \in RowsOf(pass) \/ NoErr)
      BY <1>1, <1>2, <1>5, <2>2 DEF Seen
    <3>3. w[1] = pass
      <4>1. CASE NoErr
        BY <1>3, <3>2, <4>1, OthersHoldNothing
      <4>2. CASE r \in RowsOf(pass)
        BY <1>1, <1>3, <3>1, <3>2, <4>2, RowsApart
      <4>3. QED BY <3>2, <4>1, <4>2
    <3>4. QED BY <1>1, <1>3, <1>5, <3>2, <3>3 DEF ThreadInOrder, OlderThan
  <2>3. QED BY <2>1, <2>2
<1>6. ASSUME NEW p \in Passes PROVE NewestLast(T \o B, RowsOf(p))
  <2>1. NewestLast(T, RowsOf(p))
    BY <1>1 DEF TargetInOrder
  <2>2. CASE p = w[1]
    <3>1. \A r \in ToSet(T) \cap RowsOf(p) : Outdone(r, ToSet(B))
      BY <1>3, <2>2 DEF Seen
    <3>2. QED BY <1>1, <1>3, <2>1, <2>2, <3>1, BatchKeepsNewest
  <2>3. CASE p # w[1]
    <3>1. ToSet(B) \cap RowsOf(p) = {}
      BY <1>1, <1>3, <2>3, RowsApart
    <3>2. QED BY <1>1, <1>3, <2>1, <3>1, BatchKeepsNewest
  <2>4. QED BY <2>2, <2>3
<1>7. ASSUME NoErr PROVE NewestLast(T \o B, Rows)
  <2>1. NewestLast(T, Rows)
    BY <1>1, <1>7 DEF TargetInOrder
  <2>2. \A r \in ToSet(T) \cap Rows : Outdone(r, ToSet(B))
    BY <1>3, <1>7 DEF Seen
  <2>3. QED BY <1>1, <1>3, <2>1, <2>2, BatchKeepsNewest
<1>8. job.step # "idle" => OlderThan(Seen(pass)', Ahead)
  BY <1>5 DEF OlderThan
<1>9. QED BY <1>2, <1>4, <1>6, <1>7, <1>8 DEF TargetInOrder

LEMMA WriterOrderStep ==
  ASSUME HasPk, OrderInv, NEW w \in Writers, WriterStep(w)
  PROVE  JobInOrder' /\ TargetInOrder' /\ \A v \in Writers : ThreadInOrder(v)'
<1>1. /\ TypeInv /\ CallCarries /\ JobInOrder /\ TargetInOrder /\ OthersAlone(w)
      /\ UNCHANGED jobVars /\ thread[w] # "unborn" /\ Main \in Tables
      /\ target \in [Tables -> Seq(Rows)]
  BY RunningThreads, Types, PoolAssumption DEF OrderInv, RowsInv, ControlInv, OthersAlone
<1>2. /\ NoErr' <=> NoErr
      /\ Ahead' = Ahead
      /\ UNCHANGED <<pass, job>>
      /\ \A v \in Writers : ThreadInOrder(v)
      /\ \A v \in Writers \ {w} : chan'[v] = chan[v] /\ buckets'[v] = buckets[v]
  BY <1>1, AheadKept DEF jobVars, OrderInv, OthersAlone
<1>3. JobInOrder'
  BY <1>1, <1>2 DEF JobInOrder, Later
<1>4. ASSUME NEW v \in Writers, chan'[v] = chan[v], buckets'[v] = buckets[v],
             ToSet(target'[Main]) \subseteq ToSet(target[Main])
      PROVE  ThreadInOrder(v)'
  <2>1. Seen(v[1])' \subseteq Seen(v[1])
    BY <1>2, <1>4 DEF Seen
  <2>2. v[1] = pass /\ job.step # "idle" => OlderThan(Held(v), Ahead)
    BY <1>2 DEF ThreadInOrder
  <2>3. QED BY <1>2, <1>4, <2>1, <2>2, ThreadKept
<1>5. ASSUME target'[Main] \in {target[Main], <<>>} PROVE TargetInOrder'
  <2>1. ToSet(target'[Main]) \subseteq ToSet(target[Main])
    BY <1>5, ToSetEmpty
  <2>2. \A R : NewestLast(<<>>, R)
    BY DEF NewestLast
  <2>3. Seen(pass)' \subseteq Seen(pass)
    BY <1>2, <2>1 DEF Seen
  <2>4. job.step # "idle" => OlderThan(Seen(pass)', Ahead)
    BY <1>1, <2>3 DEF TargetInOrder, OlderThan
  <2>5. QED BY <1>1, <1>2, <1>5, <2>1, <2>2, <2>4 DEF TargetInOrder
<1>6. CASE Recv(w) \/ Written(w)
  <2>1. UNCHANGED target
    BY <1>6 DEF Recv, Written
  <2>2. ThreadInOrder(w)'
    BY <1>6, RecvInOrder, WrittenInOrder
  <2>3. QED BY <1>2, <1>3, <1>4, <1>5, <2>1, <2>2
<1>7. CASE Disconnect(w) \/ Drain(w)
  BY <1>1, <1>3, <1>4, <1>5, <1>7, DisconnectDoes, DrainDoes
<1>8. CASE InWriteBatch(w)
  <2> DEFINE c == call[w]
  <2>1. /\ UNCHANGED <<chan, buckets>> /\ c.table \in Tables
        /\ c.rows = buckets[w][c.table]
    BY <1>1, <1>8, InWriteBatchDoes DEF CallCarries
  <2>2. \/ target'[Main] = target[Main]
        \/ target'[Main] = <<>>
        \/ target'[Main] = target[Main] \o buckets[w][Main]
    <3>1. target' \in {target, [target EXCEPT ![c.table] = <<>>],
                               [target EXCEPT ![c.table] = @ \o c.rows]}
      BY <1>1, <1>8, WriteStepDoes
    <3>2. QED BY <1>1, <2>1, <3>1
  <2>3. CASE target'[Main] \in {target[Main], <<>>}
    <3>1. ToSet(target'[Main]) \subseteq ToSet(target[Main])
      BY <2>3, ToSetEmpty
    <3>2. QED BY <1>3, <1>4, <1>5, <2>1, <2>3, <3>1
  <2>4. CASE target'[Main] = target[Main] \o buckets[w][Main]
    <3>1. ToSet(target'[Main]) = ToSet(target[Main]) \cup ToSet(buckets[w][Main])
      <4>1. target[Main] \in Seq(Rows) /\ buckets[w][Main] \in Seq(Rows)
        BY <1>1, Types
      <4>2. QED BY <2>4, <4>1, ToSetConcat
    <3>2. TargetInOrder'
      BY <1>1, <2>4, BatchTarget
    <3>3. \A v \in Writers : ThreadInOrder(v)'
      BY <1>1, <2>1, <3>1, BatchInOrder
    <3>4. QED BY <1>3, <3>2, <3>3
  <2>5. QED BY <2>2, <2>3, <2>4
<1>9. QED BY <1>6, <1>7, <1>8 DEF WriterStep

LEMMA OrderStep ==
  ASSUME HasPk, OrderInv, [PoolNext]_poolVars
  PROVE  OrderInv'
<1>1. /\ RowsInv' /\ PassesOver' /\ RowsInv
      /\ NoErr' => NoErr
  BY RowsStep, PassesOverStep, NoErrBefore DEF OrderInv, RowsInv
<1>2. CASE UNCHANGED poolVars
  <2>1. /\ JobInOrder' <=> JobInOrder
        /\ TargetInOrder' <=> TargetInOrder
    BY <1>2 DEF poolVars, JobInOrder, TargetInOrder, Ahead, Later, Seen, NoErr
  <2>2. \A w \in Writers : ThreadInOrder(w)' <=> ThreadInOrder(w)
    BY <1>2 DEF poolVars, ThreadInOrder, Held, Ahead, Later, Seen, NoErr, NoBuckets
  <2>3. QED BY <1>1, <2>1, <2>2 DEF OrderInv
<1>3. CASE JobStep
  <2>1. JobInOrder' /\ TargetInOrder' /\ \A w \in Writers : ThreadInOrder(w)'
    BY <1>1, <1>3, JobOrderStep, JobTargetStep, JobThreadsStep DEF OrderInv
  <2>2. QED BY <1>1, <2>1 DEF OrderInv
<1>4. CASE \E w \in Writers : WriterStep(w)
  BY <1>1, <1>4, WriterOrderStep DEF OrderInv
<1>5. QED BY <1>2, <1>3, <1>4 DEF PoolNext, AllDone

LEMMA OrderInit ==
  ASSUME PoolInit
  PROVE  OrderInv
<1>1. /\ pass = 0 /\ job.step = "idle" /\ target = Prior /\ Passes \subseteq Nat \ {0}
      /\ \A w \in Writers : chan[w] = <<>> /\ buckets[w][Main] = <<>> /\ buckets[w] = NoBuckets
  BY PoolAssumption DEF PoolInit, Idle, W!WriterInit, NoBuckets, Passes
<1>2. /\ RowsInv /\ JobInOrder
  BY <1>1, RowsInit DEF JobInOrder
<1>3. PassesOver
  BY <1>1 DEF PassesOver
<1>4. TargetInOrder
  <2>1. /\ Main \in Tables /\ NewestLast(Prior[Main], Rows)
        /\ \A r \in ToSet(Prior[Main]) : TableOf(r) = Main
    BY PoolAssumption, SourceAssumption
  <2>2. \A p \in Passes : NewestLast(Prior[Main], RowsOf(p))
    <3>1. \A p \in Passes : \A i \in DOMAIN Prior[Main] : Prior[Main][i] \notin RowsOf(p)
      BY <2>1, RowsApart DEF ToSet
    <3>2. QED BY <3>1 DEF NewestLast
  <2>3. QED BY <1>1, <2>1, <2>2 DEF TargetInOrder
<1>5. \A w \in Writers : ThreadInOrder(w)
  BY <1>1, ToSetEmpty, SortedEmpty DEF ThreadInOrder, Held, OlderThan, Outdone
<1>6. QED BY <1>2, <1>3, <1>4, <1>5 DEF OrderInv

LEMMA OrderHolds ==
  ASSUME HasPk
  PROVE  PoolSpec => []OrderInv
BY OrderInit, OrderStep, PTL DEF PoolSpec

(* Within a pass the last version of a row that is written is the newest,  *)
(* whatever the interleaving of the writers, their retries and the writers *)
(* that a failed pass has left behind.                                     *)
THEOREM KeyOrderHolds == PoolSpec => []KeyOrder
<1>1. CASE HasPk
  <2>1. OrderInv => KeyOrder
    BY DEF OrderInv, TargetInOrder, KeyOrder, NewestLast
  <2>2. QED BY <1>1, <2>1, OrderHolds, PTL
<1>2. CASE ~HasPk
  <2>1. KeyOrder
    BY <1>2 DEF KeyOrder
  <2>2. QED BY <2>1, PTL
<1>3. QED BY <1>1, <1>2

(* While no pass has failed, the last version of a row that is written is  *)
(* the newest of all, the versions of earlier passes and of before the     *)
(* first pass included.                                                    *)
THEOREM NewestStaysOnTop == PoolSpec => []NewestOnTopAfterOk
<1>1. CASE HasPk
  <2>1. OrderInv => NewestOnTopAfterOk
    BY DEF OrderInv, TargetInOrder, NewestOnTopAfterOk, NewestLast, NoErr
  <2>2. QED BY <1>1, <2>1, OrderHolds, PTL
<1>2. CASE ~HasPk
  <2>1. NewestOnTopAfterOk
    BY <1>2 DEF NewestOnTopAfterOk
  <2>2. QED BY <2>1, PTL
<1>3. QED BY <1>1, <1>2

-----------------------------------------------------------------------------
(* How often a row is written.  Before it is handed to write_batch a row   *)
(* is in one place and not in the target; while its batch is retried every *)
(* copy in the target is one of a call that failed.                        *)

InBuckets(w) == UNION {ToSet(buckets[w][t]) : t \in Tables}
HeldAll(w) == ToSet(chan[w]) \cup InBuckets(w)

ThreadApart(w) ==
    /\ HeldAll(w) \subseteq RowsOf(w[1])
    /\ IsInjective(chan[w]) /\ \A t \in Tables : IsInjective(buckets[w][t])
    /\ ToSet(chan[w]) \cap InBuckets(w) = {}
    /\ w[1] = pass /\ job.step # "idle" => HeldAll(w) \cap Ahead = {}
    /\ w[1] > pass => HeldAll(w) = {}

WritersApart ==
    \A v, w \in Writers : v # w => HeldAll(v) \cap HeldAll(w) = {}

NotYetWritten ==
    \A t \in Tables :
        /\ \A r \in ToSet(target[t]) : r \in ToSet(Prior[t]) \/ \E p \in 1..pass : r \in RowsOf(p)
        /\ job.step # "idle" => ToSet(target[t]) \cap Ahead = {}
        /\ \A w \in Writers : ToSet(target[t]) \cap ToSet(chan[w]) = {}

Acknowledged(w, t) == call[w] # W!NoCall /\ call[w].table = t /\ call[w].step = "ok"

CopiesCounted ==
    \A t \in Tables : \A row \in Rows \ ToSet(Prior[t]) :
        /\ Copies(target[t], row) <= 1 + faults
        /\ \A w \in Writers :
              row \in ToSet(buckets[w][t]) /\ ~Acknowledged(w, t) => Copies(target[t], row) <= faults

OnceInv ==
    /\ RowsInv /\ JobInOrder
    /\ \A w \in Writers : ThreadApart(w)
    /\ WritersApart /\ NotYetWritten /\ CopiesCounted

LEMMA CopiesOf ==
  ASSUME NEW T \in Seq(Rows), NEW row
  PROVE  /\ IsFiniteSet({i \in DOMAIN T : T[i] = row})
         /\ Copies(T, row) \in Nat /\ Copies(<<>>, row) = 0
         /\ row \notin ToSet(T) => Copies(T, row) = 0
<1>1. DOMAIN T = 1..Len(T) /\ Len(T) \in Nat
  BY LenProperties
<1>2. IsFiniteSet(1..Len(T))
  BY <1>1, FS_Interval
<1>3. IsFiniteSet({i \in DOMAIN T : T[i] = row})
  BY <1>1, <1>2, FS_Subset
<1>4. Copies(T, row) \in Nat
  BY <1>3, FS_CardinalityType DEF Copies
<1>5. Cardinality({}) = 0
  BY FS_EmptySet
<1>6. {i \in DOMAIN <<>> : <<>>[i] = row} = {}
  OBVIOUS
<1>7. row \notin ToSet(T) => {i \in DOMAIN T : T[i] = row} = {}
  BY DEF ToSet
<1>8. QED BY <1>3, <1>4, <1>5, <1>6, <1>7 DEF Copies

(* Writing a batch in which no row occurs twice adds at most one copy. *)
LEMMA CopiesConcat ==
  ASSUME NEW T \in Seq(Rows), NEW B \in Seq(Rows), IsInjective(B), NEW row
  PROVE  /\ Copies(T \o B, row) <= Copies(T, row) + 1
         /\ row \notin ToSet(B) => Copies(T \o B, row) = Copies(T, row)
<1> DEFINE at == {i \in DOMAIN T : T[i] = row}
           new == {i \in DOMAIN (T \o B) : (T \o B)[i] = row}
<1>1. /\ Len(T) \in Nat /\ Len(B) \in Nat /\ DOMAIN T = 1..Len(T) /\ DOMAIN B = 1..Len(B)
      /\ DOMAIN (T \o B) = 1..(Len(T) + Len(B))
      /\ \A i \in 1..Len(T) : (T \o B)[i] = T[i]
      /\ \A i \in 1..Len(B) : (T \o B)[Len(T) + i] = B[i]
  BY ConcatProperties, LenProperties
<1>2. \A i \in 1..(Len(T) + Len(B)) : i \in 1..Len(T) \/ \E k \in 1..Len(B) : i = Len(T) + k
  <2> SUFFICES ASSUME NEW i \in 1..(Len(T) + Len(B)), i \notin 1..Len(T)
               PROVE  \E k \in 1..Len(B) : i = Len(T) + k
    OBVIOUS
  <2> WITNESS i - Len(T) \in 1..Len(B)
  <2> QED BY <1>1
<1>3. IsFiniteSet(at) /\ Cardinality(at) \in Nat /\ Copies(T, row) = Cardinality(at)
  BY CopiesOf DEF Copies
<1>4. Copies(T \o B, row) = Cardinality(new)
  BY DEF Copies
<1>5. CASE row \notin ToSet(B)
  <2>1. \A k \in 1..Len(B) : B[k] # row
    BY <1>1, <1>5 DEF ToSet
  <2>2. new = at
    <3>1. ASSUME NEW i \in new PROVE i \in at
      <4>1. CASE i \in 1..Len(T)
        BY <1>1, <4>1
      <4>2. CASE \E j \in 1..Len(B) : i = Len(T) + j
        BY <1>1, <2>1, <4>2 DEF IsInjective
      <4>3. QED BY <1>1, <1>2, <4>1, <4>2
    <3>2. \A i \in at : i \in new
      BY <1>1
    <3>3. QED BY <3>1, <3>2
  <2> HIDE DEF at, new
  <2>3. QED BY <1>3, <1>4, <2>2
<1>6. CASE row \in ToSet(B)
  <2>1. PICK k \in 1..Len(B) : B[k] = row
    BY <1>1, <1>6 DEF ToSet
  <2>2. new = at \cup {Len(T) + k}
    <3>1. ASSUME NEW i \in new PROVE i \in at \/ i = Len(T) + k
      <4>1. CASE i \in 1..Len(T)
        BY <1>1, <4>1
      <4>2. CASE \E j \in 1..Len(B) : i = Len(T) + j
        <5>1. PICK j \in 1..Len(B) : i = Len(T) + j
          BY <4>2
        <5>2. B[j] = row
          BY <1>1, <5>1
        <5>3. QED BY <1>1, <2>1, <5>1, <5>2 DEF IsInjective
      <4>3. QED BY <1>1, <1>2, <4>1, <4>2
    <3>2. \A i \in at : i \in new
      BY <1>1
    <3>3. Len(T) + k \in new
      BY <1>1, <2>1
    <3>4. QED BY <3>1, <3>2, <3>3
  <2>3. Len(T) + k \notin at
    BY <1>1
  <2>4. Cardinality(new) = Cardinality(at) + 1
    BY <1>3, <2>2, <2>3, FS_AddElement
  <2> HIDE DEF at, new
  <2>5. QED BY <1>3, <1>4, <1>6, <2>4
<1>7. QED BY <1>5, <1>6

(* What the job thread still has before it is nowhere else. *)
LEMMA AheadElsewhere ==
  ASSUME OnceInv, job.step # "idle", NEW r \in Ahead
  PROVE  /\ r \in RowsOf(pass) /\ r \in Rows
         /\ \A v \in Writers : r \notin HeldAll(v)
         /\ \A t \in Tables : r \notin ToSet(target[t])
<1>1. pass \in Passes /\ r \in RowsOf(pass) /\ r \in Rows
  BY RowsTyped DEF OnceInv, JobInOrder, RowsInv, ControlInv, TypeInv, PassRuns
<1>2. ASSUME NEW v \in Writers PROVE r \notin HeldAll(v)
  <2>1. ThreadApart(v) /\ v[1] \in Passes
    BY WritersArePairs DEF OnceInv
  <2>2. CASE v[1] = pass
    BY <2>1, <2>2 DEF ThreadApart
  <2>3. CASE v[1] # pass
    BY <1>1, <2>1, <2>3, RowsApart DEF ThreadApart
  <2>4. QED BY <2>2, <2>3
<1>3. QED BY <1>1, <1>2 DEF OnceInv, NotYetWritten

LEMMA SameHeld ==
  ASSUME NEW w \in Writers, chan'[w] = chan[w], buckets'[w] = buckets[w]
  PROVE  HeldAll(w)' = HeldAll(w) /\ InBuckets(w)' = InBuckets(w)
BY DEF HeldAll, InBuckets

(* A step of the job thread that sends nothing. *)
LEMMA JobApartStep ==
  ASSUME OnceInv, JobStep, UNCHANGED <<target, buckets, chan>>
  PROVE  (\A v \in Writers : ThreadApart(v)') /\ WritersApart' /\ NotYetWritten'
<1>1. /\ RowsInv /\ JobInOrder /\ WritersApart /\ NotYetWritten
      /\ \A v \in Writers : ThreadApart(v)
      /\ \A v \in Writers : HeldAll(v)' = HeldAll(v) /\ InBuckets(v)' = InBuckets(v)
      /\ pass \in 0..MaxPasses /\ MaxPasses \in Nat /\ Passes = 1..MaxPasses
  BY SameHeld, Types DEF OnceInv, RowsInv, ControlInv
<1>2. WritersApart'
  BY <1>1 DEF WritersApart
<1>3. CASE pass' = pass + 1 /\ pass' \in Passes
  <2>1. job'.step # "idle" => Ahead' \subseteq RowsOf(pass')
    BY <1>1, JobOrderStep DEF JobInOrder
  <2>2. ASSUME NEW v \in Writers PROVE ThreadApart(v)'
    <3>1. v[1] \in Nat /\ (v[1] = pass' => v[1] > pass) /\ (v[1] > pass' => v[1] > pass)
      BY <1>1, <1>3, WritersArePairs
    <3>2. ThreadApart(v)
      BY <1>1
    <3>3. QED BY <1>1, <3>1, <3>2 DEF ThreadApart
  <2>3. ASSUME NEW t \in Tables, job'.step # "idle", NEW r \in ToSet(target[t]) PROVE r \notin Ahead'
    <3>1. r \in ToSet(Prior[t]) \/ \E p \in 1..pass : r \in RowsOf(p)
      BY <1>1, <2>3 DEF NotYetWritten
    <3>2. \A p \in 1..pass : p \in Passes /\ p # pass'
      BY <1>1, <1>3
    <3>3. r \notin RowsOf(pass')
      BY <1>3, <2>3, <3>1, <3>2, RowsApart
    <3>4. QED BY <2>1, <2>3, <3>3
  <2>4. NotYetWritten'
    <3>1. 1..pass \subseteq 1..pass'
      BY <1>1, <1>3
    <3>2. QED BY <1>1, <2>3, <3>1 DEF NotYetWritten
  <2>5. QED BY <1>2, <2>2, <2>4
<1>4. CASE UNCHANGED pass /\ job.step # "idle"
  <2>1. job'.step # "idle" => Ahead' \subseteq Ahead
    BY <1>1, <1>4, JobOrderStep
  <2>2. ASSUME NEW v \in Writers PROVE ThreadApart(v)'
    <3>1. ThreadApart(v)
      BY <1>1
    <3>2. QED BY <1>1, <1>4, <2>1, <3>1 DEF ThreadApart
  <2>3. NotYetWritten'
    BY <1>1, <1>4, <2>1 DEF NotYetWritten
  <2>4. QED BY <1>2, <2>2, <2>3
<1>5. QED BY <1>1, <1>3, <1>4, JobMoves

(* A row that is sent moves from the job thread to one channel. *)
LEMMA SendApart ==
  ASSUME OnceInv, job.step # "idle", job.out # <<>>,
         NEW row \in Rows, row = Head(job.out), NEW w \in Writers, w[1] = pass,
         chan' = [chan EXCEPT ![w] = Append(@, row)], UNCHANGED <<target, buckets, pass>>,
         job'.out = Tail(job.out), job'.rows = job.rows, job'.page = job.page
  PROVE  (\A v \in Writers : ThreadApart(v)') /\ WritersApart' /\ NotYetWritten'
<1>1. /\ JobInOrder /\ WritersApart /\ NotYetWritten
      /\ \A v \in Writers : ThreadApart(v)
      /\ chan \in [Writers -> Seq(Rows)] /\ job.out \in Seq(Rows)
  BY Types DEF OnceInv, RowsInv, ControlInv, JobType
<1>2. /\ ToSet(job.out) = {row} \cup ToSet(job'.out) /\ row \in Ahead
      /\ Ahead' \subseteq Ahead
      /\ Ahead' = ToSet(job'.out) \cup OutputOf(job.rows) \cup Later(job.page)
  BY <1>1, ToSetHeadTail DEF Ahead, Later
<1>3. row \notin Ahead'
  <2>1. row \notin ToSet(job'.out)
    BY <1>1, SortedHead DEF JobInOrder, OlderThan, Older
  <2>2. row \notin OutputOf(job.rows) /\ row \notin Later(job.page)
    BY <1>1, <1>2 DEF JobInOrder, OlderThan, Older
  <2>3. QED BY <1>2, <2>1, <2>2
<1>4. /\ row \in RowsOf(pass)
      /\ \A v \in Writers : row \notin HeldAll(v)
      /\ \A t \in Tables : row \notin ToSet(target[t])
  BY <1>2, AheadElsewhere
<1>5. /\ chan'[w] = Append(chan[w], row) /\ chan[w] \in Seq(Rows)
      /\ \A v \in Writers \ {w} : chan'[v] = chan[v]
      /\ \A v \in Writers : InBuckets(v)' = InBuckets(v)
  BY <1>1 DEF InBuckets
<1>6. /\ ToSet(chan'[w]) = ToSet(chan[w]) \cup {row}
      /\ row \notin ToSet(chan[w]) => IsInjective(chan'[w])
  <2>1. \A s \in Seq(Rows) : /\ ToSet(Append(s, row)) = ToSet(s) \cup {row}
                             /\ IsInjective(s) /\ row \notin ToSet(s) => IsInjective(Append(s, row))
    BY ToSetAppend, InjectiveAppend
  <2>2. IsInjective(chan[w])
    BY <1>1 DEF ThreadApart
  <2>3. QED BY <1>5, <2>1, <2>2
<1>7. /\ HeldAll(w)' = HeldAll(w) \cup {row}
      /\ \A v \in Writers \ {w} : HeldAll(v)' = HeldAll(v)
  BY <1>5, <1>6 DEF HeldAll
<1>8. ASSUME NEW v \in Writers PROVE ThreadApart(v)'
  <2>1. ThreadApart(v)
    BY <1>1
  <2>2. CASE v # w
    BY <1>2, <1>5, <1>7, <2>1, <2>2 DEF ThreadApart
  <2>3. CASE v = w
    <3>1. row \notin ToSet(chan[w]) /\ row \notin InBuckets(w)
      BY <1>4 DEF HeldAll
    <3>2. /\ HeldAll(w)' \subseteq RowsOf(w[1])
          /\ HeldAll(w)' \cap Ahead' = {}
          /\ ToSet(chan'[w]) \cap InBuckets(w)' = {}
          /\ IsInjective(chan'[w])
      BY <1>2, <1>3, <1>4, <1>5, <1>6, <1>7, <2>1, <2>3, <3>1 DEF ThreadApart
    <3>3. ~(w[1] > pass)
      BY Types DEF OnceInv, RowsInv, ControlInv
    <3>4. QED BY <2>1, <2>3, <3>2, <3>3 DEF ThreadApart
  <2>4. QED BY <2>2, <2>3
<1>9. WritersApart'
  <2> SUFFICES ASSUME NEW v \in Writers, NEW u \in Writers, v # u
               PROVE  HeldAll(v)' \cap HeldAll(u)' = {}
    BY DEF WritersApart
  <2>1. HeldAll(v) \cap HeldAll(u) = {}
    BY <1>1 DEF WritersApart
  <2>2. /\ HeldAll(v)' = HeldAll(v) \/ (v = w /\ HeldAll(v)' = HeldAll(v) \cup {row})
        /\ HeldAll(u)' = HeldAll(u) \/ (u = w /\ HeldAll(u)' = HeldAll(u) \cup {row})
    BY <1>7
  <2>3. QED BY <1>4, <2>1, <2>2
<1>10. NotYetWritten'
  <2> SUFFICES ASSUME NEW t \in Tables
               PROVE  /\ \A r \in ToSet(target[t]) : r \in ToSet(Prior[t]) \/ \E p \in 1..pass : r \in RowsOf(p)
                      /\ ToSet(target[t]) \cap Ahead' = {}
                      /\ \A v \in Writers : ToSet(target[t]) \cap ToSet(chan'[v]) = {}
    BY DEF NotYetWritten
  <2>1. /\ \A r \in ToSet(target[t]) : r \in ToSet(Prior[t]) \/ \E p \in 1..pass : r \in RowsOf(p)
        /\ ToSet(target[t]) \cap Ahead = {}
        /\ \A v \in Writers : ToSet(target[t]) \cap ToSet(chan[v]) = {}
    BY <1>1 DEF NotYetWritten
  <2>2. \A v \in Writers : ToSet(chan'[v]) \subseteq ToSet(chan[v]) \cup {row}
    BY <1>5, <1>6
  <2>3. QED BY <1>2, <1>4, <2>1, <2>2
<1>11. QED BY <1>8, <1>9, <1>10

\* The number of failed calls never falls, and the job thread writes nothing.
LEMMA JobOnceStep ==
  ASSUME OnceInv, JobStep
  PROVE  OnceInv'
<1>1. /\ RowsInv /\ RowsInv' /\ JobInOrder' /\ UNCHANGED <<target, buckets, call>>
      /\ faults \in Nat /\ (faults' = faults \/ faults' = faults + 1)
      /\ job \in JobType /\ CopiesCounted /\ PoolTypeOK
      /\ \A t \in Tables : target[t] \in Seq(Rows)
  <2>1. faults' = faults \/ faults' = faults + 1
    BY DEF JobStep, StartPass, NextPage, RunEtl, SendRow, PageDone, Join, W!Fault, writerVars
  <2>2. UNCHANGED <<target, buckets, call>>
    BY DEF JobStep, StartPass, NextPage, RunEtl, SendRow, PageDone, Join, writerVars, threadVars
  <2>3. QED BY <2>1, <2>2, JobRowsStep, JobOrderStep, Types DEF OnceInv, RowsInv, ControlInv, TypeInv
<1>2. CopiesCounted'
  <2> SUFFICES ASSUME NEW t \in Tables, NEW row \in Rows \ ToSet(Prior[t])
               PROVE  /\ Copies(target[t], row) <= 1 + faults'
                      /\ \A w \in Writers :
                            row \in ToSet(buckets[w][t]) /\ ~Acknowledged(w, t) => Copies(target[t], row) <= faults'
    BY <1>1 DEF CopiesCounted, Acknowledged
  <2>1. Copies(target[t], row) \in Nat
    BY <1>1, CopiesOf
  <2>2. QED BY <1>1, <2>1 DEF CopiesCounted
<1>3. (\A v \in Writers : ThreadApart(v)') /\ WritersApart' /\ NotYetWritten'
  <2>1. CASE UNCHANGED chan
    BY <1>1, <2>1, JobApartStep
  <2>2. CASE ~UNCHANGED chan
    <3>1. /\ UNCHANGED pass /\ job.step # "idle" /\ pass \in Passes
          /\ job.out # <<>> /\ job'.page = job.page /\ job'.rows = job.rows
          /\ job'.out = Tail(job.out)
          /\ chan' = [chan EXCEPT ![<<pass, Route(Head(job.out))>>] = Append(@, Head(job.out))]
      BY <1>1, <2>2, JobMoves
    <3>2. PICK row \in Rows : row = Head(job.out)
      BY <1>1, <3>1, HeadTailProperties DEF JobType
    <3>3. PICK w \in Writers : w = <<pass, Route(row)>>
      <4>1. Route(row) \in 1..N
        BY <1>1, RouteTyped
      <4>2. QED BY <3>1, <4>1, WritersArePairs
    <3>4. chan' = [chan EXCEPT ![w] = Append(@, row)] /\ w[1] = pass
      BY <3>1, <3>2, <3>3
    <3>5. QED BY <1>1, <3>1, <3>2, <3>4, SendApart
  <2>3. QED BY <2>1, <2>2
<1>4. QED BY <1>1, <1>2, <1>3 DEF OnceInv

(* A step of a writer that takes no new rows leaves all writers apart. *)
LEMMA ThreadApartStep ==
  ASSUME OnceInv, NEW w \in Writers, OthersAlone(w), HeldAll(w)' \subseteq HeldAll(w),
         IsInjective(chan'[w]), \A t \in Tables : IsInjective(buckets'[w][t]),
         ToSet(chan'[w]) \cap InBuckets(w)' = {}
  PROVE  (\A v \in Writers : ThreadApart(v)') /\ WritersApart'
<1>1. /\ \A v \in Writers : ThreadApart(v)
      /\ WritersApart /\ Ahead' = Ahead /\ UNCHANGED <<pass, job>>
      /\ \A v \in Writers \ {w} : chan'[v] = chan[v] /\ buckets'[v] = buckets[v]
  BY AheadKept DEF OnceInv, OthersAlone, jobVars
<1>2. \A v \in Writers \ {w} : HeldAll(v)' = HeldAll(v) /\ InBuckets(v)' = InBuckets(v)
  BY <1>1, SameHeld
<1>3. \A v \in Writers : HeldAll(v)' \subseteq HeldAll(v)
  BY <1>2
<1>4. WritersApart'
  BY <1>1, <1>3 DEF WritersApart
<1>5. ASSUME NEW v \in Writers PROVE ThreadApart(v)'
  <2>1. ThreadApart(v)
    BY <1>1
  <2>2. CASE v = w
    BY <1>1, <2>1, <2>2 DEF ThreadApart
  <2>3. CASE v # w
    BY <1>1, <1>2, <2>1, <2>3 DEF ThreadApart
  <2>4. QED BY <2>2, <2>3
<1>6. QED BY <1>4, <1>5

(* A step of a writer outside write_batch writes nothing. *)
LEMMA NotYetWrittenStep ==
  ASSUME OnceInv, NEW w \in Writers, OthersAlone(w), ToSet(chan'[w]) \subseteq ToSet(chan[w]),
         UNCHANGED target
  PROVE  NotYetWritten'
<1>1. /\ NotYetWritten /\ Ahead' = Ahead /\ UNCHANGED <<pass, job>>
      /\ \A v \in Writers : ToSet(chan'[v]) \subseteq ToSet(chan[v])
  BY AheadKept DEF OnceInv, OthersAlone, jobVars
<1>2. QED BY <1>1 DEF NotYetWritten

LEMMA RecvOnce ==
  ASSUME OnceInv, NEW w \in Writers, Recv(w)
  PROVE  (\A v \in Writers : ThreadApart(v)') /\ WritersApart' /\ NotYetWritten' /\ CopiesCounted'
<1>1. /\ TypeInv /\ ThreadApart(w) /\ CallOwned /\ CopiesCounted /\ NotYetWritten
      /\ chan[w] \in Seq(Rows) /\ chan[w] # <<>> /\ chan'[w] = Tail(chan[w])
      /\ UNCHANGED <<target, faults>> /\ thread[w] = "recv" /\ OthersAlone(w)
  BY Types, RecvDoes DEF OnceInv, RowsInv, ControlInv, TypeInv, Recv
<1>2. PICK row \in Rows : row = Head(chan[w])
  BY <1>1, HeadTailProperties
<1>3. PICK t \in Tables : t = TableOf(row)
  BY PoolAssumption DEF TableOf
<1>4. /\ ToSet(chan[w]) = {row} \cup ToSet(chan'[w])
      /\ buckets'[w][t] = Append(buckets[w][t], row)
      /\ ToSet(buckets'[w][t]) = ToSet(buckets[w][t]) \cup {row}
      /\ \A u \in Tables : u # t => buckets'[w][u] = buckets[w][u]
      /\ buckets[w][t] \in Seq(Rows)
  <2>1. buckets[w][t] \in Seq(Rows)
    BY <1>1, Types
  <2>2. QED BY <1>1, <1>2, <1>3, <2>1, RecvDoes
<1>5. InBuckets(w)' = InBuckets(w) \cup {row}
  <2>1. \A u \in Tables : ToSet(buckets'[w][u]) = IF u = t THEN ToSet(buckets[w][u]) \cup {row}
                                                           ELSE ToSet(buckets[w][u])
    BY <1>4
  <2>2. QED BY <2>1 DEF InBuckets
<1>6. IsInjective(chan'[w]) /\ row \notin ToSet(chan'[w])
  BY <1>1, <1>2, InjectiveTail DEF ThreadApart
<1>7. HeldAll(w)' \subseteq HeldAll(w) /\ row \in ToSet(chan[w]) /\ row \notin InBuckets(w)
  BY <1>1, <1>4, <1>5 DEF HeldAll, ThreadApart
<1>8. ToSet(chan'[w]) \cap InBuckets(w)' = {}
  BY <1>1, <1>4, <1>5, <1>6 DEF ThreadApart
<1>9. \A u \in Tables : IsInjective(buckets'[w][u])
  <2>1. \A u \in Tables : IsInjective(buckets[w][u])
    BY <1>1 DEF ThreadApart
  <2>2. row \notin ToSet(buckets[w][t])
    BY <1>7 DEF InBuckets
  <2>3. IsInjective(Append(buckets[w][t], row))
    BY <1>4, <2>1, <2>2, InjectiveAppend
  <2>4. QED BY <1>4, <2>1, <2>3
<1>10. (\A v \in Writers : ThreadApart(v)') /\ WritersApart'
  BY <1>1, <1>6, <1>7, <1>8, <1>9, ThreadApartStep
<1>11. NotYetWritten'
  BY <1>1, <1>4, NotYetWrittenStep
<1>12. CopiesCounted'
  <2> SUFFICES ASSUME NEW u \in Tables, NEW r \in Rows \ ToSet(Prior[u]), NEW v \in Writers
               PROVE  /\ Copies(target[u], r) <= 1 + faults
                      /\ r \in ToSet(buckets'[v][u]) /\ ~Acknowledged(v, u)' => Copies(target[u], r) <= faults
    BY <1>1 DEF CopiesCounted
  <2>1. Copies(target[u], r) <= 1 + faults
    BY <1>1 DEF CopiesCounted
  <2>2. ASSUME r \in ToSet(buckets'[v][u]), ~Acknowledged(v, u)'
        PROVE  Copies(target[u], r) <= faults
    <3>1. CASE r \in ToSet(buckets[v][u]) /\ ~Acknowledged(v, u)
      BY <1>1, <3>1 DEF CopiesCounted
    <3>2. CASE v # w
      BY <1>1, <2>2, <3>1, <3>2 DEF OthersAlone, Acknowledged
    <3>3. CASE v = w
      <4>1. ~Acknowledged(v, u)
        BY <1>1, <3>3 DEF CallOwned, Acknowledged
      <4>2. CASE r \notin ToSet(buckets[v][u])
        <5>1. r = row
          BY <1>4, <2>2, <3>3, <4>2
        <5>2. r \notin ToSet(target[u])
          BY <1>1, <1>7, <5>1 DEF NotYetWritten
        <5>3. target[u] \in Seq(Rows) /\ faults \in Nat
          BY <1>1, Types
        <5>4. Copies(target[u], r) = 0
          BY <5>2, <5>3, CopiesOf
        <5>5. QED BY <5>3, <5>4
      <4>3. QED BY <3>1, <4>1, <4>2
    <3>4. QED BY <3>2, <3>3
  <2>3. QED BY <2>1, <2>2
<1>13. QED BY <1>10, <1>11, <1>12

LEMMA WrittenOnce ==
  ASSUME OnceInv, NEW w \in Writers, Written(w)
  PROVE  (\A v \in Writers : ThreadApart(v)') /\ WritersApart' /\ NotYetWritten' /\ CopiesCounted'
<1>1. /\ TypeInv /\ ThreadApart(w) /\ CopiesCounted /\ OthersAlone(w)
      /\ UNCHANGED <<target, faults>> /\ call[w] # W!NoCall /\ call[w].table \in Tables
      /\ \/ /\ call[w].step = "ok" /\ UNCHANGED chan
            /\ \A t \in Tables : buckets'[w][t] = IF t = call[w].table THEN <<>> ELSE buckets[w][t]
         \/ /\ call[w].step = "err"
            /\ buckets'[w] = NoBuckets /\ chan'[w] = <<>>
  BY WrittenDoes DEF OnceInv, RowsInv, ControlInv
<1>2. /\ chan'[w] \in {chan[w], <<>>}
      /\ \A t \in Tables : buckets'[w][t] \in {buckets[w][t], <<>>}
      /\ \A t \in Tables : buckets'[w][t] # <<>> => ~Acknowledged(w, t)
  BY <1>1 DEF NoBuckets, Acknowledged
<1>3. /\ ToSet(<<>>) = {} /\ IsInjective(<<>>)
  BY ToSetEmpty DEF IsInjective
<1>4. /\ ToSet(chan'[w]) \subseteq ToSet(chan[w]) /\ IsInjective(chan'[w])
      /\ \A t \in Tables : IsInjective(buckets'[w][t])
      /\ \A t \in Tables : ToSet(buckets'[w][t]) \subseteq ToSet(buckets[w][t])
  BY <1>1, <1>2, <1>3 DEF ThreadApart
<1>5. InBuckets(w)' \subseteq InBuckets(w)
  BY <1>4 DEF InBuckets
<1>6. HeldAll(w)' \subseteq HeldAll(w) /\ ToSet(chan'[w]) \cap InBuckets(w)' = {}
  BY <1>1, <1>4, <1>5 DEF HeldAll, ThreadApart
<1>7. (\A v \in Writers : ThreadApart(v)') /\ WritersApart'
  BY <1>1, <1>4, <1>6, ThreadApartStep
<1>8. NotYetWritten'
  BY <1>1, <1>4, NotYetWrittenStep
<1>9. CopiesCounted'
  <2> SUFFICES ASSUME NEW u \in Tables, NEW r \in Rows \ ToSet(Prior[u]), NEW v \in Writers
               PROVE  /\ Copies(target[u], r) <= 1 + faults
                      /\ r \in ToSet(buckets'[v][u]) /\ ~Acknowledged(v, u)' => Copies(target[u], r) <= faults
    BY <1>1 DEF CopiesCounted
  <2>1. Copies(target[u], r) <= 1 + faults
    BY <1>1 DEF CopiesCounted
  <2>2. ASSUME r \in ToSet(buckets'[v][u]), ~Acknowledged(v, u)'
        PROVE  r \in ToSet(buckets[v][u]) /\ ~Acknowledged(v, u)
    <3>1. CASE v # w
      BY <1>1, <2>2, <3>1 DEF OthersAlone, Acknowledged
    <3>2. CASE v = w
      BY <1>2, <1>3, <1>4, <2>2, <3>2
    <3>3. QED BY <3>1, <3>2
  <2>3. QED BY <1>1, <2>1, <2>2 DEF CopiesCounted
<1>10. QED BY <1>7, <1>8, <1>9

(* The writer begins no call it has had acknowledged. *)
LEMMA QuietOnce ==
  ASSUME OnceInv, NEW w \in Writers, Disconnect(w) \/ Drain(w)
  PROVE  (\A v \in Writers : ThreadApart(v)') /\ WritersApart' /\ NotYetWritten' /\ CopiesCounted'
<1>1. /\ TypeInv /\ ThreadApart(w) /\ CopiesCounted /\ OthersAlone(w) /\ CallOwned
      /\ UNCHANGED <<target, faults, chan, buckets>>
      /\ call[w] = W!NoCall
  <2>1. TypeInv /\ ThreadApart(w) /\ CopiesCounted /\ CallOwned
    BY DEF OnceInv, RowsInv, ControlInv, TypeInv
  <2>2. QED BY <2>1, DisconnectDoes, DrainDoes DEF CallOwned
<1>2. HeldAll(w)' = HeldAll(w) /\ InBuckets(w)' = InBuckets(w)
  BY <1>1, SameHeld
<1>3. (\A v \in Writers : ThreadApart(v)') /\ WritersApart'
  BY <1>1, <1>2, ThreadApartStep DEF ThreadApart
<1>4. NotYetWritten'
  BY <1>1, NotYetWrittenStep
<1>5. \A v \in Writers : \A t \in Tables : Acknowledged(v, t) => Acknowledged(v, t)'
  BY <1>1 DEF OthersAlone, Acknowledged
<1>6. CopiesCounted'
  BY <1>1, <1>5 DEF CopiesCounted
<1>7. QED BY <1>3, <1>4, <1>6

(* A batch is acknowledged once, and written again only for a call that    *)
(* failed.                                                                 *)
LEMMA CallCounts ==
  ASSUME TypeInv, NEW w \in Writers, InWriteBatch(w)
  PROVE  LET t == call[w].table
         IN  /\ call[w].step # "ok"
             /\ faults \in Nat /\ (faults' = faults \/ faults' = faults + 1)
             /\ \/ target' = target /\ call'[w].step # "ok"
                \/ target' = [target EXCEPT ![t] = <<>>] /\ call'[w].step # "ok"
                \/ /\ target' = [target EXCEPT ![t] = @ \o call[w].rows]
                   /\ call'[w].step = "ok" \/ faults' = faults + 1
<1>1. W!WriteStep(w) /\ faults \in Nat
  BY Types DEF InWriteBatch
<1>2. faults' = faults \/ faults' = faults + 1
  BY <1>1 DEF W!WriteStep, W!Mark, W!Truncate, W!Insert, W!Fault
<1>3. \/ faults' = faults + 1
      \/ W!Mark(w) \/ W!Truncate(w)
      \/ W!Goto(w, "ok") /\ target' = W!Applied(w)
  BY <1>1 DEF W!WriteStep, W!Insert, W!Fault
<1>4. call[w].step = "insert" => ~W!Mark(w) /\ ~W!Truncate(w)
  BY DEF W!Mark, W!Truncate, W!At
<1>5. W!Goto(w, "ok") => call'[w].step = "ok"
  <2>1. call[w] \in W!CallType /\ call[w] # W!NoCall /\ call \in [Writers -> W!CallType]
    BY Types, InWriteBatchDoes
  <2>2. QED BY <2>1 DEF W!Goto, W!CallType, W!NoCall
<1>6. call[w].step = "insert" => call'[w].step = "ok" \/ faults' = faults + 1
  BY <1>3, <1>4, <1>5
<1>7. QED BY <1>1, <1>2, <1>6, WriteStepDoes

(* Inside write_batch the rows of the batch stay in the writer's bucket;   *)
(* the target gains them at most once more for every call that failed.     *)
LEMMA CallOnce ==
  ASSUME OnceInv, NEW w \in Writers, InWriteBatch(w)
  PROVE  (\A v \in Writers : ThreadApart(v)') /\ WritersApart' /\ NotYetWritten' /\ CopiesCounted'
<1> DEFINE t == call[w].table
           B == buckets[w][t]
<1>1. /\ TypeInv /\ ThreadApart(w) /\ WritersApart /\ CopiesCounted /\ NotYetWritten
      /\ OthersAlone(w) /\ UNCHANGED <<chan, buckets, pass, job>>
      /\ t \in Tables /\ call[w] # W!NoCall /\ call'[w].table = t
      /\ call[w].rows = B /\ B \in Seq(Rows) /\ ToSet(B) \subseteq Rows /\ IsInjective(B)
      /\ target \in [Tables -> Seq(Rows)]
  <2>1. /\ RowsInv /\ TypeInv /\ ThreadApart(w) /\ WritersApart /\ CopiesCounted /\ NotYetWritten
    BY DEF OnceInv, RowsInv, ControlInv
  <2>2. /\ OthersAlone(w) /\ UNCHANGED <<chan, buckets, pass, job>>
        /\ t \in Tables /\ call[w] # W!NoCall /\ call'[w].table = t
    BY <2>1, InWriteBatchDoes DEF OthersAlone, jobVars
  <2>3. call[w].rows = B /\ B \in Seq(Rows) /\ target \in [Tables -> Seq(Rows)]
    BY <2>1, <2>2, Types DEF RowsInv, CallCarries
  <2>4. ToSet(B) \subseteq Rows /\ IsInjective(B)
    BY <2>1, <2>2, <2>3, ToSetIn DEF ThreadApart
  <2>5. QED BY <2>1, <2>2, <2>3, <2>4
<1>2. /\ call[w].step # "ok"
      /\ \/ target' = target /\ call'[w].step # "ok"
         \/ target' = [target EXCEPT ![t] = <<>>] /\ call'[w].step # "ok"
         \/ /\ target' = [target EXCEPT ![t] = @ \o B]
            /\ call'[w].step = "ok" \/ faults' = faults + 1
  BY <1>1, CallCounts
<1>11. faults \in Nat /\ faults' \in Nat /\ faults <= faults'
  <2>1. faults \in Nat /\ (faults' = faults \/ faults' = faults + 1)
    BY <1>1, CallCounts
  <2>2. QED BY <2>1
<1>3. /\ \A v \in Writers : HeldAll(v)' = HeldAll(v) /\ InBuckets(v)' = InBuckets(v)
      /\ Ahead' = Ahead
  BY <1>1, SameHeld, AheadKept DEF OthersAlone
<1>4. (\A v \in Writers : ThreadApart(v)') /\ WritersApart'
  BY <1>1, <1>3, ThreadApartStep DEF ThreadApart
<1>5. /\ ToSet(B) \subseteq RowsOf(w[1]) /\ w[1] \in 1..pass
      /\ job.step # "idle" => ToSet(B) \cap Ahead = {}
      /\ \A v \in Writers : ToSet(B) \cap ToSet(chan[v]) = {}
      /\ \A v \in Writers : \A u \in Tables :
            v # w => ToSet(B) \cap ToSet(buckets[v][u]) = {}
  <2>1. ToSet(B) \subseteq InBuckets(w) /\ InBuckets(w) \subseteq HeldAll(w)
    BY <1>1 DEF InBuckets, HeldAll
  <2>2. w[1] \in Passes /\ pass \in 0..MaxPasses /\ Passes = 1..MaxPasses /\ MaxPasses \in Nat
    BY <1>1, Types, WritersArePairs
  <2>3. w[1] \in 1..pass
    <3>1. thread[w] # "unborn"
      BY <1>1 DEF TypeInv, CallOwned
    <3>2. ~(w[1] > pass)
      BY <1>1, <3>1 DEF TypeInv, Unborn
    <3>3. QED BY <2>2, <3>2
  <2>4. job.step # "idle" => ToSet(B) \cap Ahead = {}
    BY <2>1, AheadElsewhere
  <2>5. ASSUME NEW v \in Writers, v # w
        PROVE  /\ ToSet(B) \cap ToSet(chan[v]) = {}
               /\ \A u \in Tables : ToSet(B) \cap ToSet(buckets[v][u]) = {}
    <3>1. HeldAll(w) \cap HeldAll(v) = {}
      BY <1>1, <2>5 DEF WritersApart
    <3>2. QED BY <2>1, <3>1 DEF HeldAll, InBuckets
  <2>6. ToSet(B) \cap ToSet(chan[w]) = {}
    BY <1>1, <2>1 DEF ThreadApart
  <2>7. QED BY <1>1, <2>1, <2>3, <2>4, <2>5, <2>6 DEF ThreadApart
<1>6. /\ \A u \in Tables : u # t => target'[u] = target[u]
      /\ target'[t] \in {target[t], <<>>, target[t] \o B}
      /\ target[t] \in Seq(Rows)
  BY <1>1, <1>2
<1>7. \A u \in Tables : ToSet(target'[u]) \subseteq ToSet(target[u]) \cup (IF u = t THEN ToSet(B) ELSE {})
  <2>1. ToSet(target[t] \o B) = ToSet(target[t]) \cup ToSet(B) /\ ToSet(<<>>) = {}
    BY <1>1, <1>6, ToSetConcat, ToSetEmpty
  <2>2. QED BY <1>6, <2>1
<1>8. NotYetWritten'
  <2> SUFFICES ASSUME NEW u \in Tables
               PROVE  /\ \A r \in ToSet(target'[u]) : r \in ToSet(Prior[u]) \/ \E p \in 1..pass : r \in RowsOf(p)
                      /\ job.step # "idle" => ToSet(target'[u]) \cap Ahead = {}
                      /\ \A v \in Writers : ToSet(target'[u]) \cap ToSet(chan[v]) = {}
    BY <1>1, <1>3 DEF NotYetWritten
  <2>1. /\ \A r \in ToSet(target[u]) : r \in ToSet(Prior[u]) \/ \E p \in 1..pass : r \in RowsOf(p)
        /\ job.step # "idle" => ToSet(target[u]) \cap Ahead = {}
        /\ \A v \in Writers : ToSet(target[u]) \cap ToSet(chan[v]) = {}
    BY <1>1 DEF NotYetWritten
  <2>2. ToSet(target'[u]) \subseteq ToSet(target[u]) \cup ToSet(B)
    BY <1>7
  <2>3. QED BY <1>5, <2>1, <2>2
<1>9. CopiesCounted'
  <2> SUFFICES ASSUME NEW u \in Tables, NEW r \in Rows \ ToSet(Prior[u])
               PROVE  /\ Copies(target'[u], r) <= 1 + faults'
                      /\ \A v \in Writers : r \in ToSet(buckets[v][u]) /\ ~Acknowledged(v, u)'
                                              => Copies(target'[u], r) <= faults'
    BY <1>1 DEF CopiesCounted
  <2>1. /\ Copies(target[u], r) <= 1 + faults /\ Copies(target[u], r) \in Nat
        /\ \A v \in Writers : r \in ToSet(buckets[v][u]) /\ ~Acknowledged(v, u)
                                 => Copies(target[u], r) <= faults
    BY <1>1, CopiesOf DEF CopiesCounted
  <2>2. /\ Copies(<<>>, r) = 0
        /\ Copies(target[t] \o B, r) <= Copies(target[t], r) + 1
        /\ r \notin ToSet(B) => Copies(target[t] \o B, r) = Copies(target[t], r)
    BY <1>1, <1>6, CopiesOf, CopiesConcat
  <2>3. Copies(target[t] \o B, r) \in Nat
    <3>1. target[t] \o B \in Seq(Rows)
      BY <1>1, <1>6, ConcatProperties
    <3>2. QED BY <3>1, CopiesOf
  <2>4. \A v \in Writers : ~Acknowledged(v, u)' /\ ~(v = w /\ u = t) => ~Acknowledged(v, u)
    BY <1>1 DEF OthersAlone, Acknowledged
  <2>5. ~Acknowledged(w, t)
    BY <1>2 DEF Acknowledged
  <2>6. CASE target'[u] = target[u]
    <3>1. \A v \in Writers : ~Acknowledged(v, u)' => ~Acknowledged(v, u)
      BY <2>4, <2>5
    <3>2. QED BY <1>11, <2>1, <2>6, <3>1
  <2>7. CASE target'[u] = <<>>
    <3>1. Copies(target'[u], r) = 0
      BY <2>2, <2>7
    <3>2. \A n \in Nat : 0 <= n /\ 0 <= 1 + n
      OBVIOUS
    <3>3. 0 <= 1 + faults' /\ 0 <= faults'
      BY <1>11, <3>2
    <3>4. QED BY <3>1, <3>3
  <2>8. CASE u = t /\ target'[u] # target[u] /\ target'[u] # <<>>
    <3>1. target'[u] = target[t] \o B /\ (call'[w].step = "ok" \/ faults' = faults + 1)
      BY <1>1, <1>2, <2>8
    <3>2. CASE r \in ToSet(B)
      <4>1. Copies(target[t], r) <= faults
        BY <2>1, <2>5, <2>8, <3>2
      <4>2. Copies(target'[u], r) <= 1 + faults
        <5>1. \A a, b \in Nat : a <= faults /\ b <= a + 1 => b <= 1 + faults
          BY <1>11
        <5>2. /\ Copies(target[t], r) \in Nat
              /\ Copies(target[t] \o B, r) \in Nat
              /\ Copies(target[t] \o B, r) <= Copies(target[t], r) + 1
          BY <2>1, <2>2, <2>3, <2>8
        <5>3. Copies(target[t] \o B, r) <= 1 + faults
          BY <4>1, <5>1, <5>2
        <5>4. QED BY <3>1, <5>3
      <4>3. ASSUME NEW v \in Writers, r \in ToSet(buckets[v][u]), ~Acknowledged(v, u)'
            PROVE  faults' = faults + 1
        <5>1. v = w
          BY <1>5, <3>2, <4>3
        <5>2. call'[w].step # "ok"
          BY <2>8, <4>3, <5>1, <1>1, InWriteBatchDoes DEF Acknowledged
        <5>3. QED BY <3>1, <5>2
      <4>4. Copies(target'[u], r) \in Nat
        BY <2>3, <3>1
      <4>5. Copies(target'[u], r) <= 1 + faults'
        BY <1>11, <4>2, <4>4
      <4>6. faults' = faults + 1 => Copies(target'[u], r) <= faults'
        BY <1>11, <4>2, <4>4
      <4>7. QED BY <4>3, <4>5, <4>6
    <3>3. CASE r \notin ToSet(B)
      <4>1. Copies(target'[u], r) = Copies(target[u], r)
        BY <2>2, <2>8, <3>1, <3>3
      <4>2. \A v \in Writers : r \in ToSet(buckets[v][u]) => v # w
        BY <2>8, <3>3
      <4>3. \A v \in Writers : r \in ToSet(buckets[v][u]) /\ ~Acknowledged(v, u)'
                                  => Copies(target[u], r) <= faults
        BY <2>1, <2>4, <4>2
      <4>4. Copies(target[u], r) <= faults => Copies(target[u], r) <= faults'
        BY <1>11, <2>1
      <4>5. Copies(target[u], r) <= 1 + faults'
        BY <1>11, <2>1
      <4>6. QED BY <4>1, <4>3, <4>4, <4>5
    <3>4. QED BY <3>2, <3>3
  <2>9. QED BY <1>6, <2>6, <2>7, <2>8
<1>10. QED BY <1>4, <1>8, <1>9

LEMMA OnceStep ==
  ASSUME OnceInv, [PoolNext]_poolVars
  PROVE  OnceInv'
<1>1. RowsInv' /\ JobInOrder
  BY RowsStep DEF OnceInv, RowsInv
<1>2. CASE UNCHANGED poolVars
  <2>1. /\ \A w \in Writers : ThreadApart(w)' <=> ThreadApart(w)
        /\ WritersApart' <=> WritersApart
    BY <1>2 DEF poolVars, ThreadApart, WritersApart, HeldAll, InBuckets, Ahead, Later
  <2>2. /\ JobInOrder' <=> JobInOrder
        /\ NotYetWritten' <=> NotYetWritten
        /\ CopiesCounted' <=> CopiesCounted
    BY <1>2 DEF poolVars, JobInOrder, NotYetWritten, CopiesCounted, Acknowledged, Ahead, Later
  <2>3. QED BY <1>1, <2>1, <2>2 DEF OnceInv
<1>3. CASE JobStep
  BY <1>3, JobOnceStep
<1>4. ASSUME NEW w \in Writers, WriterStep(w) PROVE OnceInv'
  <2>1. (\A v \in Writers : ThreadApart(v)') /\ WritersApart' /\ NotYetWritten' /\ CopiesCounted'
    BY <1>4, RecvOnce, WrittenOnce, QuietOnce, CallOnce DEF WriterStep
  <2>2. UNCHANGED jobVars
    BY <1>4 DEF WriterStep, Recv, Disconnect, Drain, InWriteBatch, Written
  <2>3. JobInOrder'
    BY <1>1, <2>2, AheadKept DEF jobVars, JobInOrder, Ahead, Later
  <2>4. QED BY <1>1, <2>1, <2>3 DEF OnceInv
<1>5. QED BY <1>2, <1>3, <1>4 DEF PoolNext, AllDone

LEMMA OnceInit ==
  ASSUME PoolInit
  PROVE  OnceInv
<1>1. /\ pass = 0 /\ job.step = "idle" /\ target = Prior /\ Passes \subseteq Nat \ {0}
      /\ \A w \in Writers : chan[w] = <<>> /\ buckets[w] = NoBuckets
      /\ Prior \in [Tables -> Seq(Rows)] /\ faults = 0
  BY PoolAssumption DEF PoolInit, Idle, W!WriterInit, Passes
<1>2. RowsInv /\ JobInOrder
  BY <1>1, RowsInit DEF JobInOrder
<1>3. \A w \in Writers : /\ chan[w] = <<>> /\ ToSet(chan[w]) = {} /\ InBuckets(w) = {} /\ HeldAll(w) = {}
                         /\ \A t \in Tables : buckets[w][t] = <<>> /\ ToSet(buckets[w][t]) = {}
  BY <1>1, ToSetEmpty DEF NoBuckets, InBuckets, HeldAll
<1>4. WritersApart /\ \A w \in Writers : ThreadApart(w)
  BY <1>1, <1>3 DEF WritersApart, ThreadApart, IsInjective
<1>5. NotYetWritten
  BY <1>1, <1>3 DEF NotYetWritten
<1>6. CopiesCounted
  <2>1. \A t \in Tables : \A row \in Rows \ ToSet(Prior[t]) : Copies(target[t], row) = 0
    BY <1>1, CopiesOf
  <2>2. QED BY <1>1, <1>3, <2>1 DEF CopiesCounted
<1>7. QED BY <1>2, <1>4, <1>5, <1>6 DEF OnceInv

(* A row is in its table once, and once more at most for each call that    *)
(* failed: neither the flush at the threshold and the final drain, nor two *)
(* writers, nor the writers of two passes write a row twice.               *)
THEOREM RowsWrittenOncePerFault == PoolSpec => []OncePerFault
<1>1. OnceInv => OncePerFault
  <2> SUFFICES ASSUME OnceInv, NEW t \in Tables, NEW row \in ToSet(target[t]) \ ToSet(Prior[t])
               PROVE  Copies(target[t], row) <= 1 + faults
    BY DEF OncePerFault
  <2>1. row \in Rows
    BY Types, ToSetIn DEF OnceInv, RowsInv, ControlInv
  <2>2. QED BY <2>1 DEF OnceInv, CopiesCounted
<1>2. QED BY <1>1, OnceInit, OnceStep, PTL DEF PoolSpec
=============================================================================
