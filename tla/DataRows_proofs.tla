--------------------------- MODULE DataRows_proofs ---------------------------
(***************************************************************************)
(* Proofs about the rows a job writes: that the statements of the plugins  *)
(* write alike and can be repeated, what the target tables hold, where the *)
(* details of a split go, and that a job which is set up well never fails. *)
(***************************************************************************)
EXTENDS DataPath_proofs

(* The upsert.                                                             *)

\* The rows over the columns C.
RowsOn(C, V) == [C -> V]

(* A row that is put into a table sets the rows of its key, or is a new    *)
(* row at the end.                                                         *)
IsSetBy(after, rows, new, key, update, C) ==
    /\ Len(after) = Len(rows)
    /\ \A i \in 1..Len(rows) : \A c \in C :
          after[i][c] = IF SameKey(rows[i], new, key) /\ c \in update THEN new[c] ELSE rows[i][c]

LEMMA PutSetsItsRows ==
  ASSUME NEW C, NEW V, NEW rows \in Seq(RowsOn(C, V)), NEW new \in RowsOn(C, V), NEW key, NEW update
  PROVE  /\ Put(rows, new, key, update) \in Seq(RowsOn(C, V))
         /\ IF \E i \in 1..Len(rows) : SameKey(rows[i], new, key)
            THEN IsSetBy(Put(rows, new, key, update), rows, new, key, update, C)
            ELSE Put(rows, new, key, update) = Append(rows, new)
<1> DEFINE after == Put(rows, new, key, update)
           found == \E i \in 1..Len(rows) : SameKey(rows[i], new, key)
           Set(i) == IF SameKey(rows[i], new, key)
                     THEN [c \in DOMAIN rows[i] |-> IF c \in update THEN new[c] ELSE rows[i][c]] ELSE rows[i]
<1>1. DOMAIN rows = 1..Len(rows) /\ Len(rows) \in Nat /\ \A i \in 1..Len(rows) : rows[i] \in RowsOn(C, V)
  BY LenProperties, ElementOfSeq
<1>2. CASE found
  <2>1. after = [i \in 1..Len(rows) |-> Set(i)]
    BY <1>1, <1>2 DEF Put
  <2>2. \A i \in 1..Len(rows) :
           /\ Set(i) \in RowsOn(C, V)
           /\ \A c \in C : Set(i)[c] = IF SameKey(rows[i], new, key) /\ c \in update THEN new[c] ELSE rows[i][c]
    BY <1>1 DEF RowsOn
  <2> HIDE DEF Set
  <2>3. after \in [1..Len(rows) -> RowsOn(C, V)]
    BY <2>1, <2>2
  <2>4. after \in Seq(RowsOn(C, V)) /\ Len(after) = Len(rows)
    <3> HIDE DEF after
    <3> QED BY <1>1, <2>3, FunctionIsSeq
  <2>5. \A i \in 1..Len(rows) : after[i] = Set(i)
    BY <2>1
  <2> HIDE DEF after
  <2>6. QED BY <1>2, <2>2, <2>4, <2>5 DEF after, IsSetBy
<1>3. CASE ~found
  <2>1. after = Append(rows, new)
    BY <1>1, <1>3 DEF Put
  <2>2. after \in Seq(RowsOn(C, V))
    BY <2>1, AppendProperties
  <2>3. QED BY <1>3, <2>1, <2>2
<1>4. QED BY <1>2, <1>3

(* The rows of a batch one after the other, as WithUpserts has them: f has *)
(* the rows of the table after each.                                       *)
Upserting(f, rows, new, N, key, update, plain) ==
    f = [n \in 0..N |->
            IF n = 0 THEN rows
            ELSE IF n \in plain THEN Append(f[n - 1], new[n]) ELSE Put(f[n - 1], new[n], key, update)]
Batches(C, V, rows, new, N, key) ==
    /\ rows \in Seq(RowsOn(C, V)) /\ N \in Nat /\ new \in [1..N -> RowsOn(C, V)]
    /\ key \subseteq C
NewRows(dialect, table, given) == [n \in 1..Len(given) |-> AsInserted(dialect, table, given[n])]

LEMMA UpsertsGoOn ==
  ASSUME NEW dialect, NEW table, NEW given, Len(given) \in Nat, NEW key, NEW update, NEW plain
  PROVE  \E f : /\ Upserting(f, table.rows, NewRows(dialect, table, given), Len(given), key, update, plain)
                /\ WithUpserts(dialect, table, given, key, update, plain) = f[Len(given)]
<1> DEFINE L == Len(given)
           new == NewRows(dialect, table, given)
<1> DEFINE Step(g, k) ==
      IF k = 0 THEN table.rows
      ELSE LET row == AsInserted(dialect, table, given[k])
           IN  IF k \in plain THEN Append(g[k - 1], row) ELSE Put(g[k - 1], row, key, update)
<1> DEFINE Solves(g, m) == g = [k \in 0..m |-> Step(g, k)]
<1>0. /\ 0 \in 0..L /\ L \in 0..L
      /\ \A m \in 0..(L - 1) : m \in Nat /\ m + 1 \in 0..L /\ m + 1 \in 1..L
      /\ \A m \in Nat : m + 1 # 0 /\ m + 1 - 1 = m /\ m \in 0..m /\ m + 1 \in 0..(m + 1)
      /\ \A k \in 0..L : k # 0 => k \in 1..L
  OBVIOUS
<1>1. \E g : Solves(g, L)
  <2> DEFINE H == {m \in 0..L : \E g : Solves(g, m)}
  <2>1. 0 \in H
    <3>1. Solves([k \in 0..0 |-> table.rows], 0)
      OBVIOUS
    <3> HIDE DEF Solves
    <3>2. QED BY <3>1, <1>0
  <2>2. ASSUME NEW m \in 0..(L - 1), m \in H PROVE m + 1 \in H
    <3>1. PICK g : Solves(g, m)
      BY <2>2
    <3> DEFINE h == [k \in 0..(m + 1) |-> IF k <= m THEN g[k] ELSE Step(g, m + 1)]
    <3>2. \A k \in 0..(m + 1) : h[k] = Step(h, k)
      <4> SUFFICES ASSUME NEW k \in 0..(m + 1) PROVE h[k] = Step(h, k)
        OBVIOUS
      <4>1. k # 0 => h[k - 1] = g[k - 1]
        BY <1>0
      <4>2. CASE k <= m
        <5>0. k \in 0..m
          BY <4>2, <1>0
        <5>1. g[k] = Step(g, k) /\ h[k] = g[k]
          <6> HIDE DEF Step
          <6> QED BY <3>1, <4>2, <5>0
        <5>2. QED BY <5>1, <4>1
      <4>3. CASE k = m + 1
        BY <4>1, <4>3, <1>0
      <4>4. QED BY <4>2, <4>3, <1>0
    <3>3. Solves(h, m + 1)
      <4> HIDE DEF Step
      <4> QED BY <3>2
    <3> HIDE DEF Solves
    <3>4. QED BY <3>3, <1>0
  <2>3. L \in H
    <3> HIDE DEF H
    <3>1. \A m \in 0..L : m \in H
      <4> HIDE DEF L
      <4> QED BY <2>1, <2>2, <1>0, InductionTo DEF L
    <3>2. QED BY <3>1, <1>0
  <2>4. QED BY <2>3
<1> DEFINE f == CHOOSE g : Solves(g, L)
<1>2. f = [k \in 0..L |-> Step(f, k)]
  <2>1. Solves(f, L)
    <3> HIDE DEF Solves
    <3> QED BY <1>1
  <2>2. QED BY <2>1
<1>3. WithUpserts(dialect, table, given, key, update, plain) = f[L]
  BY DEF WithUpserts
<1> HIDE DEF f
<1>4. \A k \in 0..L : Step(f, k) =
         IF k = 0 THEN table.rows
         ELSE IF k \in plain THEN Append(f[k - 1], new[k]) ELSE Put(f[k - 1], new[k], key, update)
  BY <1>0 DEF NewRows
<1>5. Upserting(f, table.rows, new, L, key, update, plain)
  <2> HIDE DEF Step, new, L
  <2> QED BY <1>2, <1>4 DEF Upserting
<1>6. QED BY <1>3, <1>5

\* After each row: the rows that were there are there, with their keys.
UpsertsFrom(f, rows, new, N, key, update, plain, C, V) ==
    /\ f[0] = rows
    /\ \A n \in 0..N : f[n] \in Seq(RowsOn(C, V)) /\ Len(f[n]) \in Nat
    /\ \A n \in 1..N : f[n] = IF n \in plain THEN Append(f[n - 1], new[n])
                              ELSE Put(f[n - 1], new[n], key, update)
    /\ \A n \in 0..N : \A m \in 0..n : \A p \in 1..Len(f[m]) :
          p \in 1..Len(f[n]) /\ \A c \in key : f[n][p][c] = f[m][p][c]

LEMMA KeysStay ==
  ASSUME NEW C, NEW V, NEW rows, NEW N, NEW new, NEW key, NEW update, NEW plain, NEW f,
         Batches(C, V, rows, new, N, key), Upserting(f, rows, new, N, key, update, plain)
  PROVE  UpsertsFrom(f, rows, new, N, key, update, plain, C, V)
<1>0. /\ rows \in Seq(RowsOn(C, V)) /\ N \in Nat /\ new \in [1..N -> RowsOn(C, V)]
      /\ key \subseteq C
  BY DEF Batches
<1> USE <1>0
<1>1. f[0] = rows
  BY DEF Upserting
<1>2. \A n \in 1..N : f[n] = IF n \in plain THEN Append(f[n - 1], new[n])
                             ELSE Put(f[n - 1], new[n], key, update)
  <2>1. \A n \in 1..N : n \in 0..N /\ n # 0
    OBVIOUS
  <2>2. QED BY <2>1 DEF Upserting
<1>3. ASSUME NEW n \in 0..(N - 1), f[n] \in Seq(RowsOn(C, V))
      PROVE  /\ f[n + 1] \in Seq(RowsOn(C, V))
             /\ \A p \in 1..Len(f[n]) : p \in 1..Len(f[n + 1]) /\ \A c \in key : f[n + 1][p][c] = f[n][p][c]
  <2>1. n + 1 \in 1..N /\ (n + 1) - 1 = n
    OBVIOUS
  <2>2. new[n + 1] \in RowsOn(C, V) /\ Len(f[n]) \in Nat
    BY <1>3, <2>1, LenProperties
  <2> DEFINE row == new[n + 1]
             g == f[n]
  <2>3. f[n + 1] = Append(g, row) \/ f[n + 1] = Put(g, row, key, update)
    BY <1>2, <2>1
  <2>4. row \in RowsOn(C, V) /\ g \in Seq(RowsOn(C, V)) /\ Len(g) \in Nat
    BY <1>3, <2>2
  <2> HIDE DEF row, g
  <2>put. /\ Put(g, row, key, update) \in Seq(RowsOn(C, V))
          /\ IF \E i \in 1..Len(g) : SameKey(g[i], row, key)
             THEN IsSetBy(Put(g, row, key, update), g, row, key, update, C)
             ELSE Put(g, row, key, update) = Append(g, row)
    BY <2>4, PutSetsItsRows
  <2>5. CASE f[n + 1] = Append(g, row)
    <3>1. /\ f[n + 1] \in Seq(RowsOn(C, V)) /\ Len(f[n + 1]) = Len(g) + 1
          /\ \A p \in 1..Len(g) : f[n + 1][p] = g[p]
      BY <2>4, <2>5, AppendProperties
    <3>2. \A p \in 1..Len(g) : p \in 1..(Len(g) + 1)
      BY <2>4
    <3>3. QED BY <3>1, <3>2 DEF g
  <2>6. CASE /\ f[n + 1] = Put(g, row, key, update)
             /\ \E i \in 1..Len(g) : SameKey(g[i], row, key)
    <3>1. /\ f[n + 1] \in Seq(RowsOn(C, V)) /\ Len(f[n + 1]) = Len(g)
          /\ \A i \in 1..Len(g) : \A c \in C :
                f[n + 1][i][c] = IF SameKey(g[i], row, key) /\ c \in update THEN row[c] ELSE g[i][c]
      BY <2>6, <2>put DEF IsSetBy
    <3>2. \A i \in 1..Len(g) : \A c \in key : SameKey(g[i], row, key) => g[i][c] = row[c]
      BY DEF SameKey
    <3>3. QED BY <3>1, <3>2 DEF g
  <2>7. QED BY <2>3, <2>5, <2>6, <2>put
<1>4. \A n \in 0..N : f[n] \in Seq(RowsOn(C, V))
  <2> DEFINE H == {n \in 0..N : f[n] \in Seq(RowsOn(C, V))}
  <2>1. 0 \in H
    BY <1>1
  <2>2. ASSUME NEW n \in 0..(N - 1), n \in H PROVE n + 1 \in H
    BY <1>3, <2>2
  <2> HIDE DEF H
  <2>3. \A n \in 0..N : n \in H
    BY <2>1, <2>2, InductionTo
  <2>4. QED BY <2>3 DEF H
<1>5. \A n \in 0..N : Len(f[n]) \in Nat
  BY <1>4, LenProperties
<1>6. \A n \in 0..N : \A m \in 0..n : \A p \in 1..Len(f[m]) :
         p \in 1..Len(f[n]) /\ \A c \in key : f[n][p][c] = f[m][p][c]
  <2> DEFINE H == {n \in 0..N : \A m \in 0..n : \A p \in 1..Len(f[m]) :
                      p \in 1..Len(f[n]) /\ \A c \in key : f[n][p][c] = f[m][p][c]}
  <2>1. 0 \in H
    OBVIOUS
  <2>2. ASSUME NEW n \in 0..(N - 1), n \in H PROVE n + 1 \in H
    <3>1. n + 1 \in 0..N /\ n \in 0..N /\ \A m \in 0..(n + 1) : m = n + 1 \/ m \in 0..n
      OBVIOUS
    <3>2. \A p \in 1..Len(f[n]) : p \in 1..Len(f[n + 1]) /\ \A c \in key : f[n + 1][p][c] = f[n][p][c]
      BY <1>3, <1>4, <3>1
    <3>3. QED BY <2>2, <3>1, <3>2
  <2> HIDE DEF H
  <2>3. \A n \in 0..N : n \in H
    BY <2>1, <2>2, InductionTo
  <2>4. QED BY <2>3 DEF H
<1>7. QED BY <1>1, <1>2, <1>4, <1>5, <1>6 DEF UpsertsFrom

(* Each row of the batch has a row of its key, and each row of the table   *)
(* has its key from the table as it was or from the batch.                 *)
LEMMA RowsOfBatch ==
  ASSUME NEW C, NEW V, NEW rows, NEW N, NEW new, NEW key, NEW update, NEW plain, NEW f,
         Batches(C, V, rows, new, N, key), Upserting(f, rows, new, N, key, update, plain)
  PROVE  /\ \A n \in 0..N : \A m \in 1..n : \E p \in 1..Len(f[n]) : \A c \in key : f[n][p][c] = new[m][c]
         /\ \A n \in 0..N : \A p \in 1..Len(f[n]) :
               \/ p \in 1..Len(rows)
               \/ \E m \in 1..n : \A c \in key : f[n][p][c] = new[m][c]
<1>0. /\ rows \in Seq(RowsOn(C, V)) /\ N \in Nat /\ new \in [1..N -> RowsOn(C, V)]
      /\ key \subseteq C
  BY DEF Batches
<1>k. UpsertsFrom(f, rows, new, N, key, update, plain, C, V)
  BY KeysStay
<1> USE <1>0
<1>1. /\ f[0] = rows /\ \A n \in 0..N : f[n] \in Seq(RowsOn(C, V)) /\ Len(f[n]) \in Nat
      /\ \A n \in 1..N : f[n] = IF n \in plain THEN Append(f[n - 1], new[n])
                                ELSE Put(f[n - 1], new[n], key, update)
      /\ \A n \in 0..N : \A m \in 0..n : \A p \in 1..Len(f[m]) :
            p \in 1..Len(f[n]) /\ \A c \in key : f[n][p][c] = f[m][p][c]
  BY <1>k DEF UpsertsFrom
<1>2. ASSUME NEW n \in 1..N
      PROVE  LET g == f[n - 1]
             IN  \/ Len(f[n]) = Len(g) /\ \E p \in 1..Len(g) : SameKey(g[p], new[n], key)
                 \/ Len(f[n]) = Len(g) + 1 /\ f[n][Len(g) + 1] = new[n]
  <2> DEFINE g == f[n - 1]
             row == new[n]
  <2>1. n - 1 \in 0..N /\ n \in 0..N
    OBVIOUS
  <2>2. g \in Seq(RowsOn(C, V)) /\ Len(g) \in Nat /\ row \in RowsOn(C, V)
    BY <1>1, <2>1
  <2>3. f[n] = Append(g, row) \/ f[n] = Put(g, row, key, update)
    BY <1>1
  <2> HIDE DEF g, row
  <2>4. /\ Len(Append(g, row)) = Len(g) + 1 /\ Append(g, row)[Len(g) + 1] = row
    BY <2>2, AppendProperties
  <2>5. \/ Put(g, row, key, update) = Append(g, row)
        \/ /\ Len(Put(g, row, key, update)) = Len(g)
           /\ \E p \in 1..Len(g) : SameKey(g[p], row, key)
    BY <2>2, PutSetsItsRows DEF IsSetBy
  <2>6. QED BY <2>3, <2>4, <2>5 DEF g, row
<1>3. ASSUME NEW n \in 1..N
      PROVE  \E p \in 1..Len(f[n]) : \A c \in key : f[n][p][c] = new[n][c]
  <2>1. n - 1 \in 0..n /\ n \in 0..N /\ n - 1 \in 0..N
    OBVIOUS
  <2>2. \A p \in 1..Len(f[n - 1]) : p \in 1..Len(f[n]) /\ \A c \in key : f[n][p][c] = f[n - 1][p][c]
    BY <1>1, <2>1
  <2>3. CASE \E p \in 1..Len(f[n - 1]) : SameKey(f[n - 1][p], new[n], key)
    BY <2>2, <2>3 DEF SameKey
  <2>4. CASE Len(f[n]) = Len(f[n - 1]) + 1 /\ f[n][Len(f[n - 1]) + 1] = new[n]
    <3>1. Len(f[n - 1]) + 1 \in 1..Len(f[n])
      BY <1>1, <2>1, <2>4
    <3>2. QED BY <2>4, <3>1
  <2>5. QED BY <1>2, <2>3, <2>4
<1>4. \A n \in 0..N : \A m \in 1..n : \E p \in 1..Len(f[n]) : \A c \in key : f[n][p][c] = new[m][c]
  <2> SUFFICES ASSUME NEW n \in 0..N, NEW m \in 1..n
               PROVE  \E p \in 1..Len(f[n]) : \A c \in key : f[n][p][c] = new[m][c]
    OBVIOUS
  <2>1. m \in 1..N /\ m \in 0..n
    OBVIOUS
  <2>2. PICK p \in 1..Len(f[m]) : \A c \in key : f[m][p][c] = new[m][c]
    BY <1>3, <2>1
  <2>3. p \in 1..Len(f[n]) /\ \A c \in key : f[n][p][c] = f[m][p][c]
    BY <1>1, <2>1
  <2>4. QED BY <2>2, <2>3
<1>5. \A n \in 0..N : \A p \in 1..Len(f[n]) :
         \/ p \in 1..Len(rows)
         \/ \E m \in 1..n : \A c \in key : f[n][p][c] = new[m][c]
  <2> DEFINE H == {n \in 0..N : \A p \in 1..Len(f[n]) :
                      \/ p \in 1..Len(rows)
                      \/ \E m \in 1..n : \A c \in key : f[n][p][c] = new[m][c]}
  <2>1. 0 \in H
    BY <1>1
  <2>2. ASSUME NEW n \in 0..(N - 1), n \in H PROVE n + 1 \in H
    <3>1. n + 1 \in 1..N /\ n + 1 \in 0..N /\ (n + 1) - 1 = n /\ n \in 0..N /\ n \in 0..(n + 1) /\ n + 1 \in 1..(n + 1)
      OBVIOUS
    <3>2. SUFFICES ASSUME NEW p \in 1..Len(f[n + 1]), p \notin 1..Len(rows)
                   PROVE  \E m \in 1..(n + 1) : \A c \in key : f[n + 1][p][c] = new[m][c]
      BY <3>1
    <3>3. CASE p \in 1..Len(f[n])
      <4>1. PICK m \in 1..n : \A c \in key : f[n][p][c] = new[m][c]
        BY <2>2, <3>2, <3>3
      <4>2. m \in 1..(n + 1)
        OBVIOUS
      <4>3. \A c \in key : f[n + 1][p][c] = f[n][p][c]
        BY <1>1, <3>1, <3>3
      <4>4. QED BY <4>1, <4>2, <4>3
    <3>4. CASE p \notin 1..Len(f[n])
      <4>1. Len(f[n]) \in Nat
        BY <1>1, <3>1
      <4>2. \/ Len(f[n + 1]) = Len(f[n])
            \/ Len(f[n + 1]) = Len(f[n]) + 1 /\ f[n + 1][Len(f[n]) + 1] = new[n + 1]
        BY <1>2, <3>1
      <4>3. p = Len(f[n]) + 1 /\ f[n + 1][p] = new[n + 1]
        BY <3>4, <4>1, <4>2
      <4>4. QED BY <3>1, <4>3
    <3>5. QED BY <3>3, <3>4
  <2> HIDE DEF H
  <2>3. \A n \in 0..N : n \in H
    BY <2>1, <2>2, InductionTo
  <2>4. QED BY <2>3 DEF H
<1>6. QED BY <1>4, <1>5

(* A row of the table has the values of the last row of its key.           *)
LEMMA LastRowWins ==
  ASSUME NEW C, NEW V, NEW rows, NEW N, NEW new, NEW key, NEW update, NEW f,
         Batches(C, V, rows, new, N, key), Upserting(f, rows, new, N, key, update, {})
  PROVE  \A n \in 0..N : \A p \in 1..Len(f[n]) : \A m \in 1..n :
            /\ SameKey(f[n][p], new[m], key)
            /\ \A k \in (m + 1)..n : ~SameKey(f[n][p], new[k], key)
            => \A c \in update \cap C : f[n][p][c] = new[m][c]
<1>0. /\ rows \in Seq(RowsOn(C, V)) /\ N \in Nat /\ new \in [1..N -> RowsOn(C, V)]
      /\ key \subseteq C
  BY DEF Batches
<1>k. UpsertsFrom(f, rows, new, N, key, update, {}, C, V)
  BY KeysStay
<1> USE <1>0
<1>1. /\ f[0] = rows /\ \A n \in 0..N : f[n] \in Seq(RowsOn(C, V)) /\ Len(f[n]) \in Nat
      /\ \A n \in 1..N : f[n] = Put(f[n - 1], new[n], key, update)
      /\ \A n \in 0..N : \A m \in 0..n : \A p \in 1..Len(f[m]) :
            p \in 1..Len(f[n]) /\ \A c \in key : f[n][p][c] = f[m][p][c]
  BY <1>k DEF UpsertsFrom
<1> DEFINE Wins(n) ==
      \A p \in 1..Len(f[n]) : \A m \in 1..n :
            /\ SameKey(f[n][p], new[m], key)
            /\ \A k \in (m + 1)..n : ~SameKey(f[n][p], new[k], key)
            => \A c \in update \cap C : f[n][p][c] = new[m][c]
           H == {n \in 0..N : Wins(n)}
<1>2. 0 \in H
  OBVIOUS
<1>3. ASSUME NEW n \in 0..(N - 1), n \in H PROVE n + 1 \in H
  <2>1. n + 1 \in 1..N /\ n + 1 \in 0..N /\ (n + 1) - 1 = n /\ n \in 0..N /\ n \in 0..(n + 1)
    OBVIOUS
  <2> DEFINE g == f[n]
             row == new[n + 1]
             h == f[n + 1]
  <2>2. SUFFICES ASSUME NEW p \in 1..Len(h), NEW m \in 1..(n + 1),
                        SameKey(h[p], new[m], key),
                        \A k \in (m + 1)..(n + 1) : ~SameKey(h[p], new[k], key)
                 PROVE  \A c \in update \cap C : h[p][c] = new[m][c]
    BY <2>1
  <2>3. g \in Seq(RowsOn(C, V)) /\ Len(g) \in Nat /\ row \in RowsOn(C, V) /\ h = Put(g, row, key, update)
    BY <1>1, <2>1
  <2>4. \A i \in 1..Len(g) : \A c \in key : h[i][c] = g[i][c]
    BY <1>1, <2>1
  <2>5. m = n + 1 \/ (m \in 1..n /\ n + 1 \in (m + 1)..(n + 1))
    OBVIOUS
  <2>6. ASSUME m # n + 1, p \in 1..Len(g), h[p] = g[p]
        PROVE  \A c \in update \cap C : h[p][c] = new[m][c]
    <3>1. \A k \in (m + 1)..n : k \in (m + 1)..(n + 1)
      BY <2>1
    <3>2. QED BY <1>3, <2>2, <2>5, <2>6, <3>1
  <2> HIDE DEF g, row, h
  <2>7. CASE \E i \in 1..Len(g) : SameKey(g[i], row, key)
    <3>1. /\ Len(h) = Len(g)
          /\ \A i \in 1..Len(g) : \A c \in C :
                h[i][c] = IF SameKey(g[i], row, key) /\ c \in update THEN row[c] ELSE g[i][c]
      BY <2>3, <2>7, PutSetsItsRows DEF IsSetBy
    <3>2. SameKey(g[p], row, key) <=> SameKey(h[p], row, key)
      BY <2>4, <3>1 DEF SameKey
    <3>3. CASE m = n + 1
      BY <2>2, <3>1, <3>2, <3>3 DEF row
    <3>4. CASE m # n + 1
      <4>1. ~SameKey(g[p], row, key)
        BY <2>2, <2>5, <3>2, <3>4 DEF row
      <4>2. h \in Seq(RowsOn(C, V))
        BY <2>3, PutSetsItsRows
      <4>3. h[p] = g[p]
        <5>1. h[p] \in RowsOn(C, V) /\ g[p] \in RowsOn(C, V)
          BY <2>3, <3>1, <4>2, ElementOfSeq
        <5>2. \A c \in C : h[p][c] = g[p][c]
          BY <3>1, <4>1
        <5>3. QED BY <5>1, <5>2 DEF RowsOn
      <4>4. QED BY <2>6, <3>1, <3>4, <4>3
    <3>5. QED BY <3>3, <3>4
  <2>8. CASE ~\E i \in 1..Len(g) : SameKey(g[i], row, key)
    <3>1. h = Append(g, row)
      BY <2>3, <2>8, PutSetsItsRows
    <3>2. Len(h) = Len(g) + 1 /\ h[Len(g) + 1] = row /\ \A i \in 1..Len(g) : h[i] = g[i]
      BY <2>3, <3>1, AppendProperties
    <3>3. CASE p = Len(g) + 1
      <4>1. SameKey(h[p], new[m], key) => SameKey(h[p], row, key)
        BY <3>2, <3>3 DEF SameKey
      <4>2. m = n + 1
        BY <2>2, <2>5, <4>1 DEF row
      <4>3. QED BY <3>2, <3>3, <4>2 DEF row
    <3>4. CASE p # Len(g) + 1
      <4>1. p \in 1..Len(g)
        BY <2>3, <3>2, <3>4
      <4>2. m # n + 1
        BY <2>2, <2>8, <3>2, <4>1 DEF row
      <4>3. QED BY <2>6, <3>2, <4>1, <4>2
    <3>5. QED BY <3>3, <3>4
  <2>9. QED BY <2>7, <2>8
<1>4. \A n \in 0..N : n \in H
  <2> HIDE DEF H
  <2> QED BY <1>2, <1>3, InductionTo
<1>5. QED BY <1>4

HaveKeys(new, N, key) == \A m \in 1..N : \A c \in key : new[m][c] # Null
AreThere(new, N, rows, key) == \A n \in 1..N : \E p \in 1..Len(rows) : SameKey(rows[p], new[n], key)

(* When no row of a batch has a NULL in its key, all of them have a row    *)
(* of their key afterwards, and the batch again changes nothing.           *)
LEMMA AgainChangesNothing ==
  ASSUME NEW C, NEW V, NEW rows, NEW N, NEW new, NEW key, NEW update, NEW f, NEW g,
         Batches(C, V, rows, new, N, key), key # {},
         Upserting(f, rows, new, N, key, update, {}), Upserting(g, f[N], new, N, key, update, {}),
         HaveKeys(new, N, key)
  PROVE  g[N] = f[N] /\ AreThere(new, N, f[N], key)
<1> DEFINE T == f[N]
<1>0. /\ rows \in Seq(RowsOn(C, V)) /\ N \in Nat /\ new \in [1..N -> RowsOn(C, V)]
      /\ key \subseteq C
  BY DEF Batches
<1>k. UpsertsFrom(f, rows, new, N, key, update, {}, C, V)
  BY KeysStay
<1>n. N \in 0..N /\ 0 \in 0..N
  BY <1>0
<1>1. T \in Seq(RowsOn(C, V)) /\ Len(T) \in Nat
  BY <1>k, <1>n DEF UpsertsFrom
<1>2. \A n \in 1..N : \E p \in 1..Len(T) : SameKey(T[p], new[n], key)
  <2>1. \A n \in 0..N : \A m \in 1..n : \E p \in 1..Len(f[n]) : \A c \in key : f[n][p][c] = new[m][c]
    BY RowsOfBatch
  <2>2. \A m \in 1..N : \E p \in 1..Len(f[N]) : \A c \in key : f[N][p][c] = new[m][c]
    BY <1>n, <2>1
  <2>3. QED BY <2>2 DEF SameKey, HaveKeys
<1>3. \A p \in 1..Len(T) : \A m \in 1..N :
         /\ SameKey(T[p], new[m], key)
         /\ \A k \in (m + 1)..N : ~SameKey(T[p], new[k], key)
         => \A c \in update \cap C : T[p][c] = new[m][c]
  <2>1. \A n \in 0..N : \A p \in 1..Len(f[n]) : \A m \in 1..n :
            /\ SameKey(f[n][p], new[m], key)
            /\ \A k \in (m + 1)..n : ~SameKey(f[n][p], new[k], key)
            => \A c \in update \cap C : f[n][p][c] = new[m][c]
    BY LastRowWins
  <2>2. QED BY <1>n, <2>1
<1>4. Upserting(g, T, new, N, key, update, {}) /\ Batches(C, V, T, new, N, key)
  BY <1>0, <1>1 DEF Batches
<1> HIDE DEF T
<1>5. UpsertsFrom(g, T, new, N, key, update, {}, C, V)
  BY <1>4, KeysStay
<1>6. /\ g[0] = T
      /\ \A n \in 0..N : g[n] \in Seq(RowsOn(C, V))
      /\ \A n \in 0..(N - 1) : g[n + 1] = Put(g[n], new[n + 1], key, update)
      /\ \A n \in 0..N : \A p \in 1..Len(T) : p \in 1..Len(g[n]) /\ \A c \in key : g[n][p][c] = T[p][c]
  <2>1. \A n \in 0..(N - 1) : n + 1 \in 1..N /\ (n + 1) - 1 = n
    BY <1>0
  <2>2. \A n \in 0..N : 0 \in 0..n
    BY <1>0
  <2>3. QED BY <1>5, <2>1, <2>2 DEF UpsertsFrom
<1> DEFINE Late(p, n) == \A k \in (n + 1)..N : ~SameKey(T[p], new[k], key)
           Stays(n) ==
              /\ Len(g[n]) = Len(T)
              /\ \A p \in 1..Len(T) : /\ \A c \in C \ update : g[n][p][c] = T[p][c]
                                      /\ Late(p, n) => g[n][p] = T[p]
           H == {n \in 0..N : Stays(n)}
<1>7. 0 \in H
  BY <1>6, <1>n
<1>8. ASSUME NEW n \in 0..(N - 1), n \in H PROVE n + 1 \in H
  <2> DEFINE row == new[n + 1]
             now == g[n]
             next == g[n + 1]
  <2>1. n + 1 \in 1..N /\ n + 1 \in 0..N /\ n \in 0..N
    BY <1>0
  <2>2. row \in RowsOn(C, V) /\ now \in Seq(RowsOn(C, V)) /\ next \in Seq(RowsOn(C, V)) /\ next = Put(now, row, key, update)
    BY <1>0, <1>6, <2>1
  <2>3. /\ Len(now) = Len(T)
        /\ \A p \in 1..Len(T) : /\ \A c \in C \ update : now[p][c] = T[p][c]
                                /\ Late(p, n) => now[p] = T[p]
    BY <1>8
  <2>4. \A p \in 1..Len(T) : \A c \in key : now[p][c] = T[p][c]
    BY <1>6, <2>1
  <2>5. \E p \in 1..Len(T) : SameKey(T[p], row, key)
    BY <1>2, <2>1
  <2>6. \A p \in 1..Len(T) :
           /\ SameKey(T[p], row, key)
           /\ Late(p, n + 1)
           => \A c \in update \cap C : T[p][c] = row[c]
    BY <1>3, <2>1
  <2>7. \A p \in 1..Len(T) : ~SameKey(T[p], row, key) /\ Late(p, n + 1) => Late(p, n)
    <3>1. \A k \in (n + 1)..N : k = n + 1 \/ k \in ((n + 1) + 1)..N
      BY <1>0
    <3>2. QED BY <3>1
  <2>8. Stays(n + 1) <=> /\ Len(next) = Len(T)
                         /\ \A p \in 1..Len(T) : /\ \A c \in C \ update : next[p][c] = T[p][c]
                                                 /\ Late(p, n + 1) => next[p] = T[p]
    OBVIOUS
  <2> HIDE DEF row, now, next, Late, Stays
  <2>9. \A p \in 1..Len(T) : SameKey(now[p], row, key) <=> SameKey(T[p], row, key)
    BY <2>4 DEF SameKey
  <2>10. /\ Len(next) = Len(now)
         /\ \A i \in 1..Len(now) : \A c \in C :
               next[i][c] = IF SameKey(now[i], row, key) /\ c \in update THEN row[c] ELSE now[i][c]
    <3>1. \E p \in 1..Len(now) : SameKey(now[p], row, key)
      BY <2>3, <2>5, <2>9
    <3>2. IsSetBy(next, now, row, key, update, C)
      BY <2>2, <3>1, PutSetsItsRows
    <3>3. QED BY <3>2 DEF IsSetBy
  <2>11. \A p \in 1..Len(T) : \A c \in C \ update : next[p][c] = T[p][c]
    BY <2>3, <2>10
  <2>12. ASSUME NEW p \in 1..Len(T), Late(p, n + 1) PROVE next[p] = T[p]
    <3>1. next[p] \in RowsOn(C, V) /\ T[p] \in RowsOn(C, V)
      BY <1>1, <2>2, <2>3, <2>10, ElementOfSeq
    <3>2. CASE SameKey(T[p], row, key)
      <4>1. \A c \in C : next[p][c] = T[p][c]
        BY <2>3, <2>6, <2>9, <2>10, <2>11, <2>12, <3>2
      <4>2. QED BY <3>1, <4>1 DEF RowsOn
    <3>3. CASE ~SameKey(T[p], row, key)
      <4>1. now[p] = T[p]
        BY <2>3, <2>7, <2>12, <3>3
      <4>2. \A c \in C : next[p][c] = T[p][c]
        BY <2>3, <2>9, <2>10, <3>3, <4>1
      <4>3. QED BY <3>1, <4>2 DEF RowsOn
    <3>4. QED BY <3>2, <3>3
  <2>13. Stays(n + 1)
    BY <2>3, <2>8, <2>10, <2>11, <2>12
  <2>14. QED BY <2>1, <2>13
<1>9. Len(g[N]) = Len(T) /\ \A p \in 1..Len(T) : g[N][p] = T[p]
  <2>1. N \in H
    <3> HIDE DEF H
    <3>1. \A n \in 0..N : n \in H
      BY <1>0, <1>7, <1>8, InductionTo
    <3>2. QED BY <1>n, <3>1
  <2>2. \A p \in 1..Len(T) : Late(p, N)
    BY <1>0
  <2>3. QED BY <2>1, <2>2
<1>10. g[N] = T
  <2>1. g[N] \in Seq(RowsOn(C, V)) /\ T \in Seq(RowsOn(C, V))
    BY <1>1, <1>6, <1>n
  <2>2. QED BY <1>9, <2>1, SeqEqual
<1>11. QED BY <1>2, <1>10 DEF T, AreThere

(* Rows that are inserted whatever is there are put like the others, when  *)
(* nothing of their key is there.                                          *)
LEMMA InsertsArePut ==
  ASSUME NEW C, NEW V, NEW rows, NEW N, NEW new, NEW key, NEW update, NEW plain, NEW f,
         Batches(C, V, rows, new, N, key), Upserting(f, rows, new, N, key, update, plain),
         \A n \in 1..N : n \in plain => \A p \in 1..Len(f[n - 1]) : ~SameKey(f[n - 1][p], new[n], key)
  PROVE  Upserting(f, rows, new, N, key, update, {})
<1>0. /\ rows \in Seq(RowsOn(C, V)) /\ N \in Nat /\ new \in [1..N -> RowsOn(C, V)]
      /\ key \subseteq C
  BY DEF Batches
<1>k. UpsertsFrom(f, rows, new, N, key, update, plain, C, V)
  BY KeysStay
<1>1. ASSUME NEW n \in 1..N, n \in plain
      PROVE  Append(f[n - 1], new[n]) = Put(f[n - 1], new[n], key, update)
  <2>1. n - 1 \in 0..N
    BY <1>0
  <2>2. f[n - 1] \in Seq(RowsOn(C, V)) /\ new[n] \in RowsOn(C, V)
    BY <1>0, <1>k, <2>1 DEF UpsertsFrom
  <2> DEFINE g == f[n - 1]
             row == new[n]
  <2>3. g \in Seq(RowsOn(C, V)) /\ row \in RowsOn(C, V) /\ ~\E p \in 1..Len(g) : SameKey(g[p], row, key)
    BY <1>1, <2>2
  <2> HIDE DEF g, row
  <2>4. Append(g, row) = Put(g, row, key, update)
    BY <2>3, PutSetsItsRows
  <2>5. QED BY <2>4 DEF g, row
<1>2. \A n \in 0..N : n # 0 => n \in 1..N
  BY <1>0
<1>3. QED BY <1>1, <1>2 DEF Upserting

-----------------------------------------------------------------------------
(* The plugins' upserts.                                                   *)

LEMMA ContentsChange ==
  ASSUME NEW table, IsTable(table), NEW rows
  PROVE  LET t == [table EXCEPT !.rows = rows]
         IN  /\ t.columns = table.columns /\ t.key = table.key /\ t.rows = rows
             /\ \A s : [t EXCEPT !.rows = s] = [table EXCEPT !.rows = s]
<1>1. table = [columns |-> table.columns, key |-> table.key, rows |-> table.rows]
  BY DEF IsTable
<1>2. QED BY <1>1

LEMMA TableGoesOn ==
  ASSUME NEW dialect, NEW table, IsTable(table), NEW given, Len(given) \in Nat,
         NEW key, key \subseteq DOMAIN table.columns
  PROVE  \E V : Batches(DOMAIN table.columns, V, table.rows, NewRows(dialect, table, given), Len(given), key)
<1> DEFINE C == DOMAIN table.columns
           rows == table.rows
           new == NewRows(dialect, table, given)
           V == {rows[i][c] : i \in 1..Len(rows), c \in C} \cup {new[n][c] : n \in 1..Len(given), c \in C}
<1>1. rows = [i \in 1..Len(rows) |-> [c \in C |-> rows[i][c]]] /\ Len(rows) \in Nat
  BY DEF IsTable
<1>2. new = [n \in 1..Len(given) |-> [c \in C |-> new[n][c]]]
  BY DEF NewRows, AsInserted
<1>3. \A i \in 1..Len(rows) : \A c \in C : rows[i][c] \in V
  OBVIOUS
<1>4. \A n \in 1..Len(given) : \A c \in C : new[n][c] \in V
  OBVIOUS
<1> HIDE DEF C, rows, new, V
<1>5. rows \in [1..Len(rows) -> RowsOn(C, V)]
  <2>1. \A i \in 1..Len(rows) : [c \in C |-> rows[i][c]] \in RowsOn(C, V)
    BY <1>3 DEF RowsOn
  <2>2. [i \in 1..Len(rows) |-> [c \in C |-> rows[i][c]]] \in [1..Len(rows) -> RowsOn(C, V)]
    BY <2>1
  <2>3. QED BY <1>1, <2>2
<1>6. new \in [1..Len(given) -> RowsOn(C, V)]
  <2>1. \A n \in 1..Len(given) : [c \in C |-> new[n][c]] \in RowsOn(C, V)
    BY <1>4 DEF RowsOn
  <2>2. [n \in 1..Len(given) |-> [c \in C |-> new[n][c]]] \in [1..Len(given) -> RowsOn(C, V)]
    BY <2>1
  <2>3. QED BY <1>2, <2>2
<1>7. rows \in Seq(RowsOn(C, V))
  BY <1>1, <1>5, FunctionIsSeq
<1>8. Batches(C, V, rows, new, Len(given), key)
  BY <1>6, <1>7 DEF Batches, C
<1>9. QED BY <1>8 DEF C, rows, new

\* The same batch again leaves the same rows.
UpsertStays(dialect, table, given, update) ==
    LET first == Upserted(dialect, table, given, table.key, update)
    IN  /\ first.table.columns = table.columns /\ first.table.key = table.key
        /\ Upserted(dialect, first.table, given, table.key, update) = first
MergeStays(table, given, pk, update) ==
    LET first == Merge(table, given, pk, update)
    IN  /\ first.table.columns = table.columns /\ first.table.key = table.key
        /\ Merge(first.table, given, pk, update) = first

(* An upsert by the key of the table.                                      *)
LEMMA UpsertedAgain ==
  ASSUME NEW dialect, NEW table, IsTable(table), table.key # {}, NEW given, Len(given) \in Nat, NEW update,
         Upserted(dialect, table, given, table.key, update).ok
  PROVE  UpsertStays(dialect, table, given, update)
<1> DEFINE C == DOMAIN table.columns
           N == Len(given)
           key == table.key
           new == NewRows(dialect, table, given)
           first == Upserted(dialect, table, given, key, update)
           then == first.table
<1>1. PICK f : /\ Upserting(f, table.rows, new, N, key, update, {})
               /\ WithUpserts(dialect, table, given, key, update, {}) = f[N]
  BY UpsertsGoOn
<1>2. KeyHolds(f[N], key) /\ first = Became(table, f[N]) /\ then = [table EXCEPT !.rows = f[N]]
  <2>1. first = Kept(table, f[N])
    BY <1>1 DEF Upserted
  <2>2. KeyHolds(f[N], key)
    BY <2>1 DEF Kept, Failed
  <2>3. QED BY <2>1, <2>2 DEF Kept, Became
<1>3. then.columns = table.columns /\ then.key = key /\ then.rows = f[N] /\ Became(then, f[N]) = first
  <2>1. LET t == [table EXCEPT !.rows = f[N]]
        IN  /\ t.columns = table.columns /\ t.key = table.key /\ t.rows = f[N]
            /\ [t EXCEPT !.rows = f[N]] = [table EXCEPT !.rows = f[N]]
    BY ContentsChange
  <2> HIDE DEF first, then
  <2>2. QED BY <1>2, <2>1 DEF Became
<1> HIDE DEF first, then
<1>4. NewRows(dialect, then, given) = new
  BY <1>3 DEF NewRows, AsInserted
<1>5. PICK g : /\ Upserting(g, f[N], new, N, key, update, {})
               /\ WithUpserts(dialect, then, given, key, update, {}) = g[N]
  <2>1. \E g : /\ Upserting(g, then.rows, NewRows(dialect, then, given), N, key, update, {})
               /\ WithUpserts(dialect, then, given, key, update, {}) = g[N]
    BY UpsertsGoOn
  <2>2. QED BY <1>3, <1>4, <2>1
<1>6. key \subseteq C
  BY DEF IsTable
<1>7. PICK V : Batches(C, V, table.rows, new, N, key)
  BY <1>6, TableGoesOn
<1> HIDE DEF C, N, key, new
<1>8. g[N] = f[N]
  <2>1. HaveKeys(new, N, key)
    <3>1. \A n \in 0..N : \A m \in 1..n : \E p \in 1..Len(f[n]) : \A c \in key : f[n][p][c] = new[m][c]
      BY <1>1, <1>7, RowsOfBatch
    <3>2. N \in 0..N
      BY <1>7 DEF Batches
    <3>3. UpsertsFrom(f, table.rows, new, N, key, update, {}, C, V)
      BY <1>1, <1>7, KeysStay
    <3>4. DOMAIN f[N] = 1..Len(f[N])
      BY <3>2, <3>3, LenProperties DEF UpsertsFrom
    <3>5. QED BY <1>2, <3>1, <3>2, <3>4 DEF KeyHolds, HaveKeys
  <2>2. key # {}
    BY DEF key
  <2>3. QED BY <1>1, <1>5, <1>7, <2>1, <2>2, AgainChangesNothing
<1>9. Upserted(dialect, then, given, key, update) = first
  <2>1. Upserted(dialect, then, given, key, update) = Kept(then, f[N])
    BY <1>5, <1>8 DEF Upserted
  <2>2. QED BY <1>2, <1>3, <2>1 DEF Kept
<1>10. QED BY <1>3, <1>9 DEF first, then, key, UpsertStays

\* The batch of a job, in full, as the statement gets it.
IsBatch(given) == Len(given) \in Nat /\ DOMAIN given = 1..Len(given)

(* MERGE after it went through: by the key of the table, or by columns in  *)
(* which no two rows of the batch are alike and none has a NULL.  What it  *)
(* inserts is what an upsert would append.                                 *)
ToldApart(table, given, pk) ==
    \A n, m \in DOMAIN given :
        SameKey(AsInserted("oracle", table, given[n]), AsInserted("oracle", table, given[m]), pk) <=> n = m
Matched(rows, new, N, pk) == {n \in 1..N : \E i \in DOMAIN rows : SameKey(rows[i], new[n], pk)}
Unmatched(rows, new, N, pk) == (1..N) \ Matched(rows, new, N, pk)
Unlike(new, N, pk) == \A n, m \in 1..N : SameKey(new[n], new[m], pk) <=> n = m

LEMMA MergePuts ==
  ASSUME NEW C, NEW V, NEW rows, NEW N, NEW new, NEW pk, NEW update, NEW f,
         Batches(C, V, rows, new, N, pk),
         Upserting(f, rows, new, N, pk, update, Unmatched(rows, new, N, pk)),
         KeyHolds(f[N], pk) \/ Unlike(new, N, pk)
  PROVE  /\ Upserting(f, rows, new, N, pk, update, {})
         /\ \A n, m \in Unmatched(rows, new, N, pk) : n # m => ~SameKey(new[n], new[m], pk)
<1> DEFINE plain == Unmatched(rows, new, N, pk)
<1>0. rows \in Seq(RowsOn(C, V)) /\ N \in Nat /\ new \in [1..N -> RowsOn(C, V)]
  BY DEF Batches
<1>1. plain \subseteq 1..N /\ \A n \in plain : ~\E i \in DOMAIN rows : SameKey(rows[i], new[n], pk)
  BY DEF Unmatched, Matched
<1>2. Upserting(f, rows, new, N, pk, update, plain)
  OBVIOUS
<1> HIDE DEF plain
<1>7. UpsertsFrom(f, rows, new, N, pk, update, plain, C, V)
  BY <1>2, KeysStay
<1>8. /\ N \in 0..N /\ DOMAIN f[N] = 1..Len(f[N])
      /\ DOMAIN rows = 1..Len(rows) /\ f[0] = rows
      /\ \A n \in 0..N : f[n] \in Seq(RowsOn(C, V)) /\ Len(f[n]) \in Nat
  BY <1>0, <1>7, LenProperties DEF UpsertsFrom
<1>9. /\ \A n \in 0..N : \A m \in 1..n : \E p \in 1..Len(f[n]) : \A c \in pk : f[n][p][c] = new[m][c]
      /\ \A n \in 0..N : \A p \in 1..Len(f[n]) :
            \/ p \in 1..Len(rows)
            \/ \E m \in 1..n : \A c \in pk : f[n][p][c] = new[m][c]
  BY <1>2, RowsOfBatch
<1>10. \A n \in 0..N : \A m \in 0..n : \A p \in 1..Len(f[m]) :
          p \in 1..Len(f[n]) /\ \A c \in pk : f[n][p][c] = f[m][p][c]
  BY <1>7 DEF UpsertsFrom
<1>11. ASSUME NEW n \in plain
       PROVE  LET q == Len(f[n - 1]) + 1
              IN  q \in 1..Len(f[n]) /\ f[n][q] = new[n]
  <2>1. n \in 1..N /\ n - 1 \in 0..N
    BY <1>0, <1>1
  <2>2. f[n - 1] \in Seq(RowsOn(C, V)) /\ new[n] \in RowsOn(C, V) /\ Len(f[n - 1]) \in Nat
    BY <1>0, <1>8, <2>1
  <2>3. f[n] = Append(f[n - 1], new[n])
    BY <1>7, <1>11, <2>1 DEF UpsertsFrom
  <2> DEFINE g == f[n - 1]
             row == new[n]
  <2>4. g \in Seq(RowsOn(C, V)) /\ row \in RowsOn(C, V) /\ Len(g) \in Nat /\ f[n] = Append(g, row)
    BY <2>2, <2>3
  <2> HIDE DEF g, row
  <2>5. Len(f[n]) = Len(g) + 1 /\ f[n][Len(g) + 1] = row /\ Len(g) + 1 \in 1..(Len(g) + 1)
    BY <2>4, AppendProperties
  <2>6. QED BY <2>5 DEF g, row
<1>13. ASSUME NEW n \in plain, NEW p \in 1..Len(f[n - 1]), SameKey(f[n - 1][p], new[n], pk)
       PROVE  FALSE
  <2>1. n \in 1..N /\ n - 1 \in 0..N /\ n \in 0..N /\ n - 1 \in 0..n /\ 0 \in 0..(n - 1)
    BY <1>0, <1>1
  <2>2. CASE Unlike(new, N, pk)
    <3>1. CASE p \in 1..Len(rows)
      <4>1. \A c \in pk : f[n - 1][p][c] = rows[p][c]
        BY <1>8, <1>10, <2>1, <3>1
      <4>2. SameKey(rows[p], new[n], pk)
        BY <1>13, <4>1 DEF SameKey
      <4>3. QED BY <1>1, <1>8, <3>1, <4>2
    <3>2. CASE p \notin 1..Len(rows)
      <4>1. PICK m \in 1..(n - 1) : \A c \in pk : f[n - 1][p][c] = new[m][c]
        BY <1>9, <2>1, <3>2
      <4>2. SameKey(new[m], new[n], pk)
        BY <1>13, <4>1 DEF SameKey
      <4>3. m \in 1..N /\ m # n
        BY <1>0, <2>1
      <4>4. QED BY <2>1, <2>2, <4>2, <4>3 DEF Unlike
    <3>3. QED BY <3>1, <3>2
  <2>3. CASE KeyHolds(f[N], pk)
    <3> DEFINE q == Len(f[n - 1]) + 1
    <3>1. q \in 1..Len(f[n]) /\ f[n][q] = new[n]
      BY <1>11
    <3>2. p # q
      BY <1>8, <2>1
    <3>4. p \in 1..Len(f[N]) /\ \A c \in pk : f[N][p][c] = f[n - 1][p][c]
      <4>1. n - 1 \in 0..N /\ N \in 0..N
        BY <1>8, <2>1
      <4>2. QED BY <1>10, <4>1
    <3>5. q \in 1..Len(f[N]) /\ \A c \in pk : f[N][q][c] = f[n][q][c]
      BY <1>8, <1>10, <2>1, <3>1
    <3> HIDE DEF q
    <3>6. SameKey(f[N][p], f[N][q], pk)
      BY <1>13, <3>1, <3>4, <3>5 DEF SameKey
    <3>7. QED BY <1>8, <2>3, <3>2, <3>4, <3>5, <3>6 DEF KeyHolds
  <2>4. QED BY <2>2, <2>3
<1>14. Upserting(f, rows, new, N, pk, update, {})
  <2>1. \A n \in 1..N : n \in plain => \A p \in 1..Len(f[n - 1]) : ~SameKey(f[n - 1][p], new[n], pk)
    BY <1>13
  <2>2. QED BY <1>2, <2>1, InsertsArePut
<1>15. ASSUME NEW n \in plain, NEW m \in plain, n < m, SameKey(new[n], new[m], pk)
       PROVE  FALSE
  <2>1. n \in 0..N /\ m - 1 \in 0..N /\ n \in 0..(m - 1)
    BY <1>0, <1>1, <1>15
  <2> DEFINE q == Len(f[n - 1]) + 1
  <2>2. q \in 1..Len(f[n]) /\ f[n][q] = new[n]
    BY <1>11
  <2> HIDE DEF q
  <2>3. q \in 1..Len(f[m - 1]) /\ \A c \in pk : f[m - 1][q][c] = new[n][c]
    BY <1>10, <2>1, <2>2
  <2>4. SameKey(f[m - 1][q], new[m], pk)
    BY <1>15, <2>3 DEF SameKey
  <2>5. QED BY <1>13, <2>3, <2>4
<1>16. ASSUME NEW n \in plain, NEW m \in plain, n # m PROVE ~SameKey(new[n], new[m], pk)
  <2>1. SameKey(new[n], new[m], pk) => SameKey(new[m], new[n], pk)
    BY DEF SameKey
  <2>2. n < m \/ m < n
    BY <1>0, <1>1, <1>16
  <2>3. QED BY <1>15, <2>1, <2>2
<1>17. QED BY <1>14, <1>16 DEF plain

(* The statement in these terms.                                           *)
LEMMA MergeIs ==
  ASSUME NEW table, NEW given, IsBatch(given), NEW pk, NEW update
  PROVE  LET N == Len(given)
             new == NewRows("oracle", table, given)
             matched == Matched(table.rows, new, N, pk)
             unstable == \E n, m \in matched : n # m /\ SameKey(new[n], new[m], pk)
         IN  Merge(table, given, pk, update) =
                IF ~(pk \subseteq DOMAIN given[1]) \/ (update # {} /\ unstable) THEN Failed(table)
                ELSE Kept(table, WithUpserts("oracle", table, given, pk, update, Unmatched(table.rows, new, N, pk)))
<1> DEFINE N == Len(given)
           new == NewRows("oracle", table, given)
           matched == Matched(table.rows, new, N, pk)
           unstable == \E n, m \in matched : n # m /\ SameKey(new[n], new[m], pk)
<1>1. DOMAIN given = 1..N /\ \A n \in 1..N : new[n] = AsInserted("oracle", table, given[n])
  BY DEF IsBatch, NewRows
<1>2. matched = {n \in DOMAIN given : \E i \in DOMAIN table.rows :
                    SameKey(table.rows[i], AsInserted("oracle", table, given[n]), pk)}
  BY <1>1 DEF Matched
<1>3. unstable <=> \E n, m \in matched : n # m /\ SameKey(AsInserted("oracle", table, given[n]),
                                                         AsInserted("oracle", table, given[m]), pk)
  BY <1>1 DEF Matched
<1>4. Unmatched(table.rows, new, N, pk) = DOMAIN given \ matched
  BY <1>1 DEF Unmatched
<1> HIDE DEF unstable, matched, new, N
<1>5. Merge(table, given, pk, update) =
         IF ~(pk \subseteq DOMAIN given[1]) \/ (update # {} /\ unstable) THEN Failed(table)
         ELSE Kept(table, WithUpserts("oracle", table, given, pk, update, Unmatched(table.rows, new, N, pk)))
  BY <1>2, <1>3, <1>4 DEF Merge
<1>6. QED BY <1>5 DEF unstable, matched, new, N

LEMMA MergedAgain ==
  ASSUME NEW table, IsTable(table), NEW given, IsBatch(given),
         NEW pk, pk # {}, pk \subseteq DOMAIN table.columns, NEW update,
         pk = table.key \/ ToldApart(table, given, pk),
         Merge(table, given, pk, update).ok
  PROVE  MergeStays(table, given, pk, update)
<1> DEFINE C == DOMAIN table.columns
           N == Len(given)
           new == NewRows("oracle", table, given)
           matched == Matched(table.rows, new, N, pk)
           plain == Unmatched(table.rows, new, N, pk)
           unstable == \E n, m \in matched : n # m /\ SameKey(new[n], new[m], pk)
           first == Merge(table, given, pk, update)
           then == first.table
<1>n. N \in Nat /\ DOMAIN given = 1..N
  BY DEF IsBatch
<1>1. PICK f : /\ Upserting(f, table.rows, new, N, pk, update, plain)
               /\ WithUpserts("oracle", table, given, pk, update, plain) = f[N]
  <2> HIDE DEF plain
  <2> QED BY <1>n, UpsertsGoOn
<1>2. first = IF ~(pk \subseteq DOMAIN given[1]) \/ (update # {} /\ unstable) THEN Failed(table)
              ELSE Kept(table, f[N])
  BY <1>1, MergeIs
<1>3. /\ pk \subseteq DOMAIN given[1] /\ ~(update # {} /\ unstable)
      /\ KeyHolds(f[N], table.key) /\ first = Became(table, f[N]) /\ then = [table EXCEPT !.rows = f[N]]
  <2>0. first.ok
    OBVIOUS
  <2> HIDE DEF first, unstable
  <2>1. pk \subseteq DOMAIN given[1] /\ ~(update # {} /\ unstable) /\ first = Kept(table, f[N])
    BY <1>2, <2>0 DEF Failed
  <2>2. KeyHolds(f[N], table.key)
    BY <2>0, <2>1 DEF Kept, Failed
  <2>3. QED BY <2>1, <2>2 DEF Kept, Became
<1>4. then.columns = table.columns /\ then.key = table.key /\ then.rows = f[N] /\ Became(then, f[N]) = first
  <2>1. LET t == [table EXCEPT !.rows = f[N]]
        IN  /\ t.columns = table.columns /\ t.key = table.key /\ t.rows = f[N]
            /\ [t EXCEPT !.rows = f[N]] = [table EXCEPT !.rows = f[N]]
    BY ContentsChange
  <2> HIDE DEF first, then
  <2>2. QED BY <1>3, <2>1 DEF Became
<1> HIDE DEF first, then
<1>5. NewRows("oracle", then, given) = new
  BY <1>4 DEF NewRows, AsInserted
<1>6. PICK V : Batches(C, V, table.rows, new, N, pk)
  BY <1>n, TableGoesOn
<1>7. \A n \in 1..N : new[n] = AsInserted("oracle", table, given[n])
  BY DEF NewRows
<1>8. KeyHolds(f[N], pk) \/ Unlike(new, N, pk)
  <2>1. ToldApart(table, given, pk) => Unlike(new, N, pk)
    BY <1>n, <1>7 DEF ToldApart, Unlike
  <2>2. QED BY <1>3, <2>1
<1> HIDE DEF C, N, new
<1>9. /\ Upserting(f, table.rows, new, N, pk, update, {})
      /\ \A n, m \in plain : n # m => ~SameKey(new[n], new[m], pk)
  BY <1>1, <1>6, <1>8, MergePuts
<1>10. HaveKeys(new, N, pk)
  <2>1. CASE Unlike(new, N, pk)
    BY <2>1 DEF Unlike, SameKey, HaveKeys
  <2>2. CASE KeyHolds(f[N], pk)
    <3>1. \A n \in 0..N : \A m \in 1..n : \E p \in 1..Len(f[n]) : \A c \in pk : f[n][p][c] = new[m][c]
      BY <1>6, <1>9, RowsOfBatch
    <3>2. UpsertsFrom(f, table.rows, new, N, pk, update, {}, C, V)
      BY <1>6, <1>9, KeysStay
    <3>3. N \in 0..N
      BY <1>n
    <3>4. DOMAIN f[N] = 1..Len(f[N])
      BY <3>2, <3>3, LenProperties DEF UpsertsFrom
    <3>5. \A m \in 1..N : \E p \in 1..Len(f[N]) : \A c \in pk : f[N][p][c] = new[m][c]
      BY <3>1, <3>3
    <3>6. QED BY <2>2, <3>4, <3>5 DEF KeyHolds, HaveKeys
  <2>3. QED BY <1>8, <2>1, <2>2
<1> DEFINE left == Unmatched(then.rows, new, N, pk)
<1>11. PICK g : /\ Upserting(g, f[N], new, N, pk, update, left)
                /\ WithUpserts("oracle", then, given, pk, update, left) = g[N]
  <2>1. \E g : /\ Upserting(g, then.rows, NewRows("oracle", then, given), N, pk, update, left)
               /\ WithUpserts("oracle", then, given, pk, update, left) = g[N]
    <3> HIDE DEF left
    <3> QED BY <1>n, UpsertsGoOn DEF N
  <2>2. QED BY <1>4, <1>5, <2>1
<1>12. PICK h : Upserting(h, f[N], new, N, pk, update, {})
  <2>1. \E h : Upserting(h, then.rows, NewRows("oracle", then, given), N, pk, update, {})
    BY <1>n, UpsertsGoOn DEF N
  <2>2. QED BY <1>4, <1>5, <2>1
<1>13. AreThere(new, N, f[N], pk)
  <2>1. pk # {}
    OBVIOUS
  <2>2. QED BY <1>6, <1>9, <1>10, <1>12, <2>1, AgainChangesNothing
<1>14. left = {}
  <2>1. UpsertsFrom(f, table.rows, new, N, pk, update, {}, C, V)
    BY <1>6, <1>9, KeysStay
  <2>2. N \in 0..N
    BY <1>n
  <2>3. DOMAIN f[N] = 1..Len(f[N])
    BY <2>1, <2>2, LenProperties DEF UpsertsFrom
  <2>4. QED BY <1>4, <1>13, <2>3 DEF AreThere, Unmatched, Matched
<1>15. g[N] = f[N]
  <2>1. pk # {}
    OBVIOUS
  <2>2. Upserting(g, f[N], new, N, pk, update, {})
    BY <1>11, <1>14
  <2> HIDE DEF left, plain
  <2>3. g[N] = f[N] /\ AreThere(new, N, f[N], pk)
    BY <1>6, <1>9, <1>10, <2>1, <2>2, AgainChangesNothing
  <2>4. QED BY <2>3
<1> DEFINE again == \E n, m \in Matched(then.rows, new, N, pk) : n # m /\ SameKey(new[n], new[m], pk)
<1>16. ~(update # {} /\ again)
  <2> SUFFICES ASSUME update # {}, NEW n \in 1..N, NEW m \in 1..N, n # m, SameKey(new[n], new[m], pk)
               PROVE  FALSE
    BY DEF Matched
  <2>1. CASE n \in plain /\ m \in plain
    BY <1>9, <2>1
  <2>2. CASE n \in matched \/ m \in matched
    <3>1. n \in matched /\ m \in matched
      BY <2>2 DEF Matched, SameKey
    <3>2. QED BY <1>3, <3>1
  <2>3. QED BY <2>1, <2>2 DEF Unmatched
<1>17. Merge(then, given, pk, update) = Kept(then, f[N])
  <2>1. Merge(then, given, pk, update) =
           IF ~(pk \subseteq DOMAIN given[1]) \/ (update # {} /\ again) THEN Failed(then)
           ELSE Kept(then, WithUpserts("oracle", then, given, pk, update, left))
    BY <1>5, MergeIs DEF N
  <2> HIDE DEF again, left
  <2>2. QED BY <1>3, <1>11, <1>15, <1>16, <2>1
<1>18. Merge(then, given, pk, update) = first
  BY <1>3, <1>4, <1>17 DEF Kept
<1>19. QED BY <1>4, <1>18 DEF first, then, MergeStays

LEMMA NothingMerged ==
  ASSUME NEW table, IsTable(table), NEW given, IsBatch(given), Len(given) = 0,
         NEW pk, NEW update, Merge(table, given, pk, update).ok
  PROVE  MergeStays(table, given, pk, update)
<1>0. Len(given) \in Nat /\ DOMAIN given = {} /\ 0 \in 0..0
  BY DEF IsBatch
<1>1. ASSUME NEW t
      PROVE  Merge(t, given, pk, update) =
                IF ~(pk \subseteq DOMAIN given[1]) THEN Failed(t) ELSE Kept(t, t.rows)
  <2> DEFINE plain == DOMAIN given \ {n \in DOMAIN given : \E i \in DOMAIN t.rows :
                                         SameKey(t.rows[i], AsInserted("oracle", t, given[n]), pk)}
  <2>1. WithUpserts("oracle", t, given, pk, update, plain) = t.rows
    <3> HIDE DEF plain
    <3>1. PICK f : /\ Upserting(f, t.rows, NewRows("oracle", t, given), 0, pk, update, plain)
                   /\ WithUpserts("oracle", t, given, pk, update, plain) = f[0]
      BY <1>0, UpsertsGoOn
    <3>2. f[0] = t.rows
      BY <1>0, <3>1 DEF Upserting
    <3>3. QED BY <3>1, <3>2
  <2>2. QED BY <1>0, <2>1 DEF Merge
<1> DEFINE first == Merge(table, given, pk, update)
<1>2. first.ok /\ first = IF ~(pk \subseteq DOMAIN given[1]) THEN Failed(table) ELSE Kept(table, table.rows)
  BY <1>1
<1> HIDE DEF first
<1>3. pk \subseteq DOMAIN given[1] /\ KeyHolds(table.rows, table.key) /\ first = Became(table, table.rows)
  BY <1>2 DEF Kept, Failed
<1>4. LET t == [table EXCEPT !.rows = table.rows]
      IN  /\ t.columns = table.columns /\ t.key = table.key /\ t.rows = table.rows
          /\ [t EXCEPT !.rows = table.rows] = [table EXCEPT !.rows = table.rows]
  BY ContentsChange
<1>5. first.table = [table EXCEPT !.rows = table.rows]
  BY <1>3 DEF Became
<1>6. Merge(first.table, given, pk, update) = first
  <2> DEFINE then == [table EXCEPT !.rows = table.rows]
  <2>1. Merge(then, given, pk, update) = IF ~(pk \subseteq DOMAIN given[1]) THEN Failed(then) ELSE Kept(then, then.rows)
    BY <1>1
  <2>2. /\ then.key = table.key /\ then.rows = table.rows
        /\ [then EXCEPT !.rows = table.rows] = then
    BY <1>4
  <2> HIDE DEF then
  <2>3. Merge(then, given, pk, update) = Became(then, table.rows)
    BY <1>3, <2>1, <2>2 DEF Kept
  <2>4. Became(then, table.rows) = first
    BY <1>3, <2>2 DEF Became, then
  <2>5. QED BY <1>5, <2>3, <2>4 DEF then
<1>7. QED BY <1>4, <1>5, <1>6 DEF first, MergeStays

\* How the statement of an upsert finds the rows that are there.
FindsRows(dialect, table, given, pk) ==
    \/ dialect = "mysql" /\ table.key # {} /\ UpdateColumns(given, pk) # {}
    \/ dialect # "mysql" /\ pk = table.key
    \/ dialect = "oracle" /\ ToldApart(table, given, pk)

LEMMA BatchAgain ==
  ASSUME NEW dialect, NEW table, IsTable(table), NEW given, IsBatch(given), NEW pk, pk # {},
         FindsRows(dialect, table, given, pk),
         InsertBatch(dialect, table, given, "upsert", pk).ok
  PROVE  LET first == InsertBatch(dialect, table, given, "upsert", pk)
         IN  InsertBatch(dialect, first.table, given, "upsert", pk) = first
<1> DEFINE first == InsertBatch(dialect, table, given, "upsert", pk)
           update == UpdateColumns(given, pk)
           then == first.table
<1>0. Len(given) \in Nat /\ DOMAIN given = 1..Len(given) /\ table.key \subseteq DOMAIN table.columns
  BY DEF IsBatch, IsTable
<1>1. Binds(dialect, table, given)
  BY DEF InsertBatch, Failed
<1>2. ASSUME then.columns = table.columns PROVE Binds(dialect, then, given)
  BY <1>1, <1>2 DEF Binds
<1>3. CASE dialect = "mysql"
  <2>1. table.key # {} /\ update # {}
    BY <1>3 DEF FindsRows
  <2>2. \A t : MysqlInsert(t, given, "upsert", pk) = Upserted("mysql", t, given, t.key, update)
    BY <2>1 DEF MysqlInsert
  <2>3. first = Upserted("mysql", table, given, table.key, update)
    BY <1>1, <1>3, <2>2 DEF InsertBatch
  <2>4. Upserted("mysql", table, given, table.key, update).ok
    BY <2>3
  <2> HIDE DEF update
  <2>5. UpsertStays("mysql", table, given, update)
    BY <1>0, <2>1, <2>4, UpsertedAgain
  <2>6. /\ then.columns = table.columns /\ then.key = table.key
        /\ Upserted("mysql", then, given, table.key, update) = first
    BY <2>3, <2>5 DEF UpsertStays
  <2> HIDE DEF first
  <2>7. InsertBatch("mysql", then, given, "upsert", pk) = MysqlInsert(then, given, "upsert", pk)
    BY <1>2, <1>3, <2>6 DEF InsertBatch
  <2>8. QED BY <1>3, <2>2, <2>6, <2>7 DEF update, first
<1>4. CASE dialect = "postgresql"
  <2>1. pk = table.key
    BY <1>4 DEF FindsRows
  <2>2. \A t : t.key = pk => PostgresInsert(t, given, "upsert", pk) =
                                IF update # {} /\ Repeats("postgresql", t, given, pk) THEN Failed(t)
                                ELSE Upserted("postgresql", t, given, pk, update)
    BY DEF PostgresInsert
  <2>3. first = IF update # {} /\ Repeats("postgresql", table, given, pk) THEN Failed(table)
                ELSE Upserted("postgresql", table, given, table.key, update)
    BY <1>1, <1>4, <2>1, <2>2 DEF InsertBatch
  <2>4. first.ok
    OBVIOUS
  <2> HIDE DEF update, first
  <2>5. /\ ~(update # {} /\ Repeats("postgresql", table, given, pk))
        /\ first = Upserted("postgresql", table, given, table.key, update)
        /\ Upserted("postgresql", table, given, table.key, update).ok
    BY <2>3, <2>4 DEF Failed
  <2>6. UpsertStays("postgresql", table, given, update)
    BY <1>0, <2>1, <2>5, UpsertedAgain
  <2>7. /\ then.columns = table.columns /\ then.key = table.key
        /\ Upserted("postgresql", then, given, table.key, update) = first
    BY <2>5, <2>6 DEF UpsertStays
  <2>8. Repeats("postgresql", then, given, pk) <=> Repeats("postgresql", table, given, pk)
    BY <2>7 DEF Repeats, AsInserted
  <2>9. InsertBatch("postgresql", then, given, "upsert", pk) = PostgresInsert(then, given, "upsert", pk)
    BY <1>2, <1>4, <2>7 DEF InsertBatch
  <2>10. QED BY <1>4, <2>1, <2>2, <2>5, <2>7, <2>8, <2>9 DEF first
<1>5. CASE dialect \notin {"mysql", "postgresql"}
  <2>1. pk = table.key \/ ToldApart(table, given, pk)
    BY <1>5 DEF FindsRows
  <2>2. \A t : OracleInsert(t, given, "upsert", pk) = Merge(t, given, pk, update)
    BY DEF OracleInsert
  <2>3. first = Merge(table, given, pk, update)
    BY <1>1, <1>5, <2>2 DEF InsertBatch
  <2>4. Merge(table, given, pk, update).ok
    BY <2>3
  <2> HIDE DEF update
  <2>5. MergeStays(table, given, pk, update)
    <3>1. CASE Len(given) = 0
      BY <2>4, <3>1, NothingMerged
    <3>2. CASE Len(given) # 0
      <4>1. 1 \in DOMAIN given
        BY <1>0, <3>2
      <4>2. pk \subseteq DOMAIN given[1]
        BY <2>4 DEF Merge, Failed
      <4>3. pk \subseteq DOMAIN table.columns
        BY <1>1, <4>1, <4>2 DEF Binds
      <4>4. QED BY <2>1, <2>4, <4>3, MergedAgain
    <3>3. QED BY <3>1, <3>2
  <2>6. then.columns = table.columns /\ Merge(then, given, pk, update) = first
    BY <2>3, <2>5 DEF MergeStays
  <2> HIDE DEF first
  <2>7. InsertBatch(dialect, then, given, "upsert", pk) = OracleInsert(then, given, "upsert", pk)
    BY <1>2, <1>5, <2>6 DEF InsertBatch
  <2>8. QED BY <2>2, <2>6, <2>7 DEF update, first
<1>6. QED BY <1>3, <1>4, <1>5

(* A batch leaves a table a table, with its columns and its key.           *)
LEMMA UpsertsLeaveRows ==
  ASSUME NEW C, NEW V, NEW rows, NEW N, NEW new, NEW key, NEW update, NEW plain, NEW f,
         Batches(C, V, rows, new, N, {}), Upserting(f, rows, new, N, key, update, plain)
  PROVE  f[N] \in Seq(RowsOn(C, V))
<1>0. rows \in Seq(RowsOn(C, V)) /\ N \in Nat /\ new \in [1..N -> RowsOn(C, V)]
  BY DEF Batches
<1> DEFINE H == {n \in 0..N : f[n] \in Seq(RowsOn(C, V))}
<1>1. 0 \in H
  BY <1>0 DEF Upserting
<1>2. ASSUME NEW n \in 0..(N - 1), n \in H PROVE n + 1 \in H
  <2>1. n + 1 \in 1..N /\ n + 1 \in 0..N /\ n + 1 # 0 /\ (n + 1) - 1 = n
    BY <1>0
  <2>2. f[n] \in Seq(RowsOn(C, V)) /\ new[n + 1] \in RowsOn(C, V)
    BY <1>0, <1>2, <2>1
  <2>3. f[n + 1] = Append(f[n], new[n + 1]) \/ f[n + 1] = Put(f[n], new[n + 1], key, update)
    BY <2>1 DEF Upserting
  <2> DEFINE g == f[n]
             row == new[n + 1]
  <2>4. g \in Seq(RowsOn(C, V)) /\ row \in RowsOn(C, V) /\ f[n + 1] \in {Append(g, row), Put(g, row, key, update)}
    BY <2>2, <2>3
  <2> HIDE DEF g, row
  <2>5. Append(g, row) \in Seq(RowsOn(C, V)) /\ Put(g, row, key, update) \in Seq(RowsOn(C, V))
    BY <2>4, AppendProperties, PutSetsItsRows
  <2>6. QED BY <2>1, <2>4, <2>5
<1>3. N \in H
  <2> HIDE DEF H
  <2>1. \A n \in 0..N : n \in H
    BY <1>0, <1>1, <1>2, InductionTo
  <2>2. QED BY <1>0, <2>1
<1>4. QED BY <1>3

StaysTable(table, result) ==
    IsTable(result.table) /\ result.table.columns = table.columns /\ result.table.key = table.key

LEMMA KeptStaysTable ==
  ASSUME NEW table, IsTable(table), NEW V, NEW rows \in Seq(RowsOn(DOMAIN table.columns, V))
  PROVE  StaysTable(table, Kept(table, rows))
<1> DEFINE C == DOMAIN table.columns
           t == [table EXCEPT !.rows = rows]
<1>1. t = [columns |-> table.columns, key |-> table.key, rows |-> rows]
  BY DEF IsTable
<1>2. Len(rows) \in Nat /\ rows = [i \in 1..Len(rows) |-> [c \in C |-> rows[i][c]]]
  <2>1. rows \in [1..Len(rows) -> RowsOn(C, V)] /\ Len(rows) \in Nat
    BY LenProperties
  <2>2. \A i \in 1..Len(rows) : rows[i] = [c \in C |-> rows[i][c]]
    BY <2>1 DEF RowsOn
  <2> HIDE DEF C
  <2>3. rows = [i \in 1..Len(rows) |-> rows[i]]
    BY <2>1
  <2>4. QED BY <2>1, <2>2, <2>3
<1>3. table.key \subseteq C
  BY DEF IsTable
<1>4. KeyHolds(rows, table.key) => IsTable(t) /\ t.columns = table.columns /\ t.key = table.key
  BY <1>1, <1>2, <1>3 DEF IsTable
<1>5. \/ Kept(table, rows) = [ok |-> TRUE, table |-> t] /\ KeyHolds(rows, table.key)
      \/ Kept(table, rows) = Failed(table)
  BY DEF Kept, Became
<1> HIDE DEF t
<1>6. QED BY <1>4, <1>5 DEF StaysTable, Failed

LEMMA BatchStaysTable ==
  ASSUME NEW dialect, NEW table, IsTable(table), NEW given, IsBatch(given), NEW mode, NEW pk
  PROVE  StaysTable(table, InsertBatch(dialect, table, given, mode, pk))
<1> DEFINE C == DOMAIN table.columns
           N == Len(given)
<1>0. N \in Nat /\ DOMAIN given = 1..N
  BY DEF IsBatch
<1>1. StaysTable(table, Failed(table))
  BY DEF StaysTable, Failed
<1>2. ASSUME NEW d, NEW key, NEW update, NEW plain
      PROVE  StaysTable(table, Kept(table, WithUpserts(d, table, given, key, update, plain)))
  <2>1. PICK V : Batches(C, V, table.rows, NewRows(d, table, given), N, {})
    BY <1>0, TableGoesOn
  <2>2. PICK f : /\ Upserting(f, table.rows, NewRows(d, table, given), N, key, update, plain)
                 /\ WithUpserts(d, table, given, key, update, plain) = f[N]
    BY <1>0, UpsertsGoOn
  <2>3. f[N] \in Seq(RowsOn(C, V))
    BY <2>1, <2>2, UpsertsLeaveRows
  <2>4. StaysTable(table, Kept(table, f[N]))
    BY <2>3, KeptStaysTable
  <2>5. QED BY <2>2, <2>4
<1>3. ASSUME NEW d PROVE StaysTable(table, Insert(d, table, given))
  <2>1. PICK V : Batches(C, V, table.rows, NewRows(d, table, given), N, {})
    BY <1>0, TableGoesOn
  <2>2. NewRows(d, table, given) \in Seq(RowsOn(C, V)) /\ table.rows \in Seq(RowsOn(C, V))
    <3> HIDE DEF C, N
    <3> QED BY <1>0, <2>1, FunctionIsSeq DEF Batches
  <2>3. table.rows \o NewRows(d, table, given) \in Seq(RowsOn(C, V))
    <3> HIDE DEF C
    <3> QED BY <2>2, ConcatProperties
  <2>4. Insert(d, table, given) = Kept(table, table.rows \o NewRows(d, table, given))
    BY <1>0 DEF Insert, NewRows
  <2>5. StaysTable(table, Kept(table, table.rows \o NewRows(d, table, given)))
    BY <2>3, KeptStaysTable
  <2>6. QED BY <2>4, <2>5
<1>4. ASSUME NEW d, NEW key, NEW update PROVE StaysTable(table, Upserted(d, table, given, key, update))
  BY <1>2 DEF Upserted
<1>5. ASSUME NEW update PROVE StaysTable(table, Merge(table, given, pk, update))
  BY <1>1, <1>2 DEF Merge
<1>6. StaysTable(table, MysqlInsert(table, given, mode, pk))
  BY <1>3, <1>4 DEF MysqlInsert
<1>7. StaysTable(table, PostgresInsert(table, given, mode, pk))
  BY <1>1, <1>3, <1>4 DEF PostgresInsert
<1>8. StaysTable(table, OracleInsert(table, given, mode, pk))
  BY <1>3, <1>5 DEF OracleInsert
<1>9. QED BY <1>1, <1>6, <1>7, <1>8 DEF InsertBatch

-----------------------------------------------------------------------------
(* The plugins beside one another.                                         *)

(* There is one way to go on.                                              *)
LEMMA UpsertsAreOne ==
  ASSUME NEW rows, NEW N \in Nat, NEW new, NEW key, NEW update, NEW plain, NEW f, NEW g,
         Upserting(f, rows, new, N, key, update, plain), Upserting(g, rows, new, N, key, update, plain)
  PROVE  f[N] = g[N]
<1> DEFINE H == {n \in 0..N : f[n] = g[n]}
<1>1. 0 \in H
  BY DEF Upserting
<1>2. ASSUME NEW n \in 0..(N - 1), n \in H PROVE n + 1 \in H
  <2>1. n + 1 \in 0..N /\ n + 1 # 0 /\ (n + 1) - 1 = n /\ f[n] = g[n]
    BY <1>2
  <2>2. f[n + 1] = IF n + 1 \in plain THEN Append(f[n], new[n + 1]) ELSE Put(f[n], new[n + 1], key, update)
    BY <2>1 DEF Upserting
  <2>3. g[n + 1] = IF n + 1 \in plain THEN Append(g[n], new[n + 1]) ELSE Put(g[n], new[n + 1], key, update)
    BY <2>1 DEF Upserting
  <2>4. QED BY <2>1, <2>2, <2>3
<1>3. N \in H
  <2> HIDE DEF H
  <2>1. \A n \in 0..N : n \in H
    BY <1>1, <1>2, InductionTo
  <2>2. N \in 0..N
    OBVIOUS
  <2>3. QED BY <2>1, <2>2
<1>4. QED BY <1>3

(* An upsert by the key keeps it, when no row has a NULL in it.            *)
LEMMA UpsertsKeepKey ==
  ASSUME NEW C, NEW V, NEW rows, NEW N, NEW new, NEW key, NEW update, NEW f,
         Batches(C, V, rows, new, N, key), Upserting(f, rows, new, N, key, update, {}),
         HaveKeys(new, N, key), KeyHolds(rows, key)
  PROVE  KeyHolds(f[N], key)
<1>0. rows \in Seq(RowsOn(C, V)) /\ N \in Nat /\ new \in [1..N -> RowsOn(C, V)] /\ key \subseteq C
  BY DEF Batches
<1>k. UpsertsFrom(f, rows, new, N, key, update, {}, C, V)
  BY KeysStay
<1> DEFINE H == {n \in 0..N : KeyHolds(f[n], key)}
<1>1. 0 \in H
  BY <1>0, <1>k DEF UpsertsFrom
<1>2. ASSUME NEW n \in 0..(N - 1), n \in H PROVE n + 1 \in H
  <2>1. n + 1 \in 1..N /\ n + 1 \in 0..N /\ n \in 0..N /\ (n + 1) - 1 = n /\ n \in 0..(n + 1)
    BY <1>0
  <2> DEFINE g == f[n]
             row == new[n + 1]
             h == f[n + 1]
  <2>2. /\ g \in Seq(RowsOn(C, V)) /\ h \in Seq(RowsOn(C, V)) /\ Len(g) \in Nat
        /\ row \in RowsOn(C, V) /\ h = Put(g, row, key, update)
        /\ \A p \in 1..Len(g) : p \in 1..Len(h) /\ \A c \in key : h[p][c] = g[p][c]
    BY <1>0, <1>k, <2>1 DEF UpsertsFrom
  <2>3. KeyHolds(g, key) /\ \A c \in key : row[c] # Null
    BY <1>2, <2>1 DEF HaveKeys
  <2> HIDE DEF g, row
  <2>4. DOMAIN g = 1..Len(g) /\ DOMAIN h = 1..Len(h)
    BY <2>2, LenProperties
  <2> HIDE DEF h
  <2>5. CASE \E i \in 1..Len(g) : SameKey(g[i], row, key)
    <3>1. Len(h) = Len(g)
      BY <2>2, <2>5, PutSetsItsRows DEF IsSetBy
    <3>2. KeyHolds(h, key)
      BY <2>2, <2>3, <2>4, <3>1 DEF KeyHolds, SameKey
    <3>3. QED BY <2>1, <3>2 DEF h
  <2>6. CASE ~\E i \in 1..Len(g) : SameKey(g[i], row, key)
    <3>1. h = Append(g, row)
      BY <2>2, <2>6, PutSetsItsRows
    <3>2. Len(h) = Len(g) + 1 /\ h[Len(g) + 1] = row /\ \A i \in 1..Len(g) : h[i] = g[i]
      BY <2>2, <3>1, AppendProperties
    <3>3. \A i \in 1..Len(h) : i \in 1..Len(g) \/ (i = Len(g) + 1 /\ h[i] = row)
      BY <2>2, <3>2
    <3>4. \A i \in 1..Len(g) : ~SameKey(g[i], row, key) /\ ~SameKey(row, g[i], key)
      BY <2>6 DEF SameKey
    <3>5. ASSUME NEW i \in 1..Len(h), NEW j \in 1..Len(h), i # j PROVE ~SameKey(h[i], h[j], key)
      <4>1. CASE i \in 1..Len(g) /\ j \in 1..Len(g)
        BY <2>3, <2>4, <3>2, <3>5, <4>1 DEF KeyHolds
      <4>2. QED BY <3>2, <3>3, <3>4, <3>5, <4>1
    <3>6. \A i \in 1..Len(h) : \A c \in key : h[i][c] # Null
      BY <2>3, <2>4, <3>2, <3>3 DEF KeyHolds
    <3>7. KeyHolds(h, key)
      BY <2>4, <3>5, <3>6 DEF KeyHolds
    <3>8. QED BY <2>1, <3>7 DEF h
  <2>7. QED BY <2>5, <2>6
<1>3. N \in H
  <2> HIDE DEF H
  <2>1. \A n \in 0..N : n \in H
    BY <1>0, <1>1, <1>2, InductionTo
  <2>2. QED BY <1>0, <2>1
<1>4. QED BY <1>3

(* A plain INSERT that goes through is an upsert that finds nothing.       *)
LEMMA InsertsArePuts ==
  ASSUME NEW C, NEW V, NEW rows, NEW N, NEW new, NEW key, NEW update, NEW f,
         Batches(C, V, rows, new, N, key), Upserting(f, rows, new, N, key, update, {}),
         KeyHolds(rows \o new, key)
  PROVE  f[N] = rows \o new
<1>0. rows \in Seq(RowsOn(C, V)) /\ N \in Nat /\ new \in [1..N -> RowsOn(C, V)]
  BY DEF Batches
<1>k. UpsertsFrom(f, rows, new, N, key, update, {}, C, V)
  BY KeysStay
<1> DEFINE all == rows \o new
           L == Len(rows)
<1>1. new \in Seq(RowsOn(C, V)) /\ Len(new) = N /\ L \in Nat
  BY <1>0, FunctionIsSeq, LenProperties
<1>2. /\ all \in Seq(RowsOn(C, V)) /\ Len(all) = L + N /\ DOMAIN all = 1..(L + N)
      /\ \A i \in 1..L : all[i] = rows[i]
      /\ \A m \in 1..N : all[L + m] = new[m]
  <2>1. rows \in Seq(RowsOn(C, V)) /\ new \in Seq(RowsOn(C, V))
    BY <1>0, <1>1
  <2>2. /\ all \in Seq(RowsOn(C, V)) /\ Len(all) = Len(rows) + Len(new)
        /\ \A i \in 1..Len(rows) + Len(new) : all[i] = IF i <= Len(rows) THEN rows[i] ELSE new[i - Len(rows)]
    <3> HIDE DEF L
    <3> QED BY <2>1, ConcatProperties
  <2>3. DOMAIN all = 1..Len(all)
    BY <2>2, LenProperties
  <2> HIDE DEF all
  <2>4. /\ L \in Nat /\ Len(all) = L + N
        /\ \A i \in 1..(L + N) : all[i] = IF i <= L THEN rows[i] ELSE new[i - L]
    BY <1>1, <2>2
  <2> HIDE DEF L
  <2>5. \A i \in 1..L : i \in 1..(L + N) /\ i <= L
    BY <1>0, <2>4
  <2>6. \A m \in 1..N : L + m \in 1..(L + N) /\ ~(L + m <= L) /\ (L + m) - L = m
    BY <1>0, <2>4
  <2>7. \A m \in 1..N : all[L + m] = new[m]
    BY <2>4, <2>6
  <2>8. QED BY <2>2, <2>3, <2>4, <2>5, <2>7
<1>3. KeyHolds(all, key)
  OBVIOUS
<1> HIDE DEF all, L
<1> DEFINE H == {n \in 0..N : Len(f[n]) = L + n /\ \A i \in 1..(L + n) : f[n][i] = all[i]}
<1>4. 0 \in H
  BY <1>0, <1>1, <1>2, <1>k DEF UpsertsFrom, L
<1>5. ASSUME NEW n \in 0..(N - 1), n \in H PROVE n + 1 \in H
  <2>1. n + 1 \in 1..N /\ n + 1 \in 0..N /\ n \in 0..N /\ (n + 1) - 1 = n
    BY <1>0
  <2> DEFINE g == f[n]
             row == new[n + 1]
             h == f[n + 1]
  <2>2. /\ g \in Seq(RowsOn(C, V)) /\ row \in RowsOn(C, V) /\ h = Put(g, row, key, update)
    BY <1>0, <1>k, <2>1 DEF UpsertsFrom
  <2>3. Len(g) = L + n /\ (\A i \in 1..(L + n) : g[i] = all[i]) /\ row = all[L + (n + 1)]
    BY <1>2, <1>5, <2>1
  <2>4. /\ L + (n + 1) \in 1..(L + N) /\ \A i \in 1..(L + n) : i \in 1..(L + N) /\ i # L + (n + 1)
        /\ L + n \in Nat /\ (L + n) + 1 = L + (n + 1)
        /\ \A i \in 1..(L + (n + 1)) : i \in 1..(L + n) \/ i = L + (n + 1)
    BY <1>0, <1>1
  <2> HIDE DEF g, row, h
  <2>5. ~\E i \in 1..Len(g) : SameKey(g[i], row, key)
    BY <1>2, <1>3, <2>3, <2>4 DEF KeyHolds
  <2>6. h = Append(g, row)
    BY <2>2, <2>5, PutSetsItsRows
  <2>7. Len(h) = Len(g) + 1 /\ h[Len(g) + 1] = row /\ \A i \in 1..Len(g) : h[i] = g[i]
    BY <2>2, <2>6, AppendProperties
  <2>8. Len(h) = L + (n + 1) /\ \A i \in 1..(L + (n + 1)) : h[i] = all[i]
    BY <2>3, <2>4, <2>7
  <2>9. QED BY <2>1, <2>8 DEF h
<1>6. N \in H
  <2> HIDE DEF H
  <2>1. \A n \in 0..N : n \in H
    BY <1>0, <1>4, <1>5, InductionTo
  <2>2. QED BY <1>0, <2>1
<1>7. f[N] \in Seq(RowsOn(C, V))
  BY <1>0, <1>k DEF UpsertsFrom
<1>8. f[N] = all
  <2>1. Len(f[N]) = Len(all) /\ \A i \in 1..Len(f[N]) : f[N][i] = all[i]
    BY <1>2, <1>6
  <2>2. QED BY <1>2, <1>7, <2>1, SeqEqual
<1>9. QED BY <1>8 DEF all

(* One batch, three statements.                                            *)
Statements(table, given, pk) ==
    [mysql |-> MysqlInsert(table, given, "upsert", pk),
     postgresql |-> PostgresInsert(table, given, "upsert", pk),
     oracle |-> OracleInsert(table, given, "upsert", pk)]
Like(table, given, pk) ==
    LET N == Len(given)
        new == NewRows("mysql", table, given)
    IN  /\ NewRows("postgresql", table, given) = new /\ NewRows("oracle", table, given) = new
        /\ HaveKeys(new, N, pk)
Agree(result, update, repeats) ==
    \E u : /\ result.mysql.ok => result.mysql = u
           /\ result.postgresql.ok => result.postgresql = u
           /\ result.oracle.ok => result.oracle = u
           /\ u.ok
           /\ update # {} => result.mysql = u
           /\ ~repeats => result.postgresql = u /\ result.oracle = u

LEMMA StatementsAgree ==
  ASSUME NEW table, IsTable(table), NEW given, IsBatch(given), Len(given) # 0,
         NEW pk, pk = table.key, pk # {}, Like(table, given, pk)
  PROVE  Agree(Statements(table, given, pk), UpdateColumns(given, pk), Repeats("mysql", table, given, pk))
<1> DEFINE C == DOMAIN table.columns
           N == Len(given)
           new == NewRows("mysql", table, given)
           update == UpdateColumns(given, pk)
           rows == table.rows
           repeats == Repeats("mysql", table, given, pk)
<1>0. /\ N \in Nat /\ DOMAIN given = 1..N /\ 1 \in 1..N /\ pk \subseteq C /\ KeyHolds(rows, pk)
      /\ NewRows("postgresql", table, given) = new /\ NewRows("oracle", table, given) = new
      /\ HaveKeys(new, N, pk)
  BY DEF IsBatch, IsTable, Like
<1>1. PICK V : Batches(C, V, rows, new, N, pk)
  BY <1>0, TableGoesOn
<1>2. PICK f : /\ Upserting(f, rows, new, N, pk, update, {})
               /\ WithUpserts("mysql", table, given, pk, update, {}) = f[N]
  <2> HIDE DEF update
  <2>1. QED BY <1>0, UpsertsGoOn
<1> DEFINE u == Became(table, f[N])
<1>3. Kept(table, f[N]) = u
  <2> HIDE DEF new, rows, N, C, update
  <2>1. KeyHolds(f[N], pk)
    BY <1>0, <1>1, <1>2, UpsertsKeepKey
  <2>2. QED BY <2>1 DEF Kept
<1>4. repeats <=> \E n, m \in 1..N : n # m /\ SameKey(new[n], new[m], pk)
  BY <1>0 DEF Repeats, NewRows
<1>5. ~repeats => Unlike(new, N, pk)
  <2>1. \A n \in 1..N : SameKey(new[n], new[n], pk)
    BY <1>0 DEF SameKey, HaveKeys
  <2> HIDE DEF new, N, repeats
  <2>2. QED BY <1>4, <2>1 DEF Unlike
<1>6. MysqlInsert(table, given, "upsert", pk) = u \/ (update = {} /\ ~MysqlInsert(table, given, "upsert", pk).ok)
  <2>1. CASE update # {}
    <3>1. MysqlInsert(table, given, "upsert", pk) = Upserted("mysql", table, given, pk, update)
      BY <2>1 DEF MysqlInsert
    <3> HIDE DEF update
    <3>2. QED BY <1>2, <1>3, <3>1 DEF Upserted
  <2>2. CASE update = {}
    <3>1. MysqlInsert(table, given, "upsert", pk) = Insert("mysql", table, given)
      BY <2>2 DEF MysqlInsert
    <3>2. Insert("mysql", table, given) = Kept(table, rows \o new)
      BY <1>0 DEF Insert, NewRows
    <3>3. CASE KeyHolds(rows \o new, pk)
      <4> HIDE DEF new, rows, N, C, update
      <4>1. f[N] = rows \o new
        BY <1>1, <1>2, <3>3, InsertsArePuts
      <4>2. QED BY <1>3, <3>1, <3>2, <4>1
    <3>4. CASE ~KeyHolds(rows \o new, pk)
      <4> HIDE DEF new, rows
      <4>1. QED BY <2>2, <3>1, <3>2, <3>4 DEF Kept, Failed
    <3>5. QED BY <3>3, <3>4
  <2>3. QED BY <2>1, <2>2
<1>7. PostgresInsert(table, given, "upsert", pk) = u
      \/ (repeats /\ ~PostgresInsert(table, given, "upsert", pk).ok)
  <2>1. PICK h : /\ Upserting(h, rows, new, N, pk, update, {})
                 /\ WithUpserts("postgresql", table, given, pk, update, {}) = h[N]
    <3>1. PICK h : /\ Upserting(h, rows, NewRows("postgresql", table, given), N, pk, update, {})
                   /\ WithUpserts("postgresql", table, given, pk, update, {}) = h[N]
      <4> HIDE DEF update
      <4>1. QED BY <1>0, UpsertsGoOn
    <3>2. QED BY <1>0, <3>1
  <2>2. h[N] = f[N]
    <3> HIDE DEF new, rows, N, update
    <3>1. QED BY <1>0, <1>2, <2>1, UpsertsAreOne
  <2>3. Upserted("postgresql", table, given, pk, update) = u
    <3> HIDE DEF update
    <3>1. QED BY <1>3, <2>1, <2>2 DEF Upserted
  <2>4. Repeats("postgresql", table, given, pk) <=> repeats
    <3>1. Repeats("postgresql", table, given, pk) <=> \E n, m \in 1..N :
             n # m /\ SameKey(NewRows("postgresql", table, given)[n], NewRows("postgresql", table, given)[m], pk)
      BY <1>0 DEF Repeats, NewRows
    <3> HIDE DEF new, repeats
    <3>2. QED BY <1>0, <1>4, <3>1
  <2>5. PostgresInsert(table, given, "upsert", pk) =
           IF update # {} /\ Repeats("postgresql", table, given, pk) THEN Failed(table)
           ELSE Upserted("postgresql", table, given, pk, update)
    BY DEF PostgresInsert
  <2> HIDE DEF u, repeats, update
  <2>6. QED BY <2>3, <2>4, <2>5 DEF Failed
<1>8. OracleInsert(table, given, "upsert", pk) = u
      \/ (repeats /\ ~OracleInsert(table, given, "upsert", pk).ok)
  <2> DEFINE plain == Unmatched(rows, new, N, pk)
             matched == Matched(rows, new, N, pk)
             unstable == \E n, m \in matched : n # m /\ SameKey(new[n], new[m], pk)
  <2>1. PICK h : /\ Upserting(h, rows, new, N, pk, update, plain)
                 /\ WithUpserts("oracle", table, given, pk, update, plain) = h[N]
    <3>1. PICK h : /\ Upserting(h, rows, NewRows("oracle", table, given), N, pk, update, plain)
                   /\ WithUpserts("oracle", table, given, pk, update, plain) = h[N]
      <4> HIDE DEF update, plain
      <4>1. QED BY <1>0, UpsertsGoOn
    <3>2. QED BY <1>0, <3>1
  <2>2. KeyHolds(h[N], pk) \/ ~repeats => h[N] = f[N]
    <3>1. ASSUME KeyHolds(h[N], pk) \/ Unlike(new, N, pk) PROVE h[N] = f[N]
      <4> HIDE DEF new, rows, N, C, update
      <4>1. Upserting(h, rows, new, N, pk, update, {})
        BY <1>1, <2>1, <3>1, MergePuts
      <4>2. QED BY <1>0, <1>2, <4>1, UpsertsAreOne
    <3> HIDE DEF new, N, repeats
    <3>2. QED BY <1>5, <3>1
  <2>3. pk \subseteq DOMAIN given[1]
    <3>1. \A c \in pk : new[1][c] # Null
      BY <1>0 DEF HaveKeys
    <3>2. new[1] = AsInserted("mysql", table, given[1])
      BY <1>0 DEF NewRows
    <3> HIDE DEF new
    <3>3. QED BY <1>0, <3>1, <3>2 DEF AsInserted
  <2>4. unstable => repeats
    <3>1. matched \subseteq 1..N
      BY DEF Matched
    <3> HIDE DEF matched, new, N, repeats
    <3>2. QED BY <1>4, <3>1
  <2>5. OracleInsert(table, given, "upsert", pk) =
           IF update # {} /\ unstable THEN Failed(table) ELSE Kept(table, h[N])
    <3>1. OracleInsert(table, given, "upsert", pk) = Merge(table, given, pk, update)
      BY DEF OracleInsert
    <3> DEFINE other == NewRows("oracle", table, given)
               shaky == \E n, m \in Matched(rows, other, N, pk) : n # m /\ SameKey(other[n], other[m], pk)
    <3>2. Merge(table, given, pk, update) =
             IF ~(pk \subseteq DOMAIN given[1]) \/ (update # {} /\ shaky) THEN Failed(table)
             ELSE Kept(table, WithUpserts("oracle", table, given, pk, update, Unmatched(rows, other, N, pk)))
      <4> HIDE DEF update
      <4>1. QED BY MergeIs
    <3>3. Unmatched(rows, other, N, pk) = plain /\ (shaky <=> unstable)
      <4> HIDE DEF new, other
      <4>1. other = new
        BY <1>0 DEF other
      <4>2. QED BY <4>1
    <3> HIDE DEF shaky, unstable, update, plain
    <3>4. QED BY <2>1, <2>3, <3>1, <3>2, <3>3
  <2> HIDE DEF unstable, repeats, update
  <2>6. CASE update # {} /\ unstable
    BY <2>4, <2>5, <2>6 DEF Failed
  <2>7. CASE ~(update # {} /\ unstable)
    <3>1. OracleInsert(table, given, "upsert", pk) = Kept(table, h[N])
      BY <2>5, <2>7
    <3>2. CASE KeyHolds(h[N], pk) \/ ~repeats
      BY <1>3, <2>2, <3>1, <3>2
    <3>3. CASE ~KeyHolds(h[N], pk) /\ repeats
      BY <3>1, <3>3 DEF Kept, Failed
    <3>4. QED BY <3>2, <3>3
  <2>8. QED BY <2>6, <2>7
<1>9. u.ok
  BY DEF Became
<1> HIDE DEF u, repeats, update
<1>10. Agree(Statements(table, given, pk), update, repeats)
  BY <1>6, <1>7, <1>8, <1>9 DEF Agree, Statements
<1>11. QED BY <1>10 DEF repeats, update

(* A row is inserted as its normal form is.                                *)
LEMMA NormalInserted ==
  ASSUME NEW dialect, NEW table, NEW S, NEW rows \in Seq(S), NEW i \in DOMAIN rows
  PROVE  AsInserted(dialect, table, Normalise(rows)[i]) = AsInserted(dialect, table, rows[i])
<1>1. ~Is("bool", Null) /\ ~Is("uint", Null) /\ ~Is("string", Null) /\ ~Is("decimal", Null) /\ ~Is("date", Null)
  BY DEF Is, Null
<1>2. ~IsText(Null)
  BY <1>1 DEF IsText
<1>3. Stored(dialect, Null) = Null
  BY <1>1, <1>2, Zenon DEF Stored
<1>4. DOMAIN rows[i] \subseteq Columns(rows)
  BY DEF Columns
<1> DEFINE row == Normalise(rows)[i]
<1>5. /\ DOMAIN row = Columns(rows)
      /\ \A c \in Columns(rows) : row[c] = IF c \in DOMAIN rows[i] THEN rows[i][c] ELSE Null
  BY DEF Normalise, Only, ValueAt
<1> HIDE DEF row
<1>6. \A c : (IF c \in DOMAIN row THEN Stored(dialect, row[c]) ELSE Null)
             = (IF c \in DOMAIN rows[i] THEN Stored(dialect, rows[i][c]) ELSE Null)
  BY <1>3, <1>4, <1>5
<1>7. AsInserted(dialect, table, row) = AsInserted(dialect, table, rows[i])
  BY <1>6 DEF AsInserted
<1>8. QED BY <1>7 DEF row

-----------------------------------------------------------------------------
(* The tables and the batch of a state.                                    *)

TablesHold ==
    /\ \A t \in DOMAIN target : IsTable(target[t])
    /\ batch.rows \in Seq(ToSet(batch.rows))

LEMMA NormalIsBatch ==
  ASSUME NEW S, NEW rows \in Seq(S)
  PROVE  IsBatch(Normalise(rows))
<1>1. DOMAIN rows = 1..Len(rows) /\ Len(rows) \in Nat
  BY LenProperties
<1> DEFINE Row_(i) == Only(rows[i], Columns(rows))
           T == {Row_(i) : i \in 1..Len(rows)}
<1>2. Normalise(rows) = [i \in 1..Len(rows) |-> Row_(i)]
  BY <1>1 DEF Normalise
<1>3. \A i \in 1..Len(rows) : Row_(i) \in T
  OBVIOUS
<1> HIDE DEF Row_, T
<1>4. Normalise(rows) \in [1..Len(rows) -> T]
  BY <1>2, <1>3
<1>5. Len(Normalise(rows)) = Len(rows)
  BY <1>1, <1>4, FunctionIsSeq
<1>6. QED BY <1>1, <1>4, <1>5 DEF IsBatch

LEMMA InsertedStaysTable ==
  ASSUME TablesHold, NEW dialect, NEW table, IsTable(table)
  PROVE  IsTable(Inserted(dialect, table).table)
<1>1. IsBatch(Normalise(batch.rows))
  BY NormalIsBatch DEF TablesHold
<1>2. StaysTable(table, InsertBatch(dialect, table, Normalise(batch.rows), job.mode, pk_for(batch.table)))
  BY <1>1, BatchStaysTable
<1>3. QED BY <1>2 DEF StaysTable, Inserted, BatchInsert

LEMMA InsertedKeepsTable ==
  ASSUME TablesHold, NEW dialect, NEW table, IsTable(table)
  PROVE  StaysTable(table, Inserted(dialect, table))
<1>1. IsBatch(Normalise(batch.rows))
  BY NormalIsBatch DEF TablesHold
<1>2. QED BY <1>1, BatchStaysTable DEF Inserted, BatchInsert

LEMMA EmptiedIsTable ==
  ASSUME NEW table, IsTable(table)
  PROVE  LET empty == [table EXCEPT !.rows = <<>>]
         IN  IsTable(empty) /\ empty.columns = table.columns /\ empty.key = table.key /\ empty.rows = <<>>
<1> DEFINE empty == [table EXCEPT !.rows = <<>>]
<1>1. table = [columns |-> table.columns, key |-> table.key, rows |-> table.rows]
  BY DEF IsTable
<1>2. /\ empty.columns = table.columns /\ empty.key = table.key /\ empty.rows = <<>>
      /\ empty = [columns |-> empty.columns, key |-> empty.key, rows |-> empty.rows]
  BY <1>1
<1> HIDE DEF empty
<1>3. empty.rows = [i \in 1..Len(empty.rows) |-> [c \in DOMAIN empty.columns |-> empty.rows[i][c]]]
  BY <1>2
<1>4. KeyHolds(empty.rows, empty.key)
  BY <1>2 DEF KeyHolds
<1>5. IsTable(empty)
  BY <1>2, <1>3, <1>4 DEF IsTable
<1>6. QED BY <1>2, <1>5 DEF empty

LEMMA WriteBatchLeaves ==
  ASSUME WriteBatch
  PROVE  /\ job' = job /\ sent' = sent /\ began' = began /\ batch # NoBatch
         /\ batch' \in {batch, NoBatch} /\ out' \in {out, <<>>} /\ buckets' \in {buckets, <<>>}
         /\ \/ target' = target
            \/ /\ batch.table \in DOMAIN target
               /\ target' = [target EXCEPT ![batch.table] = Inserted(job.target, target[batch.table]).table]
<1>1. ~Failed(<<>>).ok
  BY DEF Failed
<1>2. QED BY <1>1 DEF WriteBatch, ReturnErr, sourceVars, historyVars

LEMMA TruncateLeaves ==
  ASSUME Truncate
  PROVE  /\ job' = job /\ sent' = sent /\ batch # NoBatch /\ job.mode = "full"
         /\ batch' \in {batch, NoBatch} /\ out' \in {out, <<>>} /\ buckets' \in {buckets, <<>>}
         /\ \/ target' = target
            \/ batch.table \in DOMAIN target /\ target' = [target EXCEPT ![batch.table].rows = <<>>]
BY DEF Truncate, ReturnErr, sourceVars

LEMMA TablesHoldAfterStep ==
  ASSUME PathTyped, Bucketed, TablesHold, [PathNext]_pathVars
  PROVE  TablesHold'
<1>1. NoBatch.rows \in Seq(ToSet(NoBatch.rows))
  BY DEF NoBatch
<1>2. ASSUME target' = target, batch' \in {batch, NoBatch} PROVE TablesHold'
  BY <1>1, <1>2 DEF TablesHold
<1>3. CASE StartPass \/ NextPage \/ RunEtl
  <2>1. target' = target /\ batch' \in {batch, NoBatch}
    BY <1>3 DEF StartPass, NextPage, RunEtl, ReturnErr
  <2>2. QED BY <1>2, <2>1
<1>4. CASE PushRow
  <2> DEFINE t == Head(out).table
             old == IF t \in DOMAIN buckets THEN buckets[t] ELSE <<>>
             row == Head(out).row
             bucket == Append(old, row)
             S == ToSet(old) \cup {row}
  <2>1. target' = target /\ (batch' = NoBatch \/ batch' = [table |-> t, rows |-> bucket])
    BY <1>4 DEF PushRow, PushUpTo
  <2>2. old \in Seq(ToSet(old))
    <3>1. CASE t \in DOMAIN buckets
      BY <3>1 DEF Bucketed, BucketFits
    <3>2. CASE t \notin DOMAIN buckets
      <4>1. old = <<>> /\ <<>> \in Seq(ToSet(<<>>))
        BY <3>2
      <4> HIDE DEF old
      <4>2. QED BY <4>1
    <3>3. QED BY <3>1, <3>2
  <2> HIDE DEF t, old, row
  <2>3. old \in Seq(S) /\ row \in S
    BY <2>2
  <2>4. bucket \in Seq(ToSet(bucket))
    <3>1. bucket \in Seq(S)
      BY <2>3, AppendProperties
    <3>2. QED BY <3>1, OverItsElements
  <2> HIDE DEF bucket
  <2>5. batch'.rows \in Seq(ToSet(batch'.rows))
    BY <1>1, <2>1, <2>4
  <2>6. QED BY <2>1, <2>5 DEF TablesHold
<1>5. CASE Drain
  <2>1. PICK t \in DOMAIN buckets : batch' = [table |-> t, rows |-> buckets[t]]
    BY <1>5 DEF Drain
  <2>2. target' = target
    BY <1>5 DEF Drain
  <2>3. buckets[t] \in Seq(ToSet(buckets[t]))
    BY DEF Bucketed, BucketFits
  <2>4. QED BY <2>1, <2>2, <2>3 DEF TablesHold
<1>6. CASE WriteBatch
  <2>1. batch' \in {batch, NoBatch}
    BY <1>6, WriteBatchLeaves
  <2>2. batch'.rows \in Seq(ToSet(batch'.rows))
    BY <1>1, <2>1 DEF TablesHold
  <2>3. CASE target' = target
    BY <2>2, <2>3 DEF TablesHold
  <2>4. CASE batch.table \in DOMAIN target
             /\ target' = [target EXCEPT ![batch.table] = Inserted(job.target, target[batch.table]).table]
    <3>1. IsTable(Inserted(job.target, target[batch.table]).table)
      BY <2>4, InsertedStaysTable DEF TablesHold
    <3>2. \A t \in DOMAIN target' : IsTable(target'[t])
      BY <2>4, <3>1 DEF TablesHold
    <3>3. QED BY <2>2, <3>2 DEF TablesHold
  <2>5. QED BY <1>6, <2>3, <2>4, WriteBatchLeaves
<1>9. CASE Truncate
  <2>1. batch' \in {batch, NoBatch}
    BY <1>9, TruncateLeaves
  <2>2. batch'.rows \in Seq(ToSet(batch'.rows))
    BY <1>1, <2>1 DEF TablesHold
  <2>3. CASE target' = target
    BY <2>2, <2>3 DEF TablesHold
  <2>4. CASE batch.table \in DOMAIN target /\ target' = [target EXCEPT ![batch.table].rows = <<>>]
    <3>1. IsTable([target[batch.table] EXCEPT !.rows = <<>>])
      BY <2>4, EmptiedIsTable DEF TablesHold
    <3>2. \A t \in DOMAIN target' : IsTable(target'[t])
      BY <2>4, <3>1 DEF TablesHold
    <3>3. QED BY <2>2, <3>2 DEF TablesHold
  <2>5. QED BY <1>9, <2>3, <2>4, TruncateLeaves
<1>7. CASE Save \/ SourceInsert \/ NeighbourSaves \/ Crash \/ Restart \/ UNCHANGED pathVars
  <2>1. target' = target /\ batch' \in {batch, NoBatch}
    BY <1>7 DEF Save, SourceInsert, NeighbourSaves, Crash, Restart, pathVars, passVars
  <2>2. QED BY <1>2, <2>1
<1>8. QED BY <1>3, <1>4, <1>5, <1>6, <1>7, <1>9 DEF PathNext, PathStep

LEMMA TablesAlwaysHold == PathSpec => []TablesHold
<1>1. PathInit => TablesHold
  <2> SUFFICES ASSUME PathInit PROVE TablesHold
    OBVIOUS
  <2>1. JobIsGiven /\ target = job.tables /\ batch = NoBatch
    BY DEF PathInit, JobIsGiven
  <2>2. \A t \in DOMAIN job.tables : IsTable(job.tables[t])
    BY <2>1, JobsAssumption DEF JobIsGiven
  <2>3. NoBatch.rows \in Seq(ToSet(NoBatch.rows))
    BY DEF NoBatch
  <2>4. QED BY <2>1, <2>2, <2>3 DEF TablesHold
<1>2. PathTyped /\ Bucketed /\ TablesHold /\ [PathNext]_pathVars => TablesHold'
  BY TablesHoldAfterStep
<1>3. DataInv => PathTyped /\ Bucketed
  BY DEF DataInv
<1>4. QED BY <1>1, <1>2, <1>3, DataInvariant, PTL DEF PathSpec

LEMMA UpsertedTwice ==
  ASSUME TablesHold
  PROVE  UpsertIsRepeatable
<1> DEFINE table == target[batch.table]
           rows == Normalise(batch.rows)
           pk == pk_for(batch.table)
           first == Inserted(job.target, table)
<1>1. SUFFICES ASSUME batch.table \in DOMAIN target, job.mode = "upsert", pk # {},
                      FindsRows(job.target, table, rows, pk), first.ok
               PROVE  Inserted(job.target, first.table) = first
  BY DEF UpsertIsRepeatable, FindsRows, ToldApart
<1>2. \A t : Inserted(job.target, t) = InsertBatch(job.target, t, rows, "upsert", pk)
  BY <1>1 DEF Inserted, BatchInsert
<1>3. IsTable(table) /\ IsBatch(rows)
  BY <1>1, NormalIsBatch DEF TablesHold
<1>4. /\ InsertBatch(job.target, table, rows, "upsert", pk).ok
      /\ first = InsertBatch(job.target, table, rows, "upsert", pk)
  BY <1>1, <1>2
<1>5. pk # {} /\ FindsRows(job.target, table, rows, pk)
  BY <1>1
<1> HIDE DEF table, rows, pk, first
<1>6. InsertBatch(job.target, InsertBatch(job.target, table, rows, "upsert", pk).table, rows, "upsert", pk)
         = InsertBatch(job.target, table, rows, "upsert", pk)
  BY <1>3, <1>4, <1>5, BatchAgain
<1>7. QED BY <1>2, <1>4, <1>6

(* For every batch, table and database: an upsert that finds its rows by   *)
(* the key can be sent again.                                              *)
THEOREM UpsertsCanBeRepeated == PathSpec => []UpsertIsRepeatable
<1>1. TablesHold => UpsertIsRepeatable
  BY UpsertedTwice
<1>2. QED BY <1>1, TablesAlwaysHold, PTL

LEMMA BatchesAgree ==
  ASSUME TablesHold
  PROVE  PluginsAgree
<1> DEFINE table == target[batch.table]
           pk == pk_for(batch.table)
           all == {"mysql", "postgresql", "oracle"}
           New(d, i) == AsInserted(d, table, batch.rows[i])
           given == Normalise(batch.rows)
           result == [d \in all |-> Inserted(d, table)]
           update == UpdateColumns(given, pk)
<1>1. SUFFICES ASSUME batch.rows # <<>>, batch.table \in DOMAIN target, job.mode = "upsert",
                      pk # {}, pk = table.key, \A d \in all : Binds(d, table, given),
                      \A i \in DOMAIN batch.rows : \A d, e \in all : New(d, i) = New(e, i),
                      \A i \in DOMAIN batch.rows : \A c \in pk : New("mysql", i)[c] # Null
               PROVE  /\ \A d, e \in all : result[d].ok /\ result[e].ok => result[d] = result[e]
                      /\ result["mysql"].ok \/ update = {}
                      /\ ~Repeats("mysql", table, batch.rows, pk) => result["postgresql"].ok /\ result["oracle"].ok
  BY DEF PluginsAgree
<1> DEFINE S == ToSet(batch.rows)
<1>2. batch.rows \in Seq(S) /\ IsTable(table)
  BY <1>1 DEF TablesHold
<1> HIDE DEF S
<1>3. /\ IsBatch(given) /\ Len(given) # 0 /\ DOMAIN given = DOMAIN batch.rows
      /\ DOMAIN batch.rows = 1..Len(given)
  <2>1. IsBatch(given)
    BY <1>2, NormalIsBatch
  <2>2. DOMAIN given = DOMAIN batch.rows
    BY DEF Normalise
  <2>3. DOMAIN batch.rows = 1..Len(batch.rows) /\ Len(batch.rows) \in Nat \ {0}
    BY <1>1, <1>2, LenProperties, EmptySeq
  <2> HIDE DEF given
  <2>4. DOMAIN given = 1..Len(given)
    BY <2>1 DEF IsBatch
  <2>5. QED BY <2>1, <2>2, <2>3, <2>4 DEF IsBatch
<1>4. \A d \in all : \A i \in DOMAIN batch.rows : AsInserted(d, table, given[i]) = New(d, i)
  BY <1>2, NormalInserted
<1>5. Like(table, given, pk)
  <2>1. \A d \in all : NewRows(d, table, given) = [n \in 1..Len(given) |-> New(d, n)]
    BY <1>3, <1>4 DEF NewRows
  <2> HIDE DEF New, given
  <2>2. \A d \in all : NewRows(d, table, given) = NewRows("mysql", table, given)
    BY <1>1, <1>3, <2>1
  <2>3. HaveKeys(NewRows("mysql", table, given), Len(given), pk)
    BY <1>1, <1>3, <2>1 DEF HaveKeys
  <2>4. QED BY <2>2, <2>3 DEF Like
<1>6. Agree(Statements(table, given, pk), update, Repeats("mysql", table, given, pk))
  <2> HIDE DEF table, given, pk
  <2>1. QED BY <1>1, <1>2, <1>3, <1>5, StatementsAgree
<1>7. Repeats("mysql", table, given, pk) <=> Repeats("mysql", table, batch.rows, pk)
  BY <1>3, <1>4 DEF Repeats
<1>8. \A d \in all : result[d] = Statements(table, given, pk)[d]
  <2>1. \A d \in all : Inserted(d, table) = InsertBatch(d, table, given, "upsert", pk)
    BY <1>1 DEF Inserted, BatchInsert
  <2> HIDE DEF table, given, pk
  <2>2. \A d \in all : InsertBatch(d, table, given, "upsert", pk) = Statements(table, given, pk)[d]
    BY <1>1 DEF InsertBatch, Statements
  <2>3. QED BY <2>1, <2>2
<1> HIDE DEF table, given, pk, result, update
<1>9. QED BY <1>6, <1>7, <1>8 DEF Agree

(* For every batch and table: the plugins that write it leave the same     *)
(* rows behind.                                                            *)
THEOREM PluginsWriteAlike == PathSpec => []PluginsAgree
<1>1. TablesHold => PluginsAgree
  BY BatchesAgree
<1>2. QED BY <1>1, TablesAlwaysHold, PTL

-----------------------------------------------------------------------------
(* The newest row of each key.                                             *)

(* What an upsert does not set stays, or is that of a row it appends.      *)
LEMMA RestStays ==
  ASSUME NEW C, NEW V, NEW rows, NEW N, NEW new, NEW key, NEW update, NEW f,
         Batches(C, V, rows, new, N, key), Upserting(f, rows, new, N, key, update, {})
  PROVE  \A n \in 0..N : \A p \in 1..Len(f[n]) :
            /\ p \in 1..Len(rows) /\ (\A m \in 1..n : ~SameKey(rows[p], new[m], key)) => f[n][p] = rows[p]
            /\ \A c \in C \ update :
                  IF p \in 1..Len(rows) THEN f[n][p][c] = rows[p][c] ELSE \E m \in 1..n : f[n][p][c] = new[m][c]
<1>0. /\ rows \in Seq(RowsOn(C, V)) /\ N \in Nat /\ new \in [1..N -> RowsOn(C, V)] /\ Len(rows) \in Nat
  BY LenProperties DEF Batches
<1>k. UpsertsFrom(f, rows, new, N, key, update, {}, C, V)
  BY KeysStay
<1>1. /\ f[0] = rows /\ \A n \in 0..N : f[n] \in Seq(RowsOn(C, V)) /\ Len(f[n]) \in Nat
      /\ \A n \in 1..N : f[n] = Put(f[n - 1], new[n], key, update)
      /\ \A n \in 0..N : \A m \in 0..n : \A p \in 1..Len(f[m]) :
            p \in 1..Len(f[n]) /\ \A c \in key : f[n][p][c] = f[m][p][c]
  BY <1>k DEF UpsertsFrom
<1> DEFINE Stays(n) == \A p \in 1..Len(f[n]) :
              p \in 1..Len(rows) /\ (\A m \in 1..n : ~SameKey(rows[p], new[m], key)) => f[n][p] = rows[p]
           Rest(n) == \A p \in 1..Len(f[n]) : \A c \in C \ update :
              IF p \in 1..Len(rows) THEN f[n][p][c] = rows[p][c] ELSE \E m \in 1..n : f[n][p][c] = new[m][c]
           H == {n \in 0..N : Stays(n) /\ Rest(n)}
<1>2. 0 \in H
  BY <1>0, <1>1
<1>3. ASSUME NEW n \in 0..(N - 1), n \in H PROVE n + 1 \in H
  <2>1. /\ n + 1 \in 1..N /\ n + 1 \in 0..N /\ (n + 1) - 1 = n /\ n \in 0..N /\ 0 \in 0..n
        /\ n + 1 \in 1..(n + 1) /\ \A m \in 1..n : m \in 1..(n + 1)
    BY <1>0
  <2> DEFINE g == f[n]
             row == new[n + 1]
             h == f[n + 1]
  <2>2. /\ g \in Seq(RowsOn(C, V)) /\ h \in Seq(RowsOn(C, V)) /\ Len(g) \in Nat /\ row \in RowsOn(C, V)
        /\ h = Put(g, row, key, update)
    BY <1>0, <1>1, <2>1
  <2>3. \A p \in 1..Len(rows) : p \in 1..Len(g) /\ \A c \in key : g[p][c] = rows[p][c]
    BY <1>1, <2>1
  <2>4. Stays(n) /\ Rest(n)
    BY <1>3
  <2>5. IF \E i \in 1..Len(g) : SameKey(g[i], row, key)
        THEN /\ Len(h) = Len(g)
             /\ \A i \in 1..Len(g) : \A c \in C :
                   h[i][c] = IF SameKey(g[i], row, key) /\ c \in update THEN row[c] ELSE g[i][c]
        ELSE Len(h) = Len(g) + 1 /\ h[Len(g) + 1] = row /\ \A i \in 1..Len(g) : h[i] = g[i]
    <3> HIDE DEF g, row, h
    <3>1. CASE \E i \in 1..Len(g) : SameKey(g[i], row, key)
      BY <2>2, <3>1, PutSetsItsRows DEF IsSetBy
    <3>2. CASE ~\E i \in 1..Len(g) : SameKey(g[i], row, key)
      <4>1. h = Append(g, row)
        BY <2>2, <3>2, PutSetsItsRows
      <4>2. QED BY <2>2, <3>2, <4>1, AppendProperties
    <3>3. QED BY <3>1, <3>2
  <2>6. Stays(n + 1)
    <3> SUFFICES ASSUME NEW p \in 1..Len(h), p \in 1..Len(rows),
                        \A m \in 1..(n + 1) : ~SameKey(rows[p], new[m], key)
                 PROVE  h[p] = rows[p]
      OBVIOUS
    <3>1. g[p] = rows[p] /\ p \in 1..Len(g) /\ ~SameKey(rows[p], row, key)
      BY <2>1, <2>3, <2>4
    <3> HIDE DEF g, row, h
    <3>2. CASE \E i \in 1..Len(g) : SameKey(g[i], row, key)
      <4>1. h[p] \in RowsOn(C, V) /\ g[p] \in RowsOn(C, V)
        BY <2>2, <3>1, ElementOfSeq
      <4>2. \A c \in C : h[p][c] = g[p][c]
        BY <2>5, <3>1, <3>2
      <4>3. QED BY <3>1, <4>1, <4>2 DEF RowsOn
    <3>3. QED BY <2>5, <3>1, <3>2
  <2>7. Rest(n + 1)
    <3> SUFFICES ASSUME NEW p \in 1..Len(h), NEW c \in C \ update
                 PROVE  IF p \in 1..Len(rows) THEN h[p][c] = rows[p][c] ELSE \E m \in 1..(n + 1) : h[p][c] = new[m][c]
      OBVIOUS
    <3>1. CASE p \in 1..Len(g)
      <4>1. h[p][c] = g[p][c]
        <5> HIDE DEF g, row, h
        <5> QED BY <2>5, <3>1
      <4>2. IF p \in 1..Len(rows) THEN g[p][c] = rows[p][c] ELSE \E m \in 1..n : g[p][c] = new[m][c]
        BY <2>4, <3>1
      <4> HIDE DEF g, row, h
      <4>3. QED BY <2>1, <4>1, <4>2
    <3>2. CASE p \notin 1..Len(g)
      <4>1. h[p] = row /\ p \notin 1..Len(rows)
        <5>1. p \notin 1..Len(rows)
          BY <2>3, <3>2
        <5> HIDE DEF g, row, h
        <5>2. QED BY <2>2, <2>5, <3>2, <5>1
      <4>2. QED BY <2>1, <4>1
    <3>3. QED BY <3>1, <3>2
  <2>8. QED BY <2>1, <2>6, <2>7
<1>4. \A n \in 0..N : n \in H
  <2> HIDE DEF H
  <2>1. QED BY <1>0, <1>2, <1>3, InductionTo
<1> HIDE DEF Stays, Rest
<1>5. \A n \in 0..N : Stays(n) /\ Rest(n)
  BY <1>4
<1>6. QED BY <1>5 DEF Stays, Rest

(* Of L rows that went into a table, n[i] as they were inserted and h[i]   *)
(* the columns they had: the last of each key is there, with its values;   *)
(* old are the rows that were there before the first of them.              *)
Earlier(key, n, h, old, i, c) ==
    {n[j][c] : j \in {j \in 1..(i - 1) : SameKey(n[j], n[i], key) /\ c \in h[j]}}
    \cup {row[c] : row \in {row \in old : SameKey(row, n[i], key)}} \cup {Null}
IsLast(key, L, n, i) == \A j \in 1..L : SameKey(n[j], n[i], key) => j <= i
IsThere(C, key, rows, n, h, old, i, p) ==
    /\ SameKey(rows[p], n[i], key)
    /\ \A c \in C \ key : IF c \in h[i] THEN rows[p][c] = n[i][c] ELSE rows[p][c] \in Earlier(key, n, h, old, i, c)
HasNewest(C, key, rows, L, n, h, old) ==
    /\ \A p \in 1..Len(rows) : rows[p] \in old \/ \E i \in 1..L : SameKey(rows[p], n[i], key)
    /\ \A i \in 1..L : IsLast(key, L, n, i) => \E p \in 1..Len(rows) : IsThere(C, key, rows, n, h, old, i, p)

\* What the rows of a batch have, of which all columns are B.
Taken(C, B, N, new, has) == \A m \in 1..N : has[m] \subseteq B /\ \A c \in C \ has[m] : new[m][c] = Null
Joined(L, n, h, N, new, has, an, ah) ==
    /\ \A i \in 1..L : an[i] = n[i] /\ ah[i] = h[i]
    /\ \A m \in 1..N : an[L + m] = new[m] /\ ah[L + m] = has[m]

(* An upsert of a batch, row by row, leaves the last row of each key of    *)
(* the rows before it and of the batch.                                    *)
LEMMA FoldHasNewest ==
  ASSUME NEW C, NEW V, NEW rows, NEW N, NEW new, NEW key, NEW update, NEW f,
         Batches(C, V, rows, new, N, key), Upserting(f, rows, new, N, key, update, {}),
         key # {}, KeyHolds(rows, key), KeyHolds(f[N], key),
         NEW B, \A c \in C \ key : c \in update <=> c \in B, NEW has, Taken(C, B, N, new, has),
         NEW old, NEW L \in Nat, NEW n, NEW h, HasNewest(C, key, rows, L, n, h, old),
         NEW an, NEW ah, Joined(L, n, h, N, new, has, an, ah)
  PROVE  HasNewest(C, key, f[N], L + N, an, ah, old)
<1> DEFINE r == f[N]
<1>0. /\ N \in Nat /\ N \in 0..N /\ 0 \in 0..N /\ key \subseteq C
      /\ rows \in Seq(RowsOn(C, V)) /\ Len(rows) \in Nat /\ DOMAIN rows = 1..Len(rows)
  BY LenProperties DEF Batches
<1>k. UpsertsFrom(f, rows, new, N, key, update, {}, C, V)
  BY KeysStay
<1>1. /\ Len(r) \in Nat /\ DOMAIN r = 1..Len(r)
      /\ \A p \in 1..Len(rows) : p \in 1..Len(r) /\ \A c \in key : r[p][c] = rows[p][c]
  BY <1>0, <1>k, LenProperties DEF UpsertsFrom
<1>2. /\ \A m \in 1..N : \E p \in 1..Len(r) : \A c \in key : r[p][c] = new[m][c]
      /\ \A p \in 1..Len(r) : p \in 1..Len(rows) \/ \E m \in 1..N : \A c \in key : r[p][c] = new[m][c]
  BY <1>0, RowsOfBatch
<1>3. \A p \in 1..Len(r) : \A m \in 1..N :
         SameKey(r[p], new[m], key) /\ (\A k \in (m + 1)..N : ~SameKey(r[p], new[k], key))
         => \A c \in update \cap C : r[p][c] = new[m][c]
  BY <1>0, LastRowWins
<1>4. \A p \in 1..Len(r) :
         /\ p \in 1..Len(rows) /\ (\A m \in 1..N : ~SameKey(rows[p], new[m], key)) => r[p] = rows[p]
         /\ \A c \in C \ update :
               IF p \in 1..Len(rows) THEN r[p][c] = rows[p][c] ELSE \E m \in 1..N : r[p][c] = new[m][c]
  BY <1>0, RestStays
<1> HIDE DEF r
<1>5. /\ \A p \in 1..Len(r) : \A c \in key : r[p][c] # Null
      /\ \A p, q \in 1..Len(rows) : SameKey(rows[p], rows[q], key) => p = q
  BY <1>0, <1>1 DEF KeyHolds, r
<1>6. \A a, b, d : /\ SameKey(a, b, key) => SameKey(b, a, key)
                   /\ SameKey(a, b, key) /\ SameKey(b, d, key) => SameKey(a, d, key)
  BY DEF SameKey
<1>7. /\ \A p \in 1..Len(rows) : rows[p] \in old \/ \E i \in 1..L : SameKey(rows[p], n[i], key)
      /\ \A i \in 1..L : IsLast(key, L, n, i) => \E p \in 1..Len(rows) : IsThere(C, key, rows, n, h, old, i, p)
  BY DEF HasNewest
<1>8. /\ \A i \in 1..L : an[i] = n[i] /\ ah[i] = h[i] /\ i \in 1..(L + N)
      /\ \A m \in 1..N : an[L + m] = new[m] /\ ah[L + m] = has[m] /\ L + m \in 1..(L + N)
      /\ \A i \in 1..(L + N) : i \in 1..L \/ \E m \in 1..N : i = L + m
  <2>1. ASSUME NEW i \in 1..(L + N), i \notin 1..L PROVE \E m \in 1..N : i = L + m
    <3>1. i - L \in 1..N /\ i = L + (i - L)
      BY <1>0, <2>1
    <3>2. QED BY <3>1
  <2>2. QED BY <1>0, <2>1 DEF Joined
<1>9. \A p \in 1..Len(r) : r[p] \in old \/ \E i \in 1..(L + N) : SameKey(r[p], an[i], key)
  <2> SUFFICES ASSUME NEW p \in 1..Len(r)
               PROVE  r[p] \in old \/ \E i \in 1..(L + N) : SameKey(r[p], an[i], key)
    OBVIOUS
  <2>1. ASSUME NEW m \in 1..N, \A c \in key : r[p][c] = new[m][c]
        PROVE  \E i \in 1..(L + N) : SameKey(r[p], an[i], key)
    <3>1. SameKey(r[p], new[m], key)
      BY <1>5, <2>1 DEF SameKey
    <3>2. QED BY <1>8, <3>1
  <2>2. CASE p \in 1..Len(rows)
    <3>1. CASE \E m \in 1..N : SameKey(rows[p], new[m], key)
      <4>1. PICK m \in 1..N : SameKey(rows[p], new[m], key)
        BY <3>1
      <4>2. \A c \in key : r[p][c] = new[m][c]
        BY <1>1, <2>2, <4>1 DEF SameKey
      <4>3. QED BY <2>1, <4>2
    <3>2. CASE ~\E m \in 1..N : SameKey(rows[p], new[m], key)
      <4>1. r[p] = rows[p]
        BY <1>4, <2>2, <3>2
      <4>2. QED BY <1>7, <1>8, <2>2, <4>1
    <3>3. QED BY <3>1, <3>2
  <2>3. QED BY <1>2, <2>1, <2>2
<1>10. ASSUME NEW i \in 1..L, IsLast(key, L + N, an, i)
       PROVE  \E p \in 1..Len(r) : IsThere(C, key, r, an, ah, old, i, p)
  <2>1. IsLast(key, L, n, i)
    BY <1>8, <1>10 DEF IsLast
  <2>2. PICK p \in 1..Len(rows) : IsThere(C, key, rows, n, h, old, i, p)
    BY <1>7, <2>1
  <2>3. \A m \in 1..N : ~SameKey(rows[p], new[m], key)
    <3> SUFFICES ASSUME NEW m \in 1..N, SameKey(rows[p], new[m], key) PROVE FALSE
      OBVIOUS
    <3>1. SameKey(rows[p], n[i], key)
      BY <2>2 DEF IsThere
    <3>2. SameKey(an[L + m], an[i], key) /\ L + m \in 1..(L + N)
      BY <1>6, <1>8, <3>1
    <3>3. ~(L + m <= i)
      OBVIOUS
    <3>4. QED BY <1>10, <3>2, <3>3 DEF IsLast
  <2>4. p \in 1..Len(r) /\ r[p] = rows[p]
    BY <1>1, <1>4, <2>3
  <2>5. an[i] = n[i] /\ ah[i] = h[i] /\ \A j \in 1..(i - 1) : an[j] = n[j] /\ ah[j] = h[j]
    BY <1>8
  <2>6. \A c : Earlier(key, an, ah, old, i, c) = Earlier(key, n, h, old, i, c)
    BY <2>5 DEF Earlier
  <2>7. IsThere(C, key, r, an, ah, old, i, p)
    BY <2>2, <2>4, <2>5, <2>6 DEF IsThere
  <2>8. QED BY <2>4, <2>7
<1>11. ASSUME NEW m \in 1..N, IsLast(key, L + N, an, L + m)
       PROVE  \E p \in 1..Len(r) : IsThere(C, key, r, an, ah, old, L + m, p)
  <2>1. PICK p \in 1..Len(r) : \A c \in key : r[p][c] = new[m][c]
    BY <1>2
  <2>2. SameKey(r[p], new[m], key)
    BY <1>5, <2>1 DEF SameKey
  <2>3. \A k \in (m + 1)..N : ~SameKey(r[p], new[k], key)
    <3> SUFFICES ASSUME NEW k \in (m + 1)..N, SameKey(r[p], new[k], key) PROVE FALSE
      OBVIOUS
    <3>1. k \in 1..N /\ ~(L + k <= L + m)
      BY <1>0
    <3>2. SameKey(an[L + k], an[L + m], key)
      BY <1>6, <1>8, <2>2, <3>1
    <3>3. QED BY <1>8, <1>11, <3>1, <3>2 DEF IsLast
  <2>4. \A c \in update \cap C : r[p][c] = new[m][c]
    BY <1>3, <2>2, <2>3
  <2>5. has[m] \subseteq B /\ \A c \in C \ has[m] : new[m][c] = Null
    BY DEF Taken
  <2>6. an[L + m] = new[m] /\ ah[L + m] = has[m]
    BY <1>8
  <2>7. ASSUME NEW c \in C \ key, c \in has[m] PROVE r[p][c] = new[m][c]
    BY <2>4, <2>5, <2>7
  <2>8. ASSUME NEW c \in C \ key, c \notin has[m] PROVE r[p][c] \in Earlier(key, an, ah, old, L + m, c)
    <3>1. Null \in Earlier(key, an, ah, old, L + m, c)
      BY DEF Earlier
    <3>2. CASE c \in update
      BY <2>4, <2>5, <2>8, <3>1, <3>2
    <3>3. CASE c \notin update /\ p \notin 1..Len(rows)
      <4>1. PICK k \in 1..N : r[p][c] = new[k][c]
        BY <1>4, <3>3
      <4>2. c \notin has[k]
        BY <2>8, <3>3 DEF Taken
      <4>3. new[k][c] = Null
        BY <4>2 DEF Taken
      <4>4. QED BY <3>1, <4>1, <4>3
    <3>4. CASE c \notin update /\ p \in 1..Len(rows)
      <4>1. r[p][c] = rows[p][c]
        BY <1>4, <3>4
      <4>2. SameKey(rows[p], new[m], key)
        BY <1>1, <2>2, <3>4 DEF SameKey
      <4>3. CASE rows[p] \in old
        BY <2>6, <4>1, <4>2, <4>3 DEF Earlier
      <4>4. CASE \E i \in 1..L : SameKey(rows[p], n[i], key)
        <5> DEFINE T == {i \in 1..L : SameKey(rows[p], n[i], key)}
        <5>1. T # {} /\ T \subseteq 0..L
          BY <4>4
        <5>2. PICK i \in T : \A j \in T : j <= i
          <6> HIDE DEF T
          <6> QED BY <5>1, LargestNatural
        <5>3. i \in 1..L /\ SameKey(rows[p], n[i], key)
          OBVIOUS
        <5>4. IsLast(key, L, n, i)
          BY <1>6, <5>2, <5>3 DEF IsLast
        <5>5. PICK q \in 1..Len(rows) : IsThere(C, key, rows, n, h, old, i, q)
          BY <1>7, <5>3, <5>4
        <5>6. q = p
          BY <1>5, <1>6, <3>4, <5>3, <5>5 DEF IsThere
        <5>7. IF c \in h[i] THEN rows[p][c] = n[i][c] ELSE rows[p][c] \in Earlier(key, n, h, old, i, c)
          BY <5>5, <5>6 DEF IsThere
        <5>8. SameKey(n[i], new[m], key)
          BY <1>6, <4>2, <5>3
        <5>9. /\ i \in 1..((L + m) - 1) /\ an[i] = n[i] /\ ah[i] = h[i]
              /\ \A j \in 1..(i - 1) : j \in 1..((L + m) - 1) /\ an[j] = n[j] /\ ah[j] = h[j]
          <6>1. i \in 1..((L + m) - 1) /\ \A j \in 1..(i - 1) : j \in 1..((L + m) - 1) /\ j \in 1..L
            BY <1>0, <5>3
          <6>2. QED BY <1>8, <5>3, <6>1
        <5> HIDE DEF T
        <5>10. CASE c \in h[i]
          BY <2>6, <4>1, <5>7, <5>8, <5>9, <5>10 DEF Earlier
        <5>11. CASE c \notin h[i]
          <6>1. rows[p][c] \in Earlier(key, n, h, old, i, c)
            BY <5>7, <5>11
          <6>2. \/ \E j \in 1..(i - 1) : SameKey(n[j], n[i], key) /\ c \in h[j] /\ rows[p][c] = n[j][c]
                \/ \E row \in old : SameKey(row, n[i], key) /\ rows[p][c] = row[c]
                \/ rows[p][c] = Null
            BY <6>1 DEF Earlier
          <6>3. CASE \E j \in 1..(i - 1) : SameKey(n[j], n[i], key) /\ c \in h[j] /\ rows[p][c] = n[j][c]
            BY <1>6, <2>6, <4>1, <5>8, <5>9, <6>3 DEF Earlier
          <6>4. CASE \E row \in old : SameKey(row, n[i], key) /\ rows[p][c] = row[c]
            BY <1>6, <2>6, <4>1, <5>8, <6>4 DEF Earlier
          <6>5. QED BY <3>1, <4>1, <6>2, <6>3, <6>4
        <5>12. QED BY <5>10, <5>11
      <4>5. QED BY <1>7, <3>4, <4>3, <4>4
    <3>5. QED BY <3>2, <3>3, <3>4
  <2>9. IsThere(C, key, r, an, ah, old, L + m, p)
    BY <2>2, <2>6, <2>7, <2>8 DEF IsThere
  <2>10. QED BY <2>9
<1>12. \A i \in 1..(L + N) : IsLast(key, L + N, an, i) => \E p \in 1..Len(r) : IsThere(C, key, r, an, ah, old, i, p)
  BY <1>8, <1>10, <1>11
<1>13. HasNewest(C, key, r, L + N, an, ah, old)
  BY <1>9, <1>12 DEF HasNewest
<1>14. QED BY <1>13 DEF r

(* A batch that went into the table twice is as one that did so once.      *)
LEMMA OnceIsEnough ==
  ASSUME NEW C, NEW key, NEW rows, NEW L \in Nat, NEW N \in Nat, NEW n, NEW h, NEW new, NEW has, NEW old,
         NEW an, NEW ah, Joined(L, n, h, N, new, has, an, ah),
         NEW bn, NEW bh, Joined(L + N, an, ah, N, new, has, bn, bh),
         HasNewest(C, key, rows, (L + N) + N, bn, bh, old)
  PROVE  HasNewest(C, key, rows, L + N, an, ah, old)
<1> DEFINE M == L + N
<1>1. /\ \A m \in 1..N : an[L + m] = new[m] /\ ah[L + m] = has[m] /\ L + m \in 1..M
      /\ \A i \in 1..M : bn[i] = an[i] /\ bh[i] = ah[i] /\ i \in 1..(M + N)
      /\ \A m \in 1..N : bn[M + m] = new[m] /\ bh[M + m] = has[m] /\ M + m \in 1..(M + N)
  BY DEF Joined
<1>2. \A i \in 1..(M + N) : i \in 1..M \/ \E m \in 1..N : i = M + m
  <2>1. ASSUME NEW i \in 1..(M + N), i \notin 1..M PROVE \E m \in 1..N : i = M + m
    <3>1. i - M \in 1..N /\ i = M + (i - M)
      BY <2>1
    <3>2. QED BY <3>1
  <2>2. QED BY <2>1
<1>3. /\ \A p \in 1..Len(rows) : rows[p] \in old \/ \E i \in 1..(M + N) : SameKey(rows[p], bn[i], key)
      /\ \A i \in 1..(M + N) : IsLast(key, M + N, bn, i) => \E p \in 1..Len(rows) : IsThere(C, key, rows, bn, bh, old, i, p)
  BY DEF HasNewest
<1>4. /\ M \in Nat
      /\ \A m, k \in 1..N : (L + m <= L + k <=> m <= k) /\ (M + m <= M + k <=> m <= k)
      /\ \A i \in 1..M : \A m \in 1..N : i <= M + m /\ ~(M + m <= i)
  OBVIOUS
<1> HIDE DEF M
<1>5. ASSUME NEW i \in 1..(M + N) PROVE \E k \in 1..M : bn[i] = an[k] /\ bh[i] = ah[k]
  <2>1. CASE i \in 1..M
    <3>1. bn[i] = an[i] /\ bh[i] = ah[i]
      BY <1>1, <2>1
    <3>2. QED BY <2>1, <3>1
  <2>2. CASE \E m \in 1..N : i = M + m
    <3>1. PICK m \in 1..N : i = M + m
      BY <2>2
    <3>2. bn[i] = new[m] /\ bh[i] = has[m]
      BY <1>1, <3>1
    <3>3. an[L + m] = new[m] /\ ah[L + m] = has[m] /\ L + m \in 1..M
      BY <1>1
    <3>4. QED BY <3>2, <3>3
  <2>3. QED BY <1>2, <2>1, <2>2
<1>6. ASSUME NEW p \in 1..Len(rows), rows[p] \notin old
      PROVE  \E k \in 1..M : SameKey(rows[p], an[k], key)
  <2>1. PICK i \in 1..(M + N) : SameKey(rows[p], bn[i], key)
    BY <1>3, <1>6
  <2>2. PICK k \in 1..M : bn[i] = an[k]
    BY <1>5
  <2>3. QED BY <2>1, <2>2
<1>7. ASSUME NEW i \in 1..M, IsLast(key, M, an, i), ~\E m \in 1..N : SameKey(new[m], an[i], key)
      PROVE  \E p \in 1..Len(rows) : IsThere(C, key, rows, an, ah, old, i, p)
  <2>1. IsLast(key, M + N, bn, i)
    BY <1>1, <1>2, <1>7 DEF IsLast
  <2>2. PICK p \in 1..Len(rows) : IsThere(C, key, rows, bn, bh, old, i, p)
    BY <1>1, <1>3, <2>1
  <2>3. bn[i] = an[i] /\ bh[i] = ah[i] /\ \A j \in 1..(i - 1) : bn[j] = an[j] /\ bh[j] = ah[j]
    BY <1>1, <1>4
  <2>4. \A c : Earlier(key, bn, bh, old, i, c) = Earlier(key, an, ah, old, i, c)
    BY <2>3 DEF Earlier
  <2>5. IsThere(C, key, rows, an, ah, old, i, p)
    BY <2>2, <2>3, <2>4 DEF IsThere
  <2>6. QED BY <2>5
<1>8. ASSUME NEW m \in 1..N, IsLast(key, M, an, L + m)
      PROVE  \E p \in 1..Len(rows) : IsThere(C, key, rows, an, ah, old, L + m, p)
  <2>1. IsLast(key, M + N, bn, M + m)
    <3> SUFFICES ASSUME NEW j \in 1..(M + N), SameKey(bn[j], bn[M + m], key) PROVE j <= M + m
      BY DEF IsLast
    <3>1. CASE j \in 1..M
      BY <1>4, <3>1
    <3>2. CASE \E k \in 1..N : j = M + k
      <4>1. PICK k \in 1..N : j = M + k
        BY <3>2
      <4>2. SameKey(an[L + k], an[L + m], key) /\ L + k \in 1..M
        BY <1>1, <4>1
      <4>3. QED BY <1>4, <1>8, <4>1, <4>2 DEF IsLast
    <3>3. QED BY <1>2, <3>1, <3>2
  <2>2. PICK p \in 1..Len(rows) : IsThere(C, key, rows, bn, bh, old, M + m, p)
    BY <1>1, <1>3, <2>1
  <2>3. bn[M + m] = an[L + m] /\ bh[M + m] = ah[L + m]
    BY <1>1
  <2>4. ASSUME NEW c, c \notin ah[L + m], NEW v \in Earlier(key, bn, bh, old, M + m, c)
        PROVE  v \in Earlier(key, an, ah, old, L + m, c)
    <3>1. \/ \E j \in 1..((M + m) - 1) : SameKey(bn[j], an[L + m], key) /\ c \in bh[j] /\ v = bn[j][c]
          \/ \E row \in old : SameKey(row, an[L + m], key) /\ v = row[c]
          \/ v = Null
      BY <2>3, <2>4 DEF Earlier
    <3>2. CASE \E j \in 1..((M + m) - 1) : SameKey(bn[j], an[L + m], key) /\ c \in bh[j] /\ v = bn[j][c]
      <4>1. PICK j \in 1..((M + m) - 1) : SameKey(bn[j], an[L + m], key) /\ c \in bh[j] /\ v = bn[j][c]
        BY <3>2
      <4>2. \E i \in 1..M : bn[j] = an[i] /\ bh[j] = ah[i]
        <5>1. j \in 1..(M + N)
          BY <1>4
        <5>2. QED BY <1>5, <5>1
      <4>3. PICK i \in 1..M : bn[j] = an[i] /\ bh[j] = ah[i]
        BY <4>2
      <4>4. i <= L + m /\ i # L + m
        BY <1>8, <2>4, <4>1, <4>3 DEF IsLast
      <4>5. i \in 1..((L + m) - 1)
        BY <1>4, <4>4
      <4>6. QED BY <4>1, <4>3, <4>5 DEF Earlier
    <3>3. CASE \E row \in old : SameKey(row, an[L + m], key) /\ v = row[c]
      BY <3>3 DEF Earlier
    <3>4. CASE v = Null
      BY <3>4 DEF Earlier
    <3>5. QED BY <3>1, <3>2, <3>3, <3>4
  <2>5. IsThere(C, key, rows, an, ah, old, L + m, p)
    BY <2>2, <2>3, <2>4 DEF IsThere
  <2>6. QED BY <2>5
<1>9. ASSUME NEW i \in 1..M, IsLast(key, M, an, i)
      PROVE  \E p \in 1..Len(rows) : IsThere(C, key, rows, an, ah, old, i, p)
  <2>1. CASE \E m \in 1..N : SameKey(new[m], an[i], key)
    <3>1. PICK m \in 1..N : SameKey(new[m], an[i], key)
      BY <2>1
    <3>2. L + m <= i
      BY <1>1, <1>9, <3>1 DEF IsLast
    <3>3. i - L \in 1..N /\ i = L + (i - L)
      BY <3>2 DEF M
    <3>4. QED BY <1>8, <1>9, <3>3
  <2>2. QED BY <1>7, <1>9, <2>1
<1>10. HasNewest(C, key, rows, M, an, ah, old)
  BY <1>6, <1>9 DEF HasNewest
<1>11. QED BY <1>10 DEF M

(* Whatever the statement, a batch that goes through is an upsert by the   *)
(* key of the table that sets all columns of the batch, but for the key.   *)
IsFold(dialect, table, given, result) ==
    \E f, update :
        /\ Upserting(f, table.rows, NewRows(dialect, table, given), Len(given), table.key, update, {})
        /\ KeyHolds(f[Len(given)], table.key) /\ result = Became(table, f[Len(given)])
        /\ \A c \in DOMAIN table.columns \ table.key : c \in update <=> c \in DOMAIN given[1]
ByKey(dialect, table, mode, pk) == mode = "upsert" /\ dialect # "postgresql" => pk \in {{}, table.key}

(* Every statement that went through is such an upsert. *)
LEMMA BatchIsFold ==
  ASSUME NEW dialect \in {"mysql", "postgresql", "oracle"}, NEW table, IsTable(table), NEW given, IsBatch(given),
         NEW mode, NEW pk, table.key # {}, ByKey(dialect, table, mode, pk), InsertBatch(dialect, table, given, mode, pk).ok
  PROVE  IsFold(dialect, table, given, InsertBatch(dialect, table, given, mode, pk))
<1> DEFINE C == DOMAIN table.columns
           N == Len(given)
           new == NewRows(dialect, table, given)
           rows == table.rows
           key == table.key
           update == UpdateColumns(given, pk)
<1>0. N \in Nat /\ DOMAIN given = 1..N /\ key \subseteq C
  BY DEF IsBatch, IsTable
<1>1. PICK V : Batches(C, V, rows, new, N, key)
  BY <1>0, TableGoesOn
<1>2. ASSUME Insert(dialect, table, given).ok
      PROVE  IsFold(dialect, table, given, Insert(dialect, table, given))
  <2>1. Insert(dialect, table, given) = Kept(table, rows \o new)
    BY <1>0 DEF Insert, NewRows
  <2>2. KeyHolds(rows \o new, key) /\ Insert(dialect, table, given) = Became(table, rows \o new)
    <3> HIDE DEF new, rows
    <3> QED BY <1>2, <2>1 DEF Kept, Failed
  <2>3. PICK f : Upserting(f, rows, new, N, key, DOMAIN given[1], {})
    BY <1>0, UpsertsGoOn
  <2>4. f[N] = rows \o new
    <3> HIDE DEF new, rows, key, C, N
    <3> QED BY <1>1, <2>2, <2>3, InsertsArePuts
  <2>5. QED BY <2>2, <2>3, <2>4 DEF IsFold
<1>3. ASSUME pk \in {{}, key}, Upserted(dialect, table, given, key, update).ok
      PROVE  IsFold(dialect, table, given, Upserted(dialect, table, given, key, update))
  <2>1. PICK f : /\ Upserting(f, rows, new, N, key, update, {})
                 /\ WithUpserts(dialect, table, given, key, update, {}) = f[N]
    <3> HIDE DEF update
    <3> QED BY <1>0, UpsertsGoOn
  <2>2. Upserted(dialect, table, given, key, update) = Kept(table, f[N])
    <3> HIDE DEF update
    <3> QED BY <2>1 DEF Upserted
  <2>3. KeyHolds(f[N], key) /\ Upserted(dialect, table, given, key, update) = Became(table, f[N])
    <3> HIDE DEF update
    <3> QED BY <1>3, <2>2 DEF Kept, Failed
  <2>4. \A c \in C \ key : c \in update <=> c \in DOMAIN given[1]
    BY <1>3 DEF UpdateColumns
  <2> HIDE DEF update
  <2>5. QED BY <2>1, <2>3, <2>4 DEF IsFold
<1>4. ASSUME dialect = "oracle", pk = key, Merge(table, given, pk, update).ok
      PROVE  IsFold(dialect, table, given, Merge(table, given, pk, update))
  <2> DEFINE plain == Unmatched(rows, new, N, pk)
             matched == Matched(rows, new, N, pk)
             unstable == \E n, m \in matched : n # m /\ SameKey(new[n], new[m], pk)
  <2>1. PICK f : /\ Upserting(f, rows, new, N, key, update, plain)
                 /\ WithUpserts(dialect, table, given, key, update, plain) = f[N]
    <3> HIDE DEF update, plain
    <3> QED BY <1>0, UpsertsGoOn
  <2>2. Merge(table, given, pk, update) =
           IF ~(pk \subseteq DOMAIN given[1]) \/ (update # {} /\ unstable) THEN Failed(table)
           ELSE Kept(table, WithUpserts("oracle", table, given, pk, update, plain))
    <3> HIDE DEF update
    <3> QED BY <1>4, MergeIs
  <2> HIDE DEF unstable, update, plain
  <2>3. Merge(table, given, pk, update) = Kept(table, f[N])
    BY <1>4, <2>1, <2>2 DEF Failed
  <2>4. KeyHolds(f[N], key) /\ Merge(table, given, pk, update) = Became(table, f[N])
    BY <1>4, <2>3 DEF Kept, Failed
  <2>5. Upserting(f, rows, new, N, key, update, {})
    <3>1. Upserting(f, rows, new, N, key, update, Unmatched(rows, new, N, key))
      BY <1>4, <2>1 DEF plain
    <3> HIDE DEF new, rows, key, C, N
    <3>2. QED BY <1>1, <2>4, <3>1, MergePuts
  <2>6. \A c \in C \ key : c \in update <=> c \in DOMAIN given[1]
    BY <1>4 DEF UpdateColumns, update
  <2>7. QED BY <2>4, <2>5, <2>6 DEF IsFold
<1> DEFINE result == InsertBatch(dialect, table, given, mode, pk)
<1>5. Binds(dialect, table, given)
  BY DEF InsertBatch, Failed
<1>6. CASE dialect = "mysql"
  <2>1. result = MysqlInsert(table, given, mode, pk)
    BY <1>5, <1>6 DEF InsertBatch
  <2>2. CASE mode = "upsert" /\ update # {}
    <3>1. result = Upserted(dialect, table, given, key, update) /\ pk \in {{}, key}
      BY <1>6, <2>1, <2>2 DEF MysqlInsert, ByKey
    <3> HIDE DEF update, result, key
    <3>2. result.ok
      BY DEF result
    <3>3. IsFold(dialect, table, given, result)
      BY <1>3, <3>1, <3>2
    <3>4. QED BY <3>3 DEF result
  <2>3. CASE ~(mode = "upsert" /\ update # {})
    <3>1. result = Insert(dialect, table, given)
      BY <1>6, <2>1, <2>3 DEF MysqlInsert
    <3>2. QED BY <1>2, <3>1
  <2>4. QED BY <2>2, <2>3
<1>7. CASE dialect = "postgresql"
  <2>1. result = PostgresInsert(table, given, mode, pk)
    BY <1>5, <1>7 DEF InsertBatch
  <2>2. CASE mode = "upsert" /\ pk # {}
    <3>1. result = Upserted(dialect, table, given, key, update) /\ pk \in {{}, key}
      BY <1>7, <2>1, <2>2 DEF PostgresInsert, Failed
    <3> HIDE DEF update, result, key
    <3>2. result.ok
      BY DEF result
    <3>3. IsFold(dialect, table, given, result)
      BY <1>3, <3>1, <3>2
    <3>4. QED BY <3>3 DEF result
  <2>3. CASE ~(mode = "upsert" /\ pk # {})
    <3>1. result = Insert(dialect, table, given)
      BY <1>7, <2>1, <2>3 DEF PostgresInsert
    <3>2. QED BY <1>2, <3>1
  <2>4. QED BY <2>2, <2>3
<1>8. CASE dialect = "oracle"
  <2>1. result = OracleInsert(table, given, mode, pk)
    BY <1>5, <1>8 DEF InsertBatch
  <2>2. CASE mode = "upsert" /\ pk # {}
    <3>1. result = Merge(table, given, pk, update) /\ pk = key
      BY <1>8, <2>1, <2>2 DEF OracleInsert, ByKey
    <3> HIDE DEF update, result, key
    <3>2. result.ok
      BY DEF result
    <3>3. IsFold(dialect, table, given, result)
      BY <1>4, <1>8, <3>1, <3>2
    <3>4. QED BY <3>3 DEF result
  <2>3. CASE ~(mode = "upsert" /\ pk # {})
    <3>1. result = Insert(dialect, table, given)
      BY <1>8, <2>1, <2>3 DEF OracleInsert
    <3>2. QED BY <1>2, <3>1
  <2>4. QED BY <2>2, <2>3
<1>9. QED BY <1>6, <1>7, <1>8

(* What the rows w have put into a table.                                  *)
Having(w) == [i \in 1..Len(w) |-> DOMAIN w[i]]
TableHolds(dialect, table, w, old) ==
    HasNewest(DOMAIN table.columns, table.key, table.rows, Len(w), NewRows(dialect, table, w), Having(w), old)

(* The rows of two sequences, as they are inserted, are those of the       *)
(* first and then those of the second.                                     *)
LEMMA RowsJoin ==
  ASSUME NEW dialect, NEW table, NEW S, NEW w \in Seq(S), NEW rows \in Seq(S)
  PROVE  /\ Len(w) \in Nat /\ Len(rows) \in Nat /\ Len(w \o rows) = Len(w) + Len(rows)
         /\ Joined(Len(w), NewRows(dialect, table, w), Having(w), Len(rows),
                   NewRows(dialect, table, rows), Having(rows),
                   NewRows(dialect, table, w \o rows), Having(w \o rows))
<1> DEFINE all == w \o rows
<1>1. /\ Len(w) \in Nat /\ Len(rows) \in Nat /\ Len(all) = Len(w) + Len(rows)
      /\ \A i \in 1..(Len(w) + Len(rows)) : all[i] = IF i <= Len(w) THEN w[i] ELSE rows[i - Len(w)]
  BY ConcatProperties, LenProperties
<1> HIDE DEF all
<1>2. /\ \A i \in 1..Len(w) : all[i] = w[i] /\ i \in 1..Len(all)
      /\ \A m \in 1..Len(rows) : all[Len(w) + m] = rows[m] /\ Len(w) + m \in 1..Len(all)
  <2>1. ASSUME NEW m \in 1..Len(rows) PROVE all[Len(w) + m] = rows[m] /\ Len(w) + m \in 1..Len(all)
    <3>1. Len(w) + m \in 1..(Len(w) + Len(rows)) /\ ~(Len(w) + m <= Len(w)) /\ (Len(w) + m) - Len(w) = m
      BY <1>1
    <3>2. QED BY <1>1, <3>1
  <2>2. ASSUME NEW i \in 1..Len(w) PROVE all[i] = w[i] /\ i \in 1..Len(all)
    <3>1. i \in 1..(Len(w) + Len(rows)) /\ i <= Len(w)
      BY <1>1
    <3>2. QED BY <1>1, <3>1
  <2>3. QED BY <2>1, <2>2
<1>3. Joined(Len(w), NewRows(dialect, table, w), Having(w), Len(rows),
             NewRows(dialect, table, rows), Having(rows),
             NewRows(dialect, table, all), Having(all))
  BY <1>2 DEF Joined, NewRows, Having
<1>4. QED BY <1>1, <1>3 DEF all

(* A batch that went through adds its rows to those the table holds. *)
LEMMA BatchHasNewest ==
  ASSUME NEW dialect \in {"mysql", "postgresql", "oracle"}, NEW table, IsTable(table), table.key # {},
         NEW S, NEW rows \in Seq(S), rows # <<>>, NEW w \in Seq(S),
         NEW mode, NEW pk, ByKey(dialect, table, mode, pk), NEW old, TableHolds(dialect, table, w, old),
         NEW result, result = InsertBatch(dialect, table, Normalise(rows), mode, pk), result.ok
  PROVE  TableHolds(dialect, result.table, w \o rows, old)
<1> DEFINE C == DOMAIN table.columns
           key == table.key
           given == Normalise(rows)
           N == Len(rows)
           new == NewRows(dialect, table, rows)
           all == w \o rows
<1>1. IsBatch(given) /\ DOMAIN given = 1..N /\ N \in Nat \ {0} /\ Len(given) = N
  <2>1. IsBatch(given)
    BY NormalIsBatch
  <2>2. DOMAIN given = DOMAIN rows
    BY DEF Normalise
  <2>3. DOMAIN rows = 1..N /\ N \in Nat \ {0}
    BY LenProperties, EmptySeq
  <2> HIDE DEF given
  <2>4. DOMAIN given = 1..Len(given) /\ Len(given) \in Nat
    BY <2>1 DEF IsBatch
  <2>5. QED BY <2>1, <2>2, <2>3, <2>4
<1>2. NewRows(dialect, table, given) = new
  <2>1. \A i \in 1..N : AsInserted(dialect, table, given[i]) = AsInserted(dialect, table, rows[i])
    <3>1. DOMAIN rows = 1..N
      BY LenProperties
    <3>2. QED BY <3>1, NormalInserted
  <2> HIDE DEF given
  <2>2. QED BY <1>1, <2>1 DEF NewRows
<1>3. IsFold(dialect, table, given, result)
  <2> HIDE DEF given
  <2>0. InsertBatch(dialect, table, given, mode, pk).ok
    BY DEF given
  <2>1. IsFold(dialect, table, given, InsertBatch(dialect, table, given, mode, pk))
    BY <1>1, <2>0, BatchIsFold
  <2>2. QED BY <2>1 DEF given
<1>4. PICK f, update :
        /\ Upserting(f, table.rows, new, N, key, update, {})
        /\ KeyHolds(f[N], key) /\ result = Became(table, f[N])
        /\ \A c \in C \ key : c \in update <=> c \in DOMAIN given[1]
  <2> HIDE DEF given, new, N
  <2>1. QED BY <1>1, <1>2, <1>3 DEF IsFold
<1>5. PICK V : Batches(C, V, table.rows, new, N, key)
  <2>1. key \subseteq C
    BY DEF IsTable
  <2>2. \E V : Batches(C, V, table.rows, NewRows(dialect, table, given), Len(given), key)
    <3> HIDE DEF given
    <3>1. Len(given) \in Nat
      BY <1>1
    <3>2. QED BY <2>1, <3>1, TableGoesOn
  <2> HIDE DEF given, new, N
  <2>3. QED BY <1>1, <1>2, <2>2
<1>6. Taken(C, DOMAIN given[1], N, new, Having(rows))
  <2>1. DOMAIN given[1] = Columns(rows)
    BY <1>1 DEF Normalise, Only
  <2>2. \A m \in 1..N : DOMAIN rows[m] \subseteq Columns(rows)
    <3>1. DOMAIN rows = 1..N
      BY LenProperties
    <3>2. QED BY <3>1 DEF Columns
  <2>3. \A m \in 1..N : \A c \in C \ DOMAIN rows[m] : new[m][c] = Null
    BY DEF NewRows, AsInserted
  <2>4. QED BY <2>1, <2>2, <2>3 DEF Taken, Having
<1>7. /\ Len(w) \in Nat /\ Len(all) = Len(w) + N
      /\ Joined(Len(w), NewRows(dialect, table, w), Having(w), N, new, Having(rows),
                NewRows(dialect, table, all), Having(all))
  BY RowsJoin
<1>8. HasNewest(C, key, table.rows, Len(w), NewRows(dialect, table, w), Having(w), old)
  BY DEF TableHolds
<1>9. KeyHolds(table.rows, key)
  BY DEF IsTable
<1>10. HasNewest(C, key, f[N], Len(w) + N, NewRows(dialect, table, all), Having(all), old)
  <2> DEFINE B == DOMAIN given[1]
  <2>1. \A c \in C \ key : c \in update <=> c \in B
    BY <1>4
  <2>2. Taken(C, B, N, new, Having(rows))
    BY <1>6
  <2> HIDE DEF given, new, N, all, C, B, key
  <2>3. key # {}
    BY DEF key
  <2>4. QED BY <1>4, <1>5, <1>7, <1>8, <1>9, <2>1, <2>2, <2>3, FoldHasNewest
<1>11. result.table.columns = table.columns /\ result.table.key = key /\ result.table.rows = f[N]
  <2>1. result.table = [table EXCEPT !.rows = f[N]]
    BY <1>4 DEF Became
  <2>2. table = [columns |-> table.columns, key |-> table.key, rows |-> table.rows]
    BY DEF IsTable
  <2> HIDE DEF N
  <2>3. QED BY <2>1, <2>2
<1>12. NewRows(dialect, result.table, all) = NewRows(dialect, table, all)
  BY <1>11 DEF NewRows, AsInserted
<1>13. TableHolds(dialect, result.table, all, old)
  <2> HIDE DEF new, N, all
  <2>1. QED BY <1>7, <1>10, <1>11, <1>12 DEF TableHolds
<1>14. QED BY <1>13

(* A batch that went through once more, its rows being there already, for  *)
(* the answer was lost.                                                    *)
LEMMA BatchTwiceHasNewest ==
  ASSUME NEW dialect \in {"mysql", "postgresql", "oracle"}, NEW table, IsTable(table), table.key # {},
         NEW S, NEW rows \in Seq(S), rows # <<>>, NEW w \in Seq(S),
         NEW mode, NEW pk, ByKey(dialect, table, mode, pk), NEW old, TableHolds(dialect, table, w \o rows, old),
         NEW result, result = InsertBatch(dialect, table, Normalise(rows), mode, pk), result.ok
  PROVE  TableHolds(dialect, result.table, w \o rows, old)
<1> DEFINE all == w \o rows
           then == all \o rows
           t == result.table
<1>1. all \in Seq(S) /\ TableHolds(dialect, table, all, old)
  BY ConcatProperties
<1>2. TableHolds(dialect, t, then, old)
  <2> HIDE DEF all
  <2>1. QED BY <1>1, BatchHasNewest
<1>3. /\ Len(w) \in Nat /\ Len(rows) \in Nat /\ Len(all) = Len(w) + Len(rows)
      /\ Joined(Len(w), NewRows(dialect, t, w), Having(w), Len(rows), NewRows(dialect, t, rows), Having(rows),
                NewRows(dialect, t, all), Having(all))
  BY RowsJoin
<1>4. /\ Len(then) = Len(all) + Len(rows)
      /\ Joined(Len(all), NewRows(dialect, t, all), Having(all), Len(rows), NewRows(dialect, t, rows), Having(rows),
                NewRows(dialect, t, then), Having(then))
  <2> HIDE DEF all
  <2>1. QED BY <1>1, RowsJoin
<1>5. TableHolds(dialect, t, all, old)
  <2> HIDE DEF all, then, t
  <2>1. Joined(Len(w) + Len(rows), NewRows(dialect, t, all), Having(all), Len(rows), NewRows(dialect, t, rows), Having(rows),
                NewRows(dialect, t, then), Having(then))
    BY <1>3, <1>4
  <2>2. HasNewest(DOMAIN t.columns, t.key, t.rows, (Len(w) + Len(rows)) + Len(rows), NewRows(dialect, t, then), Having(then), old)
    BY <1>2, <1>3, <1>4 DEF TableHolds
  <2>3. HasNewest(DOMAIN t.columns, t.key, t.rows, Len(w) + Len(rows), NewRows(dialect, t, all), Having(all), old)
    BY <1>3, <2>1, <2>2, OnceIsEnough
  <2>4. QED BY <1>3, <2>3 DEF TableHolds
<1>6. QED BY <1>5

(* The table before any batch. *)
LEMMA FirstRowsAreThere ==
  ASSUME NEW dialect, NEW table, NEW old, \A p \in 1..Len(table.rows) : table.rows[p] \in old
  PROVE  TableHolds(dialect, table, <<>>, old)
<1>1. Len(<<>>) = 0 /\ 1..0 = {}
  OBVIOUS
<1>2. HasNewest(DOMAIN table.columns, table.key, table.rows, 0, NewRows(dialect, table, <<>>), Having(<<>>), old)
  BY <1>1 DEF HasNewest
<1>3. QED BY <1>1, <1>2 DEF TableHolds

-----------------------------------------------------------------------------
(* The rows on their way to the table of the job.                          *)

(* The rows w are those of the first n of s that go to the table.          *)
IsPick(s, n, table, w, e) ==
    /\ e \in [1..Len(w) -> 1..n]
    /\ \A k \in 1..Len(w) : s[e[k]].table = table /\ s[e[k]].row = w[k]
    /\ \A j, k \in 1..Len(w) : j < k => e[j] < e[k]
    /\ \A i \in 1..n : s[i].table = table => \E k \in 1..Len(w) : e[k] = i
Picks(s, n, table, w) == \E e : IsPick(s, n, table, w, e)

(* The rows picked depend on the first n outputs alone. *)
LEMMA PicksStay ==
  ASSUME NEW s, NEW n, NEW table, NEW w, Picks(s, n, table, w),
         NEW t, \A i \in 1..n : t[i] = s[i]
  PROVE  Picks(t, n, table, w)
<1>1. PICK e : IsPick(s, n, table, w, e)
  BY DEF Picks
<1>2. IsPick(t, n, table, w, e)
  BY <1>1 DEF IsPick
<1>3. QED BY <1>2 DEF Picks

(* The next output adds its row when it goes to the table. *)
LEMMA PicksGoOn ==
  ASSUME NEW s, NEW n \in Nat, NEW table, NEW S, NEW w \in Seq(S), Picks(s, n, table, w),
         NEW then, IF s[n + 1].table = table THEN then = Append(w, s[n + 1].row) ELSE then = w
  PROVE  Picks(s, n + 1, table, then)
<1> DEFINE L == Len(w)
<1>1. PICK e : IsPick(s, n, table, w, e)
  BY DEF Picks
<1>2. L \in Nat /\ \A i \in 1..n : i \in 1..(n + 1) /\ i < n + 1
  BY LenProperties
<1>3. \A i \in 1..(n + 1) : i \in 1..n \/ i = n + 1
  OBVIOUS
<1>4. CASE s[n + 1].table = table
  <2> DEFINE g == [k \in 1..(L + 1) |-> IF k \in 1..L THEN e[k] ELSE n + 1]
             row == s[n + 1].row
  <2>1. then = Append(w, row)
    BY <1>4
  <2>2. Len(then) = L + 1 /\ then[L + 1] = row /\ \A k \in 1..L : then[k] = w[k]
    <3>1. w \in Seq(S \cup {row}) /\ row \in S \cup {row}
      OBVIOUS
    <3> HIDE DEF row
    <3>2. QED BY <2>1, <3>1, AppendProperties
  <2>3. \A k \in 1..(L + 1) : k \in 1..L \/ (k = L + 1 /\ k \notin 1..L)
    BY <1>2
  <2>4. L + 1 \in 1..(L + 1) /\ L + 1 \notin 1..L /\ n + 1 \in 1..(n + 1) /\ 1..L \subseteq 1..(L + 1)
    BY <1>2
  <2>5. e \in [1..L -> 1..n] /\ \A k \in 1..L : e[k] \in 1..n /\ e[k] \in 1..(n + 1) /\ e[k] < n + 1
    BY <1>1, <1>2 DEF IsPick
  <2> HIDE DEF L
  <2>6. /\ \A k \in 1..L : g[k] = e[k] 
        /\ g[L + 1] = n + 1 /\ DOMAIN g = 1..(L + 1)
    BY <2>4
  <2>7. g \in [1..(L + 1) -> 1..(n + 1)]
    BY <2>3, <2>4, <2>5
  <2> HIDE DEF g
  <2>8. \A k \in 1..(L + 1) : s[g[k]].table = table /\ s[g[k]].row = then[k]
    BY <1>1, <1>4, <2>2, <2>3, <2>6 DEF IsPick, L
  <2>9. \A j, k \in 1..(L + 1) : j < k => g[j] < g[k]
    <3> SUFFICES ASSUME NEW j \in 1..(L + 1), NEW k \in 1..(L + 1), j < k PROVE g[j] < g[k]
      OBVIOUS
    <3>1. j \in 1..L
      BY <1>2
    <3>2. CASE k \in 1..L
      BY <1>1, <2>6, <3>1, <3>2 DEF IsPick, L
    <3>3. CASE k = L + 1
      BY <2>5, <2>6, <3>1, <3>3
    <3>4. QED BY <2>3, <3>2, <3>3
  <2>10. \A i \in 1..(n + 1) : s[i].table = table => \E k \in 1..(L + 1) : g[k] = i
    <3> SUFFICES ASSUME NEW i \in 1..(n + 1), s[i].table = table PROVE \E k \in 1..(L + 1) : g[k] = i
      OBVIOUS
    <3>1. CASE i \in 1..n
      <4>1. PICK k \in 1..L : e[k] = i
        BY <1>1, <3>1 DEF IsPick, L
      <4>2. QED BY <2>4, <2>6, <4>1
    <3>2. CASE i = n + 1
      BY <2>4, <2>6, <3>2
    <3>3. QED BY <1>3, <3>1, <3>2
  <2>11. IsPick(s, n + 1, table, then, g)
    BY <2>2, <2>7, <2>8, <2>9, <2>10 DEF IsPick
  <2>12. QED BY <2>11 DEF Picks
<1>5. CASE s[n + 1].table # table
  <2>1. then = w
    BY <1>5
  <2>2. IsPick(s, n + 1, table, w, e)
    BY <1>1, <1>2, <1>3, <1>5 DEF IsPick
  <2>3. QED BY <2>1, <2>2 DEF Picks
<1>6. QED BY <1>4, <1>5

(* No outputs, no rows. *)
LEMMA NothingPicked ==
  ASSUME NEW s, NEW table
  PROVE  Picks(s, 0, table, <<>>)
<1>1. IsPick(s, 0, table, <<>>, <<>>)
  <2>1. <<>> \in [1..0 -> 1..0] /\ Len(<<>>) = 0 /\ 1..0 = {}
    OBVIOUS
  <2>2. QED BY <2>1 DEF IsPick
<1>2. QED BY <1>1 DEF Picks

-----------------------------------------------------------------------------
(* The outputs of a row.                                                   *)

(* A step that succeeds gives a sequence of rows.                          *)
StepNames == {"rename", "set", "cast", "filter", "order_split"}

(* A result is Ok or an error. *)
LEMMA OkIsOk ==
  ASSUME NEW x
  PROVE  IsOk(Ok(x)) /\ Ok(x).ok = x /\ ~IsOk(Err)
BY DEF IsOk, Ok, Err

(* The details that were found among the first n rows of the detail table. *)
Finds(f, etl, key, details, L) ==
    f = [n \in 0..L |->
            IF n = 0 THEN <<>>
            ELSE IF details[n][etl.child_key] = key /\ Len(f[n - 1]) < etl.limit
            THEN Append(f[n - 1], Output(etl.detail_table, Detail(etl, details[n])))
            ELSE f[n - 1]]

(* DetailsOf goes through the detail table row by row. *)
LEMMA DetailsAreFound ==
  ASSUME NEW etl, NEW key, NEW details, NEW L \in Nat, L = Len(details)
  PROVE  \E f : DetailsOf(etl, key, details) = f[L] /\ Finds(f, etl, key, details, L)
<1> DEFINE Found(g, n) ==
               IF n = 0 THEN <<>>
               ELSE IF details[n][etl.child_key] = key /\ Len(g[n - 1]) < etl.limit
               THEN Append(g[n - 1], Output(etl.detail_table, Detail(etl, details[n])))
               ELSE g[n - 1]
           Solves(g, m) == g = [n \in 0..m |-> Found(g, n)]
           found == CHOOSE g : Solves(g, L)
<1>1. DetailsOf(etl, key, details) = found[L]
  BY DEF DetailsOf
<1>2. \E g : Solves(g, L)
  <2> DEFINE H == {m \in 0..L : \E g : Solves(g, m)}
  <2>0. /\ L \in 0..L /\ 0 \in 0..L
        /\ \A m \in 0..(L - 1) : m \in Nat /\ m + 1 \in 0..L
        /\ \A m \in Nat : m + 1 # 0 /\ (m + 1) - 1 = m /\ m \in 0..m /\ m + 1 \in 0..(m + 1) /\ m + 1 \notin 0..m
        /\ \A m \in Nat : \A n \in 0..(m + 1) : (n \in 0..m \/ n = m + 1) /\ (n # 0 => n - 1 \in 0..m)
        /\ \A m \in Nat : \A n \in 0..m : n \in 0..(m + 1)
    OBVIOUS
  <2>1. 0 \in H
    <3>1. Solves([n \in 0..0 |-> <<>>], 0)
      OBVIOUS
    <3> HIDE DEF Solves
    <3>2. QED BY <2>0, <3>1
  <2>2. ASSUME NEW m \in 0..(L - 1), m \in H PROVE m + 1 \in H
    <3>1. PICK g : Solves(g, m)
      BY <2>2
    <3> DEFINE next == Found(g, m + 1)
               h == [n \in 0..(m + 1) |-> IF n \in 0..m THEN g[n] ELSE next]
    <3> HIDE DEF Found, next
    <3>2. h = [n \in 0..(m + 1) |-> h[n]] /\ \A n \in 0..(m + 1) : h[n] = IF n \in 0..m THEN g[n] ELSE next
      OBVIOUS
    <3> HIDE DEF h
    <3>3. (\A n \in 0..m : h[n] = g[n]) /\ h[m + 1] = next
      BY <2>0, <3>2
    <3>4. \A n \in 0..(m + 1) : Found(h, n) = Found(g, n)
      <4>1. \A n \in 0..(m + 1) : n # 0 => h[n - 1] = g[n - 1]
        BY <2>0, <3>3
      <4>2. QED BY <4>1 DEF Found
    <3>5. \A n \in 0..(m + 1) : h[n] = Found(h, n)
      <4>1. \A n \in 0..m : g[n] = Found(g, n)
        BY <3>1
      <4>2. QED BY <2>0, <3>3, <3>4, <4>1 DEF next
    <3>6. Solves(h, m + 1)
      BY <3>2, <3>5
    <3> HIDE DEF Solves
    <3>7. QED BY <2>0, <3>6
  <2>3. L \in H
    <3> HIDE DEF H
    <3>1. QED BY <2>0, <2>1, <2>2, InductionTo
  <2> HIDE DEF Solves
  <2>4. QED BY <2>3
<1>3. Solves(found, L)
  <2> HIDE DEF Solves
  <2>1. QED BY <1>2
<1> HIDE DEF found
<1>4. Finds(found, etl, key, details, L)
  BY <1>3 DEF Finds
<1>5. QED BY <1>1, <1>4

(* A sequence of outputs for some tables. *)
OutputsFor(s, tables) ==
    IsSeq(s) /\ \A k \in 1..Len(s) : s[k].table \in tables /\ s[k] = Output(s[k].table, s[k].row)

LEMMA OneOutput ==
  ASSUME NEW tables, NEW t \in tables, NEW row
  PROVE  OutputsFor(<<Output(t, row)>>, tables) /\ OutputsFor(<<>>, tables)
<1>1. Len(<<>>) = 0 /\ Len(<<Output(t, row)>>) = 1
  OBVIOUS
<1>2. Output(t, row).table = t /\ Output(t, row).row = row
  BY DEF Output
<1>3. <<Output(t, row)>>[1] = Output(t, row)
  OBVIOUS
<1>4. \A k \in 1..0 : FALSE
  OBVIOUS
<1>5. \A k \in 1..1 : k = 1
  OBVIOUS
<1> HIDE DEF Output
<1>6. QED BY <1>1, <1>2, <1>3, <1>4, <1>5, SingleIsSeq DEF OutputsFor

LEMMA OutputsJoin ==
  ASSUME NEW tables, NEW s, NEW t, OutputsFor(s, tables), OutputsFor(t, tables)
  PROVE  OutputsFor(s \o t, tables)
<1>1. PICK S, T : s \in Seq(S) /\ t \in Seq(T)
  BY DEF OutputsFor, IsSeq
<1>2. s \in Seq(S \cup T) /\ t \in Seq(S \cup T)
  BY <1>1
<1>3. /\ s \o t \in Seq(S \cup T) /\ Len(s \o t) = Len(s) + Len(t) /\ Len(s) \in Nat /\ Len(t) \in Nat
      /\ \A k \in 1..(Len(s) + Len(t)) : (s \o t)[k] = IF k <= Len(s) THEN s[k] ELSE t[k - Len(s)]
  BY <1>2, ConcatProperties, LenProperties
<1>4. \A k \in 1..(Len(s) + Len(t)) : (k <= Len(s) => k \in 1..Len(s)) /\ (~(k <= Len(s)) => k - Len(s) \in 1..Len(t))
  BY <1>3
<1>5. QED BY <1>3, <1>4 DEF OutputsFor, IsSeq

(* The details of a key are outputs for the detail table. *)
LEMMA DetailsAreOutputs ==
  ASSUME NEW etl, NEW key, NEW details, Len(details) \in Nat
  PROVE  OutputsFor(DetailsOf(etl, key, details), {etl.detail_table})
<1> DEFINE L == Len(details)
           T == {etl.detail_table}
<1>1. PICK f : DetailsOf(etl, key, details) = f[L] /\ Finds(f, etl, key, details, L)
  BY DetailsAreFound
<1> HIDE DEF L
<1>2. \A m \in 0..L : OutputsFor(f[m], T)
  <2> DEFINE K == {m \in 0..L : OutputsFor(f[m], T)}
  <2>0. L \in Nat
    BY DEF L
  <2>1. 0 \in K
    <3>1. f[0] = <<>> /\ 0 \in 0..L
      BY <1>1, <2>0 DEF Finds
    <3> HIDE DEF T
    <3>2. QED BY <3>1, OneOutput DEF T
  <2>2. ASSUME NEW m \in 0..(L - 1), m \in K PROVE m + 1 \in K
    <3> DEFINE row == Detail(etl, details[m + 1])
               new == Output(etl.detail_table, row)
               before == f[m]
    <3>1. f[m + 1] = Append(before, new) \/ f[m + 1] = before
      <4>1. m + 1 \in 0..L /\ m + 1 # 0 /\ (m + 1) - 1 = m
        BY <2>0
      <4>2. QED BY <1>1, <4>1 DEF Finds
    <3>2. OutputsFor(<<new>>, T)
      <4> HIDE DEF row
      <4>1. QED BY OneOutput
    <3>3. OutputsFor(before, T)
      BY <2>2
    <3> HIDE DEF new, before
    <3>4. Append(before, new) = before \o <<new>>
      BY <3>3, SeqGrows DEF OutputsFor
    <3>5. OutputsFor(f[m + 1], T)
      BY <3>1, <3>2, <3>3, <3>4, OutputsJoin
    <3>6. m + 1 \in 0..L
      BY <2>0
    <3>7. QED BY <3>5, <3>6
  <2>3. \A m \in 0..L : m \in K
    <3> HIDE DEF K
    <3>1. QED BY <2>0, <2>1, <2>2, InductionTo
  <2>4. QED BY <2>3
<1>3. L \in 0..L
  BY DEF L
<1>4. QED BY <1>1, <1>2, <1>3 DEF L

-----------------------------------------------------------------------------
(* The rows of the detail table that have a key, and where each of them is *)
(* among the details of the key.                                           *)
WithKey(key, etl, details) == {m \in 1..Len(details) : details[m][etl.child_key] = key}
UpTo(M, m) == Cardinality({x \in M : x <= m})

(* Ranks grow by one at each element. *)
LEMMA RanksGrow ==
  ASSUME NEW L \in Nat, NEW M \in SUBSET (1..L)
  PROVE  /\ \A m \in 0..L : UpTo(M, m) \in Nat
         /\ UpTo(M, 0) = 0 /\ UpTo(M, L) = Cardinality(M)
         /\ \A m \in 0..(L - 1) : UpTo(M, m + 1) = IF m + 1 \in M THEN UpTo(M, m) + 1 ELSE UpTo(M, m)
<1>1. IsFiniteSet(1..L)
  BY FS_Interval
<1>2. \A m \in 0..L : IsFiniteSet({x \in M : x <= m})
  <2>1. \A m \in 0..L : {x \in M : x <= m} \subseteq 1..L
    OBVIOUS
  <2>2. QED BY <1>1, <2>1, FS_Subset
<1>3. {x \in M : x <= 0} = {} /\ {x \in M : x <= L} = M
  <2>1. \A x \in M : ~(x <= 0) /\ x <= L
    OBVIOUS
  <2>2. QED BY <2>1
<1>4. ASSUME NEW m \in 0..(L - 1)
      PROVE  UpTo(M, m + 1) = IF m + 1 \in M THEN UpTo(M, m) + 1 ELSE UpTo(M, m)
  <2> DEFINE A == {x \in M : x <= m}
             B == {x \in M : x <= m + 1}
  <2>1. B = IF m + 1 \in M THEN A \cup {m + 1} ELSE A
    <3>1. \A x \in M : x <= m + 1 <=> x <= m \/ x = m + 1
      OBVIOUS
    <3>2. QED BY <3>1
  <2>2. m + 1 \notin A /\ IsFiniteSet(A)
    BY <1>2
  <2> HIDE DEF A, B
  <2>3. Cardinality(A \cup {m + 1}) = Cardinality(A) + 1
    BY <2>2, FS_AddElement
  <2>4. UpTo(M, m) = Cardinality(A) /\ UpTo(M, m + 1) = Cardinality(B)
    BY DEF UpTo, A, B
  <2>5. QED BY <2>1, <2>3, <2>4
<1>5. QED BY <1>2, <1>3, <1>4, FS_CardinalityType, FS_EmptySet DEF UpTo

(* The first `limit` of the rows that have the key, each at its rank. *)
Ranked(s, etl, M, details, n) ==
    /\ Len(s) = IF UpTo(M, n) < etl.limit THEN UpTo(M, n) ELSE etl.limit
    /\ \A m \in M : m <= n /\ UpTo(M, m) <= etl.limit =>
          /\ UpTo(M, m) \in 1..Len(s)
          /\ s[UpTo(M, m)] = Output(etl.detail_table, Detail(etl, details[m]))

LEMMA DetailsAreRanked ==
  ASSUME NEW etl, etl.limit \in Nat, NEW key, NEW details, NEW L \in Nat, L = Len(details)
  PROVE  Ranked(DetailsOf(etl, key, details), etl, WithKey(key, etl, details), details, L)
<1> DEFINE M == WithKey(key, etl, details)
<1>1. PICK f : DetailsOf(etl, key, details) = f[L] /\ Finds(f, etl, key, details, L)
  BY DetailsAreFound
<1>2. M \in SUBSET (1..L) /\ \A m \in 1..L : m \in M <=> details[m][etl.child_key] = key
  BY DEF WithKey
<1> HIDE DEF M
<1>3. /\ \A m \in 0..L : UpTo(M, m) \in Nat
      /\ UpTo(M, 0) = 0
      /\ \A m \in 0..(L - 1) : UpTo(M, m + 1) = IF m + 1 \in M THEN UpTo(M, m) + 1 ELSE UpTo(M, m)
  BY <1>2, RanksGrow
<1>4. \A n \in 0..L : IsSeq(f[n]) /\ Ranked(f[n], etl, M, details, n)
  <2> DEFINE K == {n \in 0..L : IsSeq(f[n]) /\ Ranked(f[n], etl, M, details, n)}
  <2>1. 0 \in K
    <3>1. f[0] = <<>> /\ 0 \in 0..L
      BY <1>1 DEF Finds
    <3>2. \A m \in M : ~(m <= 0)
      BY <1>2
    <3>3. Len(<<>>) = 0
      OBVIOUS
    <3>4. Len(<<>>) = IF UpTo(M, 0) < etl.limit THEN UpTo(M, 0) ELSE etl.limit
      BY <1>3, <3>3
    <3>5. Ranked(<<>>, etl, M, details, 0)
      BY <3>2, <3>4 DEF Ranked
    <3>6. QED BY <3>1, <3>5, SingleIsSeq
  <2>2. ASSUME NEW n \in 0..(L - 1), n \in K PROVE n + 1 \in K
    <3> DEFINE new == Output(etl.detail_table, Detail(etl, details[n + 1]))
               s == f[n]
               t == f[n + 1]
    <3>1. n + 1 \in 1..L /\ n + 1 \in 0..L /\ n \in 0..L /\ n + 1 # 0 /\ (n + 1) - 1 = n /\ n \in Nat
      OBVIOUS
    <3>2. t = IF n + 1 \in M /\ Len(s) < etl.limit THEN Append(s, new) ELSE s
      BY <1>1, <1>2, <3>1 DEF Finds
    <3>3. IsSeq(s) /\ Ranked(s, etl, M, details, n)
      BY <2>2
    <3> HIDE DEF s, t, new
    <3>4. Len(s) \in Nat
      BY <3>3, SeqLen
    <3>5. \A m \in M : m <= n + 1 => m <= n \/ m = n + 1
      BY <1>2
    <3>6. \A m \in M : m \in 0..L
      BY <1>2
    <3>7. CASE n + 1 \in M /\ Len(s) < etl.limit
      <4>1. PICK S : s \in Seq(S)
        BY <3>3 DEF IsSeq
      <4>2. s \in Seq(S \cup {new}) /\ new \in S \cup {new}
        BY <4>1
      <4>3. /\ t \in Seq(S \cup {new}) /\ Len(t) = Len(s) + 1
            /\ \A k \in 1..Len(s) : t[k] = s[k]
            /\ t[Len(s) + 1] = new
        BY <3>2, <3>7, <4>2, AppendProperties
      <4>4. UpTo(M, n + 1) = UpTo(M, n) + 1 /\ UpTo(M, n) \in Nat
        BY <1>3, <3>1, <3>7
      <4>5. Len(s) = UpTo(M, n) /\ Len(t) = UpTo(M, n + 1) /\ UpTo(M, n + 1) <= etl.limit
        BY <3>3, <3>7, <4>3, <4>4 DEF Ranked
      <4>6. ASSUME NEW m \in M, m <= n + 1, UpTo(M, m) <= etl.limit
            PROVE  UpTo(M, m) \in 1..Len(t) /\ t[UpTo(M, m)] = Output(etl.detail_table, Detail(etl, details[m]))
        <5>1. CASE m = n + 1
          BY <3>4, <4>3, <4>5, <5>1 DEF new
        <5>2. CASE m <= n
          <6>1. UpTo(M, m) \in 1..Len(s) /\ s[UpTo(M, m)] = Output(etl.detail_table, Detail(etl, details[m]))
            BY <3>3, <4>6, <5>2 DEF Ranked
          <6>2. QED BY <3>4, <4>3, <6>1
        <5>3. QED BY <3>5, <4>6, <5>1, <5>2
      <4>7. Len(t) = IF UpTo(M, n + 1) < etl.limit THEN UpTo(M, n + 1) ELSE etl.limit
        BY <4>4, <4>5
      <4>8. QED BY <3>1, <4>3, <4>6, <4>7 DEF Ranked, IsSeq, t
    <3>8. CASE ~(n + 1 \in M /\ Len(s) < etl.limit)
      <4>1. t = s
        BY <3>2, <3>8
      <4>2. UpTo(M, n) \in Nat /\ UpTo(M, n + 1) \in Nat
        BY <1>3, <3>1
      <4>3. CASE n + 1 \notin M
        <5>1. UpTo(M, n + 1) = UpTo(M, n)
          BY <1>3, <4>3
        <5>2. \A m \in M : m <= n + 1 => m <= n
          BY <3>5, <4>3
        <5>3. Ranked(t, etl, M, details, n + 1)
          BY <3>3, <4>1, <5>1, <5>2 DEF Ranked
        <5>4. QED BY <3>1, <3>3, <4>1, <5>3 DEF t
      <4>4. CASE n + 1 \in M /\ ~(Len(s) < etl.limit)
        <5>1. UpTo(M, n + 1) = UpTo(M, n) + 1
          BY <1>3, <4>4
        <5>2. Len(s) = etl.limit /\ UpTo(M, n) >= etl.limit
          BY <3>3, <4>2, <4>4 DEF Ranked
        <5>3. \A m \in M : m <= n + 1 /\ UpTo(M, m) <= etl.limit => m <= n
          BY <3>5, <4>2, <5>1, <5>2
        <5>4. Len(t) = IF UpTo(M, n + 1) < etl.limit THEN UpTo(M, n + 1) ELSE etl.limit
          BY <4>1, <4>2, <5>1, <5>2
        <5>5. Ranked(t, etl, M, details, n + 1)
          BY <3>3, <4>1, <5>3, <5>4 DEF Ranked
        <5>6. QED BY <3>1, <3>3, <4>1, <5>5 DEF t
      <4>5. QED BY <3>8, <4>3, <4>4
    <3>9. QED BY <3>7, <3>8
  <2>3. \A n \in 0..L : n \in K
    <3> HIDE DEF K
    <3>1. QED BY <2>1, <2>2, InductionTo
  <2>4. QED BY <2>3
<1>5. QED BY <1>1, <1>4 DEF M

-----------------------------------------------------------------------------
(* Headers with their details.                                             *)

KeepsKey(etl) == etl.keep = {} \/ etl.parent_key \in etl.keep
MatchesOf(row, etl, details) ==
    LET key == ValueAt(row, etl.parent_key)
    IN  {m \in 1..Len(details) : key # Null /\ details[m][etl.child_key] = key}
EndOf(n, M, etl) == n + 1 + IF Cardinality(M) < etl.limit THEN Cardinality(M) ELSE etl.limit

(* The header at n of s is followed by the details in M, and then by the   *)
(* next header.                                                            *)
IsFollowed(s, n, M, etl, details, header) ==
    /\ \A m \in M : UpTo(M, m) <= etl.limit =>
          /\ n + UpTo(M, m) \in 1..Len(s)
          /\ s[n + UpTo(M, m)] = Output(etl.detail_table, Detail(etl, details[m]))
    /\ EndOf(n, M, etl) <= Len(s) + 1
    /\ EndOf(n, M, etl) <= Len(s) => s[EndOf(n, M, etl)].table = header

(* Rows with the table `header` are headers, the first row is one, and     *)
(* each that keeps its key is followed by its details.                     *)
Grouped(s, etl, details, header) ==
    /\ IsSeq(s)
    /\ Len(s) # 0 => s[1].table = header
    /\ \A n \in 1..Len(s) :
          s[n].table = header /\ KeepsKey(etl) => IsFollowed(s, n, MatchesOf(s[n].row, etl, details), etl, details, header)

LEMMA MatchesCounted ==
  ASSUME NEW etl, etl.limit \in Nat, NEW details, Len(details) \in Nat, NEW row, NEW n \in Nat
  PROVE  /\ Cardinality(MatchesOf(row, etl, details)) \in Nat
         /\ EndOf(n, MatchesOf(row, etl, details), etl) \in Nat /\ EndOf(n, MatchesOf(row, etl, details), etl) >= n + 1
         /\ \A m \in MatchesOf(row, etl, details) : UpTo(MatchesOf(row, etl, details), m) \in Nat
<1> DEFINE M == MatchesOf(row, etl, details)
           L == Len(details)
<1>1. M \in SUBSET (1..L) /\ L \in Nat
  BY DEF MatchesOf
<1> HIDE DEF M, L
<1>2. Cardinality(M) \in Nat /\ \A m \in M : UpTo(M, m) \in Nat
  <2>1. L \in 0..L /\ \A m \in M : m \in 0..L
    BY <1>1
  <2>2. (\A m \in 0..L : UpTo(M, m) \in Nat) /\ UpTo(M, L) = Cardinality(M)
    BY <1>1, RanksGrow
  <2>3. QED BY <2>1, <2>2
<1>3. EndOf(n, M, etl) \in Nat /\ EndOf(n, M, etl) >= n + 1
  BY <1>2 DEF EndOf
<1>4. QED BY <1>2, <1>3 DEF M

(* Two sequences of groups in a row are one. *)
LEMMA GroupsJoin ==
  ASSUME NEW etl, etl.limit \in Nat, NEW details, Len(details) \in Nat, NEW header,
         NEW s, Grouped(s, etl, details, header), NEW t, Grouped(t, etl, details, header)
  PROVE  Grouped(s \o t, etl, details, header)
<1> DEFINE all == s \o t
<1>1. PICK S, T : s \in Seq(S) /\ t \in Seq(T)
  BY DEF Grouped, IsSeq
<1>2. s \in Seq(S \cup T) /\ t \in Seq(S \cup T)
  BY <1>1
<1>3. /\ all \in Seq(S \cup T) /\ Len(all) = Len(s) + Len(t) /\ Len(s) \in Nat /\ Len(t) \in Nat
      /\ \A k \in 1..(Len(s) + Len(t)) : all[k] = IF k <= Len(s) THEN s[k] ELSE t[k - Len(s)]
  BY <1>2, ConcatProperties, LenProperties
<1> HIDE DEF all
<1>4. \A k \in 1..Len(s) : k \in 1..Len(all) /\ all[k] = s[k]
  BY <1>3
<1>5. \A k \in 1..Len(t) : Len(s) + k \in 1..Len(all) /\ all[Len(s) + k] = t[k]
  <2>1. \A k \in 1..Len(t) : Len(s) + k \in 1..(Len(s) + Len(t)) /\ ~(Len(s) + k <= Len(s)) /\ (Len(s) + k) - Len(s) = k
    BY <1>3
  <2>2. QED BY <1>3, <2>1
<1>6. Len(all) # 0 => all[1].table = header
  <2>1. CASE Len(s) # 0
    BY <1>3, <1>4, <2>1 DEF Grouped
  <2>2. CASE Len(s) = 0 /\ Len(t) # 0
    <3>1. 1 \in 1..Len(t) /\ Len(s) + 1 = 1
      BY <1>3, <2>2
    <3>2. all[1] = t[1]
      BY <1>5, <3>1
    <3>3. QED BY <2>2, <3>2 DEF Grouped
  <2>3. QED BY <1>3, <2>1, <2>2
<1>7. ASSUME NEW n \in 1..Len(all), all[n].table = header, KeepsKey(etl)
      PROVE  IsFollowed(all, n, MatchesOf(all[n].row, etl, details), etl, details, header)
  <2> DEFINE M == MatchesOf(all[n].row, etl, details)
  <2>1. CASE n \in 1..Len(s)
    <3>0. all[n] = s[n]
      BY <1>4, <2>1
    <3>1. IsFollowed(s, n, M, etl, details, header)
      BY <1>7, <2>1, <3>0 DEF Grouped
    <3>2. EndOf(n, M, etl) \in Nat /\ EndOf(n, M, etl) >= n + 1
      BY <2>1, MatchesCounted
    <3> HIDE DEF M
    <3>3. \A m \in M : UpTo(M, m) <= etl.limit =>
             /\ n + UpTo(M, m) \in 1..Len(all)
             /\ all[n + UpTo(M, m)] = Output(etl.detail_table, Detail(etl, details[m]))
      BY <1>4, <3>1 DEF IsFollowed
    <3>4. EndOf(n, M, etl) <= Len(all) + 1
      BY <1>3, <3>1, <3>2 DEF IsFollowed
    <3>5. ASSUME EndOf(n, M, etl) <= Len(all) PROVE all[EndOf(n, M, etl)].table = header
      <4>1. CASE EndOf(n, M, etl) <= Len(s)
        <5>1. EndOf(n, M, etl) \in 1..Len(s)
          BY <2>1, <3>2, <4>1
        <5>2. QED BY <1>4, <3>1, <4>1, <5>1 DEF IsFollowed
      <4>2. CASE EndOf(n, M, etl) = Len(s) + 1
        <5>1. 1 \in 1..Len(t) /\ Len(t) # 0
          BY <1>3, <3>5, <4>2
        <5>2. QED BY <1>5, <4>2, <5>1 DEF Grouped
      <4>3. EndOf(n, M, etl) <= Len(s) + 1
        BY <3>1 DEF IsFollowed
      <4>4. QED BY <1>3, <3>2, <4>1, <4>2, <4>3
    <3>6. QED BY <3>3, <3>4, <3>5 DEF IsFollowed, M
  <2>2. CASE n \notin 1..Len(s)
    <3> DEFINE k == n - Len(s)
    <3>0. k \in 1..Len(t) /\ n = Len(s) + k /\ k \in Nat
      BY <1>3, <2>2
    <3>1. all[n] = t[k]
      BY <1>5, <3>0
    <3>2. IsFollowed(t, k, M, etl, details, header)
      BY <1>7, <3>0, <3>1 DEF Grouped
    <3>3. /\ EndOf(k, M, etl) \in Nat /\ EndOf(k, M, etl) >= k + 1
          /\ Cardinality(M) \in Nat /\ \A m \in M : UpTo(M, m) \in Nat
      BY <3>0, MatchesCounted
    <3> HIDE DEF M, k
    <3>4. EndOf(n, M, etl) = Len(s) + EndOf(k, M, etl)
      <4> DEFINE c == IF Cardinality(M) < etl.limit THEN Cardinality(M) ELSE etl.limit
      <4>1. c \in Nat /\ EndOf(n, M, etl) = n + 1 + c /\ EndOf(k, M, etl) = k + 1 + c
        BY <3>3 DEF EndOf
      <4> HIDE DEF c
      <4>2. QED BY <1>3, <3>0, <4>1
    <3>5. ASSUME NEW m \in M, UpTo(M, m) <= etl.limit
          PROVE  /\ n + UpTo(M, m) \in 1..Len(all)
                 /\ all[n + UpTo(M, m)] = Output(etl.detail_table, Detail(etl, details[m]))
      <4>1. /\ k + UpTo(M, m) \in 1..Len(t) /\ t[k + UpTo(M, m)] = Output(etl.detail_table, Detail(etl, details[m]))
        BY <3>2, <3>5 DEF IsFollowed
      <4>2. n + UpTo(M, m) = Len(s) + (k + UpTo(M, m))
        BY <1>3, <3>0, <3>3, <3>5
      <4>3. QED BY <1>5, <4>1, <4>2
    <3>6. EndOf(n, M, etl) <= Len(all) + 1
      BY <1>3, <3>2, <3>3, <3>4 DEF IsFollowed
    <3>7. ASSUME EndOf(n, M, etl) <= Len(all) PROVE all[EndOf(n, M, etl)].table = header
      <4>1. EndOf(k, M, etl) \in 1..Len(t)
        BY <1>3, <3>0, <3>3, <3>4, <3>7
      <4>2. t[EndOf(k, M, etl)].table = header
        BY <3>2, <4>1 DEF IsFollowed
      <4>3. QED BY <1>5, <3>4, <4>1, <4>2
    <3>8. QED BY <3>5, <3>6, <3>7 DEF IsFollowed, M
  <2>3. QED BY <2>1, <2>2
<1>8. Grouped(all, etl, details, header)
  BY <1>3, <1>6, <1>7 DEF Grouped, IsSeq
<1>9. QED BY <1>8 DEF all

LEMMA NoGroups ==
  ASSUME NEW etl, NEW details, NEW header
  PROVE  Grouped(<<>>, etl, details, header)
<1>1. Len(<<>>) = 0 /\ \A n \in 1..0 : FALSE
  OBVIOUS
<1>2. QED BY <1>1, SingleIsSeq DEF Grouped

-----------------------------------------------------------------------------
(* The steps.                                                              *)

(* The split of an order: the header and then its details. *)
LEMMA SplitMakes ==
  ASSUME NEW etl, NEW row, NEW lookup, IsOk(Split(etl, row, lookup))
  PROVE  \E rest : /\ Split(etl, row, lookup).ok = <<Output(NoTable, keep_columns(row, etl.keep))>> \o rest
                   /\ \/ ValueAt(row, etl.parent_key) = Null /\ rest = <<>>
                      \/ /\ ValueAt(row, etl.parent_key) # Null /\ IsOk(lookup)
                         /\ rest = DetailsOf(etl, ValueAt(row, etl.parent_key), lookup.ok)
<1> DEFINE header == <<Output(NoTable, keep_columns(row, etl.keep))>>
           key == ValueAt(row, etl.parent_key)
           details == DetailsOf(etl, key, lookup.ok)
<1>1. Split(etl, row, lookup) = IF key = Null THEN Ok(header) ELSE IF ~IsOk(lookup) THEN Err ELSE Ok(header \o details)
  BY DEF Split
<1>2. IsSeq(header) /\ IsSeq(<<>>)
  BY SingleIsSeq
<1> HIDE DEF header, key, details
<1>3. header \o <<>> = header
  BY <1>2, SeqsJoin
<1>4. CASE key = Null
  <2>1. Split(etl, row, lookup).ok = header \o <<>>
    BY <1>1, <1>3, <1>4, OkIsOk
  <2>2. QED BY <1>4, <2>1 DEF header, key
<1>5. CASE key # Null /\ ~IsOk(lookup)
  BY <1>1, <1>5, OkIsOk
<1>6. CASE key # Null /\ IsOk(lookup)
  <2>1. Split(etl, row, lookup).ok = header \o details
    BY <1>1, <1>6, OkIsOk
  <2>2. QED BY <1>6, <2>1 DEF header, key, details
<1>7. QED BY <1>4, <1>5, <1>6

LEMMA SplitIsOutputs ==
  ASSUME NEW etl, NEW row, NEW lookup, IsOk(lookup) => Len(lookup.ok) \in Nat, IsOk(Split(etl, row, lookup))
  PROVE  OutputsFor(Split(etl, row, lookup).ok, {NoTable, etl.detail_table})
<1> DEFINE key == ValueAt(row, etl.parent_key)
           head == keep_columns(row, etl.keep)
           T == {NoTable, etl.detail_table}
<1>1. PICK rest : /\ Split(etl, row, lookup).ok = <<Output(NoTable, head)>> \o rest
                  /\ rest = <<>> \/ (IsOk(lookup) /\ rest = DetailsOf(etl, key, lookup.ok))
  BY SplitMakes
<1> HIDE DEF head, key
<1>2. OutputsFor(<<Output(NoTable, head)>>, T) /\ OutputsFor(<<>>, T)
  <2>1. NoTable \in T
    OBVIOUS
  <2> HIDE DEF T
  <2>2. QED BY <2>1, OneOutput
<1>3. IsOk(lookup) => OutputsFor(DetailsOf(etl, key, lookup.ok), T)
  <2>1. IsOk(lookup) => OutputsFor(DetailsOf(etl, key, lookup.ok), {etl.detail_table})
    BY DetailsAreOutputs
  <2>2. QED BY <2>1 DEF OutputsFor
<1>4. OutputsFor(rest, T)
  BY <1>1, <1>2, <1>3
<1> HIDE DEF T
<1>5. OutputsFor(<<Output(NoTable, head)>> \o rest, T)
  BY <1>2, <1>4, OutputsJoin
<1>6. QED BY <1>1, <1>5 DEF T

LEMMA SplitIsGrouped ==
  ASSUME NEW etl, etl.limit \in Nat, etl.detail_table # NoTable, NEW row, NEW details, Len(details) \in Nat,
         NEW lookup, IsOk(lookup) => lookup.ok = details, IsOk(Split(etl, row, lookup))
  PROVE  Grouped(Split(etl, row, lookup).ok, etl, details, NoTable)
<1> DEFINE key == ValueAt(row, etl.parent_key)
           head == keep_columns(row, etl.keep)
           first == Output(NoTable, head)
           M == MatchesOf(head, etl, details)
           L == Len(details)
<1>0. L \in Nat
  OBVIOUS
<1>1. PICK rest : /\ Split(etl, row, lookup).ok = <<first>> \o rest
                  /\ \/ key = Null /\ rest = <<>>
                     \/ key # Null /\ rest = DetailsOf(etl, key, details)
  <2>1. \E rest : /\ Split(etl, row, lookup).ok = <<Output(NoTable, keep_columns(row, etl.keep))>> \o rest
                   /\ \/ ValueAt(row, etl.parent_key) = Null /\ rest = <<>>
                      \/ /\ ValueAt(row, etl.parent_key) # Null /\ IsOk(lookup)
                         /\ rest = DetailsOf(etl, ValueAt(row, etl.parent_key), lookup.ok)
    BY SplitMakes
  <2>2. QED BY <2>1
<1>2. KeepsKey(etl) => ValueAt(head, etl.parent_key) = key
  <2>1. CASE etl.keep = {}
    BY <2>1 DEF keep_columns
  <2>2. CASE etl.keep # {} /\ etl.parent_key \in etl.keep
    <3>1. head = [c \in etl.keep \cap DOMAIN row |-> row[c]]
      BY <2>2 DEF keep_columns
    <3>2. QED BY <2>2, <3>1 DEF ValueAt
  <2>3. QED BY <2>1, <2>2 DEF KeepsKey
<1>3. KeepsKey(etl) => M = IF key = Null THEN {} ELSE WithKey(key, etl, details)
  BY <1>2 DEF MatchesOf, WithKey
<1>4. OutputsFor(DetailsOf(etl, key, details), {etl.detail_table})
  BY DetailsAreOutputs
<1>5. first.table = NoTable /\ first.row = head
  BY DEF Output
<1>6. M \in SUBSET (1..L)
  BY DEF MatchesOf
<1>7. Ranked(DetailsOf(etl, key, details), etl, WithKey(key, etl, details), details, L)
  BY DetailsAreRanked
<1> HIDE DEF first, head, key, M, L
<1>8. /\ Cardinality(M) \in Nat /\ \A m \in M : UpTo(M, m) \in Nat
      /\ UpTo(M, L) = Cardinality(M)
  <2>1. L \in 0..L /\ \A m \in M : m \in 0..L
    BY <1>0, <1>6
  <2>2. (\A m \in 0..L : UpTo(M, m) \in Nat) /\ UpTo(M, L) = Cardinality(M)
    BY <1>0, <1>6, RanksGrow
  <2>3. QED BY <2>1, <2>2
<1>9. OutputsFor(rest, {etl.detail_table})
  <2>1. OutputsFor(<<>>, {etl.detail_table})
    <3>1. etl.detail_table \in {etl.detail_table}
      OBVIOUS
    <3>2. QED BY <3>1, OneOutput
  <2>2. QED BY <1>1, <1>4, <2>1
<1>10. ASSUME KeepsKey(etl)
       PROVE  /\ Len(rest) = IF Cardinality(M) < etl.limit THEN Cardinality(M) ELSE etl.limit
              /\ \A m \in M : UpTo(M, m) <= etl.limit =>
                    /\ UpTo(M, m) \in 1..Len(rest)
                    /\ rest[UpTo(M, m)] = Output(etl.detail_table, Detail(etl, details[m]))
  <2>1. CASE key = Null
    <3>1. M = {} /\ rest = <<>> /\ Len(rest) = 0
      BY <1>1, <1>3, <1>10, <2>1
    <3>2. Cardinality({}) = 0
      BY FS_EmptySet
    <3>3. QED BY <3>1, <3>2
  <2>2. CASE key # Null
    <3>1. M = WithKey(key, etl, details) /\ rest = DetailsOf(etl, key, details)
      BY <1>1, <1>3, <1>10, <2>2
    <3>2. Ranked(rest, etl, M, details, L)
      BY <1>7, <3>1
    <3>3. \A m \in M : m <= L
      BY <1>6
    <3>4. QED BY <1>8, <3>2, <3>3 DEF Ranked
  <2>3. QED BY <2>1, <2>2
<1> DEFINE s == <<first>> \o rest
<1>11. /\ IsSeq(s) /\ Len(s) = 1 + Len(rest) /\ Len(rest) \in Nat
       /\ s[1] = first /\ \A k \in 1..Len(rest) : s[1 + k] = rest[k]
  <2>1. PICK S : rest \in Seq(S)
    BY <1>9 DEF OutputsFor, IsSeq
  <2>2. rest \in Seq(S \cup {first}) /\ <<first>> \in Seq(S \cup {first}) /\ Len(<<first>>) = 1 /\ <<first>>[1] = first
    BY <2>1
  <2>3. /\ s \in Seq(S \cup {first}) /\ Len(s) = 1 + Len(rest) /\ Len(rest) \in Nat
        /\ \A k \in 1..(1 + Len(rest)) : s[k] = IF k <= 1 THEN <<first>>[k] ELSE rest[k - 1]
    BY <2>2, ConcatProperties, LenProperties
  <2> HIDE DEF s
  <2>4. 1 \in 1..(1 + Len(rest)) /\ 1 <= 1
    BY <2>3
  <2>5. \A k \in 1..Len(rest) : 1 + k \in 1..(1 + Len(rest)) /\ ~(1 + k <= 1) /\ (1 + k) - 1 = k
    BY <2>3
  <2>6. s[1] = first
    BY <2>2, <2>3, <2>4
  <2>7. \A k \in 1..Len(rest) : s[1 + k] = rest[k]
    BY <2>3, <2>5
  <2>8. QED BY <2>3, <2>6, <2>7 DEF IsSeq
<1> HIDE DEF s
<1>12. ASSUME NEW n \in 1..Len(s), s[n].table = NoTable, KeepsKey(etl)
       PROVE  IsFollowed(s, n, MatchesOf(s[n].row, etl, details), etl, details, NoTable)
  <2>1. n = 1
    <3>1. SUFFICES ASSUME n # 1 PROVE FALSE
      OBVIOUS
    <3>2. n - 1 \in 1..Len(rest) /\ n = 1 + (n - 1)
      BY <1>11, <3>1
    <3>3. s[n].table = etl.detail_table
      BY <1>9, <1>11, <3>2 DEF OutputsFor
    <3>4. QED BY <1>12, <3>3
  <2>2. MatchesOf(s[n].row, etl, details) = M
    BY <1>5, <1>11, <2>1 DEF M
  <2>3. EndOf(n, M, etl) = Len(s) + 1
    BY <1>8, <1>10, <1>11, <1>12, <2>1 DEF EndOf
  <2>4. ASSUME NEW m \in M, UpTo(M, m) <= etl.limit
        PROVE  /\ n + UpTo(M, m) \in 1..Len(s)
               /\ s[n + UpTo(M, m)] = Output(etl.detail_table, Detail(etl, details[m]))
    <3>1. /\ UpTo(M, m) \in 1..Len(rest)
          /\ rest[UpTo(M, m)] = Output(etl.detail_table, Detail(etl, details[m]))
      BY <1>10, <1>12, <2>4
    <3>2. QED BY <1>11, <2>1, <3>1
  <2>5. IsFollowed(s, n, M, etl, details, NoTable)
    BY <1>11, <2>3, <2>4 DEF IsFollowed
  <2>6. QED BY <2>2, <2>5
<1>13. Grouped(s, etl, details, NoTable)
  BY <1>5, <1>11, <1>12 DEF Grouped
<1>14. QED BY <1>1, <1>13 DEF s

(* What a step puts out for one row. *)
TablesOf(etl) == IF etl.name = "order_split" THEN {NoTable, etl.detail_table} ELSE {NoTable}

LEMMA ProcessIsOutputs ==
  ASSUME NEW etl, etl.name \in StepNames, NEW row, NEW lookup, IsOk(lookup) => Len(lookup.ok) \in Nat,
         IsOk(Process(etl, row, lookup))
  PROVE  OutputsFor(Process(etl, row, lookup).ok, TablesOf(etl))
<1> DEFINE r == Process(etl, row, lookup)
<1>1. NoTable \in TablesOf(etl)
  BY DEF TablesOf
<1>2. ASSUME r = Ok(<<>>) \/ r = Err \/ \E x : r = Ok(<<Output(NoTable, x)>>) PROVE OutputsFor(r.ok, TablesOf(etl))
  <2> HIDE DEF r
  <2>1. r # Err
    BY OkIsOk DEF r
  <2>2. CASE r = Ok(<<>>)
    BY <1>1, <2>2, OkIsOk, OneOutput
  <2>3. CASE \E x : r = Ok(<<Output(NoTable, x)>>)
    <3>1. PICK x : r = Ok(<<Output(NoTable, x)>>)
      BY <2>3
    <3>2. OutputsFor(<<Output(NoTable, x)>>, TablesOf(etl))
      BY <1>1, OneOutput
    <3>3. QED BY <3>1, <3>2, OkIsOk
  <2>4. QED BY <1>2, <2>1, <2>2, <2>3
<1>3. CASE etl.name = "rename"
  <2>1. r = Ok(<<Output(NoTable, FoldLeft(Renamed, row, etl.items))>>)
    BY <1>3 DEF Process
  <2> DEFINE x == FoldLeft(Renamed, row, etl.items)
  <2> HIDE DEF x, r
  <2>2. QED BY <1>2, <2>1 DEF x, r
<1>4. CASE etl.name = "set"
  <2>1. r = Ok(<<Output(NoTable, WithConstants(row, etl.constants))>>)
    BY <1>4 DEF Process
  <2> HIDE DEF r
  <2>2. QED BY <1>2, <2>1 DEF r
<1>5. CASE etl.name = "cast"
  <2>1. (\E x : r = Ok(<<Output(NoTable, x)>>)) \/ r = Err
    BY <1>5 DEF Process
  <2> HIDE DEF r
  <2>2. QED BY <1>2, <2>1 DEF r
<1>6. CASE etl.name = "filter"
  <2>1. r = Filtered(etl, row)
    BY <1>6 DEF Process
  <2>2. r = Ok(<<>>) \/ r = Err \/ \E x : r = Ok(<<Output(NoTable, x)>>)
    BY <2>1 DEF Filtered
  <2> HIDE DEF r
  <2>3. QED BY <1>2, <2>2 DEF r
<1>7. CASE etl.name = "order_split"
  <2>1. r = Split(etl, row, lookup) /\ TablesOf(etl) = {NoTable, etl.detail_table}
    BY <1>7 DEF Process, TablesOf
  <2>2. QED BY <2>1, SplitIsOutputs
<1>8. QED BY <1>3, <1>4, <1>5, <1>6, <1>7 DEF StepNames

(* Outputs for the same tables, flattened, are outputs for these.          *)
LEMMA OutputsFlatten ==
  ASSUME NEW tables, NEW N \in Nat, NEW ss, ss = [i \in 1..N |-> ss[i]], \A i \in 1..N : OutputsFor(ss[i], tables)
  PROVE  OutputsFor(FlattenSeq(ss), tables)
<1>1. PICK S : \A i \in 1..N : ss[i] \in Seq(S)
  BY PartsHaveElements DEF OutputsFor
<1> DEFINE G == {s \in Seq(S) : OutputsFor(s, tables)}
<1>2. <<>> \in G
  <2>1. Len(<<>>) = 0 /\ <<>> \in Seq(S) /\ \A k \in 1..0 : FALSE
    OBVIOUS
  <2>2. QED BY <2>1, SingleIsSeq DEF OutputsFor
<1>3. \A s, t \in G : s \o t \in G
  <2> SUFFICES ASSUME NEW s \in G, NEW t \in G PROVE s \o t \in G
    OBVIOUS
  <2>1. s \o t \in Seq(S)
    BY ConcatProperties
  <2>2. OutputsFor(s \o t, tables)
    BY OutputsJoin
  <2>3. QED BY <2>1, <2>2
<1>4. \A i \in 1..N : ss[i] \in G
  BY <1>1
<1> HIDE DEF G
<1>5. FlattenSeq(ss) \in G
  BY <1>2, <1>3, <1>4, FlatIsIn
<1>6. QED BY <1>5 DEF G

LEMMA GroupsFlatten ==
  ASSUME NEW etl, etl.limit \in Nat, NEW details, Len(details) \in Nat, NEW header,
         NEW N \in Nat, NEW ss, ss = [i \in 1..N |-> ss[i]], \A i \in 1..N : Grouped(ss[i], etl, details, header)
  PROVE  Grouped(FlattenSeq(ss), etl, details, header)
<1>1. PICK S : \A i \in 1..N : ss[i] \in Seq(S)
  BY PartsHaveElements DEF Grouped
<1> DEFINE G == {s \in Seq(S) : Grouped(s, etl, details, header)}
<1>2. <<>> \in G
  BY NoGroups
<1>3. \A s, t \in G : s \o t \in G
  <2> SUFFICES ASSUME NEW s \in G, NEW t \in G PROVE s \o t \in G
    OBVIOUS
  <2>1. s \o t \in Seq(S)
    BY ConcatProperties
  <2>2. Grouped(s \o t, etl, details, header)
    BY GroupsJoin
  <2>3. QED BY <2>1, <2>2
<1>4. \A i \in 1..N : ss[i] \in G
  BY <1>1
<1> HIDE DEF G
<1>5. FlattenSeq(ss) \in G
  BY <1>2, <1>3, <1>4, FlatIsIn
<1>6. QED BY <1>5 DEF G

-----------------------------------------------------------------------------
(* The chain.                                                              *)

(* What the next step makes of the outputs of the steps before it. *)
NextRows(current, etl, lookup) ==
    IF ~IsOk(current) THEN Err
    ELSE LET results == [i \in DOMAIN current.ok |-> Process(etl, current.ok[i].row, lookup)]
         IN  IF \E i \in DOMAIN results : ~IsOk(results[i]) THEN Err
             ELSE Ok(FlattenSeq([i \in DOMAIN results |-> results[i].ok]))
Steps(after, steps, row, table, lookup, L) ==
    after = [n \in 0..L |-> IF n = 0 THEN Ok(<<Output(table, row)>>) ELSE NextRows(after[n - 1], steps[n], lookup)]

LEMMA RunIsSteps ==
  ASSUME NEW steps, NEW L \in Nat, L = Len(steps), NEW row, NEW table, NEW lookup
  PROVE  \E after : Run(steps, row, table, lookup) = after[L] /\ Steps(after, steps, row, table, lookup, L)
<1> DEFINE first == Ok(<<Output(table, row)>>)
           Next_(current, etl) ==
               IF ~IsOk(current) THEN Err
               ELSE LET results == [i \in DOMAIN current.ok |-> Process(etl, current.ok[i].row, lookup)]
                    IN  IF \E i \in DOMAIN results : ~IsOk(results[i]) THEN Err
                        ELSE Ok(FlattenSeq([i \in DOMAIN results |-> results[i].ok]))
           After(g, n) == IF n = 0 THEN first ELSE Next_(g[n - 1], steps[n])
           Solves(g, m) == g = [n \in 0..m |-> After(g, n)]
           after == CHOOSE g : Solves(g, L)
<1>1. Run(steps, row, table, lookup) = after[L]
  BY DEF Run
<1>2. \A current, etl : Next_(current, etl) = NextRows(current, etl, lookup)
  BY DEF NextRows
<1> HIDE DEF Next_, first
<1>3. \E g : Solves(g, L)
  <2> DEFINE H == {m \in 0..L : \E g : Solves(g, m)}
  <2>0. /\ L \in 0..L /\ 0 \in 0..L
        /\ \A m \in 0..(L - 1) : m \in Nat /\ m + 1 \in 0..L
        /\ \A m \in Nat : m + 1 # 0 /\ (m + 1) - 1 = m /\ m \in 0..m /\ m + 1 \in 0..(m + 1) /\ m + 1 \notin 0..m
        /\ \A m \in Nat : \A n \in 0..(m + 1) : (n \in 0..m \/ n = m + 1) /\ (n # 0 => n - 1 \in 0..m)
        /\ \A m \in Nat : \A n \in 0..m : n \in 0..(m + 1)
    OBVIOUS
  <2>1. 0 \in H
    <3>1. Solves([n \in 0..0 |-> first], 0)
      OBVIOUS
    <3> HIDE DEF Solves
    <3>2. QED BY <2>0, <3>1
  <2>2. ASSUME NEW m \in 0..(L - 1), m \in H PROVE m + 1 \in H
    <3>1. PICK g : Solves(g, m)
      BY <2>2
    <3> DEFINE next == After(g, m + 1)
               h == [n \in 0..(m + 1) |-> IF n \in 0..m THEN g[n] ELSE next]
    <3> HIDE DEF After, next
    <3>2. h = [n \in 0..(m + 1) |-> h[n]] /\ \A n \in 0..(m + 1) : h[n] = IF n \in 0..m THEN g[n] ELSE next
      OBVIOUS
    <3> HIDE DEF h
    <3>3. (\A n \in 0..m : h[n] = g[n]) /\ h[m + 1] = next
      BY <2>0, <3>2
    <3>4. \A n \in 0..(m + 1) : After(h, n) = After(g, n)
      <4>1. \A n \in 0..(m + 1) : n # 0 => h[n - 1] = g[n - 1]
        BY <2>0, <3>3
      <4>2. QED BY <4>1 DEF After
    <3>5. \A n \in 0..(m + 1) : h[n] = After(h, n)
      <4>1. \A n \in 0..m : g[n] = After(g, n)
        BY <3>1
      <4>2. QED BY <2>0, <3>3, <3>4, <4>1 DEF next
    <3>6. Solves(h, m + 1)
      BY <3>2, <3>5
    <3> HIDE DEF Solves
    <3>7. QED BY <2>0, <3>6
  <2>3. L \in H
    <3> HIDE DEF H
    <3>1. QED BY <2>0, <2>1, <2>2, InductionTo
  <2> HIDE DEF Solves
  <2>4. QED BY <2>3
<1>4. Solves(after, L)
  <2> HIDE DEF Solves
  <2>1. QED BY <1>3
<1> HIDE DEF after
<1>5. Steps(after, steps, row, table, lookup, L)
  BY <1>2, <1>4 DEF Steps, first
<1>6. QED BY <1>1, <1>5

(* The outputs of a step are its outputs for each row, in a row. *)
MadeBy(s, etl, lookup) ==
    \E N \in Nat : \E parts :
        /\ parts = [i \in 1..N |-> parts[i]] /\ s = FlattenSeq(parts)
        /\ \A i \in 1..N : \E row : IsOk(Process(etl, row, lookup)) /\ parts[i] = Process(etl, row, lookup).ok

LEMMA NextRowsAreMade ==
  ASSUME NEW current, IsOk(current) => IsSeq(current.ok), NEW etl, NEW lookup, IsOk(NextRows(current, etl, lookup))
  PROVE  MadeBy(NextRows(current, etl, lookup).ok, etl, lookup)
<1> DEFINE results == [i \in DOMAIN current.ok |-> Process(etl, current.ok[i].row, lookup)]
           parts == [i \in DOMAIN results |-> results[i].ok]
<1>1. IsOk(current) /\ (\A i \in DOMAIN results : IsOk(results[i])) /\ NextRows(current, etl, lookup) = Ok(FlattenSeq(parts))
  BY OkIsOk DEF NextRows
<1>2. PICK n \in Nat : DOMAIN current.ok = 1..n
  BY <1>1, SeqLen
<1>3. parts = [i \in 1..n |-> parts[i]]
  BY <1>2
<1>4. \A i \in 1..n : IsOk(Process(etl, current.ok[i].row, lookup)) /\ parts[i] = Process(etl, current.ok[i].row, lookup).ok
  BY <1>1, <1>2
<1> HIDE DEF parts, results
<1>5. NextRows(current, etl, lookup).ok = FlattenSeq(parts)
  BY <1>1, OkIsOk
<1>6. \A i \in 1..n : \E r : IsOk(Process(etl, r, lookup)) /\ parts[i] = Process(etl, r, lookup).ok
  BY <1>4
<1>7. QED BY <1>3, <1>5, <1>6 DEF MadeBy

LEMMA MadeIsOutputs ==
  ASSUME NEW etl, etl.name \in StepNames, NEW lookup, IsOk(lookup) => Len(lookup.ok) \in Nat,
         NEW s, MadeBy(s, etl, lookup)
  PROVE  OutputsFor(s, TablesOf(etl))
<1>0. PICK N \in Nat : \E parts :
        /\ parts = [i \in 1..N |-> parts[i]] /\ s = FlattenSeq(parts)
        /\ \A i \in 1..N : \E row : IsOk(Process(etl, row, lookup)) /\ parts[i] = Process(etl, row, lookup).ok
  BY DEF MadeBy
<1>1. PICK parts :
        /\ parts = [i \in 1..N |-> parts[i]] /\ s = FlattenSeq(parts)
        /\ \A i \in 1..N : \E row : IsOk(Process(etl, row, lookup)) /\ parts[i] = Process(etl, row, lookup).ok
  BY <1>0
<1>2. \A i \in 1..N : OutputsFor(parts[i], TablesOf(etl))
  BY <1>1, ProcessIsOutputs
<1>3. QED BY <1>1, <1>2, OutputsFlatten

LEMMA MadeIsGrouped ==
  ASSUME NEW etl, etl.name = "order_split", etl.limit \in Nat, etl.detail_table # NoTable,
         NEW details, Len(details) \in Nat, NEW lookup, IsOk(lookup) => lookup.ok = details,
         NEW s, MadeBy(s, etl, lookup)
  PROVE  Grouped(s, etl, details, NoTable)
<1>0. PICK N \in Nat : \E parts :
        /\ parts = [i \in 1..N |-> parts[i]] /\ s = FlattenSeq(parts)
        /\ \A i \in 1..N : \E row : IsOk(Process(etl, row, lookup)) /\ parts[i] = Process(etl, row, lookup).ok
  BY DEF MadeBy
<1>1. PICK parts :
        /\ parts = [i \in 1..N |-> parts[i]] /\ s = FlattenSeq(parts)
        /\ \A i \in 1..N : \E row : IsOk(Process(etl, row, lookup)) /\ parts[i] = Process(etl, row, lookup).ok
  BY <1>0
<1>2. \A i \in 1..N : Grouped(parts[i], etl, details, NoTable)
  <2>1. \A row : Process(etl, row, lookup) = Split(etl, row, lookup)
    BY DEF Process
  <2>2. QED BY <1>1, <2>1, SplitIsGrouped
<1>3. QED BY <1>1, <1>2, GroupsFlatten

(* The rows that come out of the chain are those of its last step. *)
LEMMA RunIsMade ==
  ASSUME NEW steps, NEW L \in Nat, L = Len(steps), \A k \in 1..L : steps[k].name \in StepNames,
         NEW row, NEW table, NEW lookup, IsOk(lookup) => Len(lookup.ok) \in Nat,
         IsOk(Run(steps, row, table, lookup))
  PROVE  IF L = 0 THEN Run(steps, row, table, lookup).ok = <<Output(table, row)>>
         ELSE MadeBy(Run(steps, row, table, lookup).ok, steps[L], lookup)
<1>1. PICK after : Run(steps, row, table, lookup) = after[L] /\ Steps(after, steps, row, table, lookup, L)
  BY RunIsSteps
<1>2. /\ after[0] = Ok(<<Output(table, row)>>)
      /\ \A n \in 1..L : after[n] = NextRows(after[n - 1], steps[n], lookup)
  <2>1. 0 \in 0..L /\ \A n \in 1..L : n \in 0..L /\ n # 0
    OBVIOUS
  <2>2. QED BY <1>1, <2>1 DEF Steps
<1>3. \A n \in 0..L : IsOk(after[n]) => IsSeq(after[n].ok)
  <2> DEFINE K == {n \in 0..L : IsOk(after[n]) => IsSeq(after[n].ok)}
  <2>1. 0 \in K
    BY <1>2, OkIsOk, SingleIsSeq
  <2>2. ASSUME NEW n \in 0..(L - 1), n \in K PROVE n + 1 \in K
    <3>1. n + 1 \in 1..L /\ n + 1 \in 0..L /\ (n + 1) - 1 = n
      OBVIOUS
    <3>2. after[n + 1] = NextRows(after[n], steps[n + 1], lookup) /\ steps[n + 1].name \in StepNames
      BY <1>2, <3>1
    <3>3. IsOk(after[n + 1]) => MadeBy(after[n + 1].ok, steps[n + 1], lookup)
      BY <2>2, <3>2, NextRowsAreMade
    <3>4. IsOk(after[n + 1]) => OutputsFor(after[n + 1].ok, TablesOf(steps[n + 1]))
      BY <3>2, <3>3, MadeIsOutputs
    <3>5. QED BY <3>1, <3>4 DEF OutputsFor
  <2>3. \A n \in 0..L : n \in K
    <3> HIDE DEF K
    <3>1. QED BY <2>1, <2>2, InductionTo
  <2>4. QED BY <2>3
<1>4. CASE L = 0
  BY <1>1, <1>2, <1>4, OkIsOk
<1>5. CASE L # 0
  <2>1. L \in 1..L /\ L - 1 \in 0..L
    BY <1>5
  <2>2. after[L] = NextRows(after[L - 1], steps[L], lookup)
    BY <1>2, <2>1
  <2>3. MadeBy(after[L].ok, steps[L], lookup)
    BY <1>1, <1>3, <2>1, <2>2, NextRowsAreMade
  <2>4. QED BY <1>1, <1>5, <2>3
<1>6. QED BY <1>4, <1>5

(* The outputs of a row of the source. *)
LEMMA OutputsAreMade ==
  ASSUME JobIsGiven, NEW i, IsOk(Outputs(i))
  PROVE  /\ Len(job.etl) \in Nat
         /\ Len(job.etl) = 0 => \E row : Outputs(i).ok = <<Output(job.table, row)>>
         /\ Len(job.etl) # 0 => /\ job.etl[Len(job.etl)].name \in StepNames
                                /\ MadeBy(Outputs(i).ok, job.etl[Len(job.etl)], Details)
<1>1. /\ Len(job.etl) \in Nat /\ Len(job.details) \in Nat
      /\ \A k \in 1..Len(job.etl) : job.etl[k].name \in StepNames
  BY JobsAssumption DEF JobIsGiven, StepNames
<1>2. IsOk(Details) => Len(Details.ok) \in Nat
  BY <1>1, OkIsOk DEF Details
<1> DEFINE row == map_columns(Row(i), job.source_columns, job.target_columns)
<1>3. Outputs(i) = Run(job.etl, row, job.table, Details)
  BY DEF Outputs
<1> HIDE DEF row
<1>4. IF Len(job.etl) = 0 THEN Outputs(i).ok = <<Output(job.table, row)>>
      ELSE MadeBy(Outputs(i).ok, job.etl[Len(job.etl)], Details)
  BY <1>1, <1>2, <1>3, RunIsMade
<1>5. Len(job.etl) # 0 => Len(job.etl) \in 1..Len(job.etl)
  BY <1>1
<1>6. QED BY <1>1, <1>4, <1>5

(* The tables the outputs of this job may go to. *)
LastStep == job.etl[Len(job.etl)]
Splits == Len(job.etl) > 0 /\ LastStep.name = "order_split"
OwnTables == {job.table} \cup IF Splits THEN {LastStep.detail_table} ELSE {}

(* What RunEtl puts out for a row: its outputs with their tables. *)
PutOut(i) == [k \in DOMAIN Outputs(i).ok |-> [Outputs(i).ok[k] EXCEPT !.table = target_table(@, job.table)]]
RawTables == IF Len(job.etl) = 0 THEN {job.table} ELSE TablesOf(LastStep)

LEMMA OutputsAreOutputs ==
  ASSUME JobIsGiven, NEW i, IsOk(Outputs(i))
  PROVE  OutputsFor(Outputs(i).ok, RawTables)
<1>0. IsOk(Details) => Len(Details.ok) \in Nat
  <2>1. Len(job.details) \in Nat
    BY JobsAssumption DEF JobIsGiven
  <2>2. QED BY <2>1, OkIsOk DEF Details
<1>1. CASE Len(job.etl) = 0
  <2>1. PICK row : Outputs(i).ok = <<Output(job.table, row)>>
    BY <1>1, OutputsAreMade
  <2>2. RawTables = {job.table} /\ job.table \in {job.table}
    BY <1>1 DEF RawTables
  <2>3. OutputsFor(<<Output(job.table, row)>>, {job.table})
    BY <2>2, OneOutput
  <2>4. QED BY <2>1, <2>2, <2>3
<1>2. CASE Len(job.etl) # 0
  <2>1. LastStep.name \in StepNames /\ MadeBy(Outputs(i).ok, LastStep, Details)
    BY <1>2, OutputsAreMade DEF LastStep
  <2>2. OutputsFor(Outputs(i).ok, TablesOf(LastStep))
    BY <1>0, <2>1, MadeIsOutputs
  <2>3. QED BY <1>2, <2>2 DEF RawTables
<1>3. QED BY <1>1, <1>2

LEMMA OutputsAreSeq ==
  ASSUME JobIsGiven, NEW i, IsOk(Outputs(i))
  PROVE  IsSeq(Outputs(i).ok)
BY OutputsAreOutputs DEF OutputsFor

(* A table that no step names is the table of the job. *)
LEMMA TableIsOwn ==
  ASSUME JobIsGiven, NEW t \in RawTables
  PROVE  target_table(t, job.table) \in OwnTables
<1>1. Len(job.etl) \in Nat
  BY JobsAssumption DEF JobIsGiven
<1>2. target_table(t, job.table) \in {job.table, t}
  BY DEF target_table
<1>3. t = NoTable => target_table(t, job.table) = job.table
  BY DEF target_table
<1>4. t = NoTable \/ t = job.table \/ (Splits /\ t = LastStep.detail_table)
  BY <1>1 DEF RawTables, TablesOf, Splits
<1>5. QED BY <1>2, <1>3, <1>4 DEF OwnTables

LEMMA PutOutIsOutputs ==
  ASSUME JobIsGiven, NEW i, IsOk(Outputs(i))
  PROVE  /\ OutputsFor(PutOut(i), OwnTables)
         /\ Len(PutOut(i)) = Len(Outputs(i).ok) /\ Len(Outputs(i).ok) \in Nat
         /\ \A k \in 1..Len(Outputs(i).ok) :
               /\ PutOut(i)[k].table = target_table(Outputs(i).ok[k].table, job.table)
               /\ PutOut(i)[k].row = Outputs(i).ok[k].row
<1> DEFINE rows == Outputs(i).ok
           N == Len(rows)
           Table(k) == target_table(rows[k].table, job.table)
<1>1. OutputsFor(rows, RawTables)
  BY OutputsAreOutputs
<1>2. N \in Nat /\ DOMAIN rows = 1..N
  BY <1>1, SeqLen DEF OutputsFor
<1>3. PutOut(i) = [k \in 1..N |-> [rows[k] EXCEPT !.table = target_table(@, job.table)]]
  BY <1>2 DEF PutOut
<1>4. ASSUME NEW k \in 1..N
      PROVE  /\ [rows[k] EXCEPT !.table = target_table(@, job.table)] = Output(Table(k), rows[k].row)
             /\ Table(k) \in OwnTables
  <2>1. rows[k] = [table |-> rows[k].table, row |-> rows[k].row] /\ rows[k].table \in RawTables
    BY <1>1 DEF OutputsFor, Output
  <2>2. Table(k) \in OwnTables
    BY <2>1, TableIsOwn
  <2> HIDE DEF rows
  <2>3. [rows[k] EXCEPT !.table = target_table(@, job.table)] = [table |-> Table(k), row |-> rows[k].row]
    BY <2>1
  <2>4. QED BY <2>2, <2>3 DEF Output
<1> HIDE DEF rows, N
<1>5. PutOut(i) = [k \in 1..N |-> PutOut(i)[k]] /\ \A k \in 1..N : PutOut(i)[k] = Output(Table(k), rows[k].row)
  BY <1>3, <1>4
<1>6. \A k \in 1..N : PutOut(i)[k].table = Table(k) /\ PutOut(i)[k].row = rows[k].row
  BY <1>5 DEF Output
<1>7. IsSeq(PutOut(i)) /\ Len(PutOut(i)) = N
  BY <1>2, <1>5, ListIsSeq
<1>8. OutputsFor(PutOut(i), OwnTables)
  BY <1>4, <1>5, <1>6, <1>7 DEF OutputsFor
<1>9. QED BY <1>2, <1>6, <1>7, <1>8 DEF rows, N

LEMMA PutOutIsGrouped ==
  ASSUME JobIsGiven, NEW i, IsOk(Outputs(i)), Splits, LastStep.detail_table # job.table
  PROVE  Grouped(PutOut(i), LastStep, job.details, job.table)
<1> DEFINE rows == Outputs(i).ok
           all == PutOut(i)
           detail == LastStep.detail_table
<1>1. /\ Len(job.etl) \in Nat /\ Len(job.details) \in Nat /\ Len(job.etl) # 0
      /\ LastStep.limit \in Nat /\ detail # NoTable /\ LastStep.name = "order_split"
  <2>1. Len(job.etl) \in Nat /\ Len(job.details) \in Nat
    BY JobsAssumption DEF JobIsGiven
  <2>2. Len(job.etl) \in 1..Len(job.etl) /\ Len(job.etl) # 0
    BY <2>1 DEF Splits
  <2>3. \A k \in 1..Len(job.etl) : job.etl[k].name = "order_split" => job.etl[k].limit \in Nat /\ job.etl[k].detail_table # NoTable
    BY JobsAssumption DEF JobIsGiven
  <2>4. QED BY <2>1, <2>2, <2>3 DEF Splits, LastStep
<1>2. Grouped(rows, LastStep, job.details, NoTable)
  <2>1. MadeBy(rows, LastStep, Details)
    BY <1>1, OutputsAreMade DEF LastStep
  <2>2. IsOk(Details) => Details.ok = job.details
    BY OkIsOk DEF Details
  <2> HIDE DEF rows
  <2>3. QED BY <1>1, <2>1, <2>2, MadeIsGrouped
<1>3. OutputsFor(rows, {NoTable, detail})
  <2>1. RawTables = {NoTable, detail}
    BY <1>1 DEF RawTables, TablesOf
  <2>2. QED BY <2>1, OutputsAreOutputs
<1>4. /\ IsSeq(all) /\ Len(all) = Len(rows) /\ Len(rows) \in Nat
      /\ OutputsFor(all, OwnTables)
      /\ \A k \in 1..Len(rows) : all[k].table = target_table(rows[k].table, job.table) /\ all[k].row = rows[k].row
  BY PutOutIsOutputs DEF OutputsFor
<1> HIDE DEF rows, all
<1>5. ASSUME NEW k \in 1..Len(rows)
      PROVE  /\ all[k].table = job.table <=> rows[k].table = NoTable
             /\ rows[k].table = detail => all[k] = rows[k]
  <2>1. rows[k].table \in {NoTable, detail} /\ rows[k] = Output(rows[k].table, rows[k].row)
    BY <1>3 DEF OutputsFor
  <2>2. all[k] = Output(all[k].table, rows[k].row) /\ all[k].table = target_table(rows[k].table, job.table)
    BY <1>4 DEF OutputsFor
  <2>3. target_table(NoTable, job.table) = job.table
    BY DEF target_table
  <2>4. target_table(detail, job.table) = detail
    BY <1>1 DEF target_table
  <2>5. QED BY <1>1, <2>1, <2>2, <2>3, <2>4
<1>6. ASSUME NEW n \in 1..Len(all), all[n].table = job.table, KeepsKey(LastStep)
      PROVE  IsFollowed(all, n, MatchesOf(all[n].row, LastStep, job.details), LastStep, job.details, job.table)
  <2> DEFINE M == MatchesOf(all[n].row, LastStep, job.details)
             e == EndOf(n, M, LastStep)
  <2>1. IsFollowed(rows, n, M, LastStep, job.details, NoTable)
    <3>1. rows[n].table = NoTable /\ all[n].row = rows[n].row /\ n \in 1..Len(rows)
      BY <1>4, <1>5, <1>6
    <3>2. QED BY <1>2, <1>6, <3>1 DEF Grouped
  <2>2. e \in Nat /\ e >= n + 1
    BY <1>1, <1>6, MatchesCounted
  <2> HIDE DEF M
  <2>3. ASSUME NEW m \in M, UpTo(M, m) <= LastStep.limit
        PROVE  /\ n + UpTo(M, m) \in 1..Len(all)
               /\ all[n + UpTo(M, m)] = Output(detail, Detail(LastStep, job.details[m]))
    <3>1. /\ n + UpTo(M, m) \in 1..Len(rows)
          /\ rows[n + UpTo(M, m)] = Output(detail, Detail(LastStep, job.details[m]))
      BY <2>1, <2>3 DEF IsFollowed
    <3>2. rows[n + UpTo(M, m)].table = detail
      BY <3>1 DEF Output
    <3>3. QED BY <1>4, <1>5, <3>1, <3>2
  <2> HIDE DEF e
  <2>4. e <= Len(all) + 1
    BY <1>4, <2>1 DEF IsFollowed, e
  <2>5. e <= Len(all) => all[e].table = job.table
    <3>1. SUFFICES ASSUME e <= Len(all) PROVE all[e].table = job.table
      OBVIOUS
    <3>2. e \in 1..Len(rows)
      BY <1>4, <2>2, <3>1
    <3>3. rows[e].table = NoTable
      BY <1>4, <2>1, <3>1 DEF IsFollowed, e
    <3>4. QED BY <1>5, <3>2, <3>3
  <2>6. QED BY <2>3, <2>4, <2>5 DEF IsFollowed, M, e
<1>7. Len(all) # 0 => all[1].table = job.table
  <2>1. SUFFICES ASSUME Len(all) # 0 PROVE all[1].table = job.table
    OBVIOUS
  <2>2. 1 \in 1..Len(rows) /\ Len(rows) # 0
    BY <1>4, <2>1
  <2>3. rows[1].table = NoTable
    BY <1>2, <2>2 DEF Grouped
  <2>4. QED BY <1>5, <2>2, <2>3
<1>8. Grouped(all, LastStep, job.details, job.table)
  BY <1>4, <1>6, <1>7 DEF Grouped
<1>9. QED BY <1>8 DEF all

-----------------------------------------------------------------------------
(* What this process has put out for the table of the job is in the table, *)
(* in the batch, in the bucket or still in the outputs of the last row.    *)

Pushed == Len(sent) - Len(out)
BatchOf == IF batch.table = job.table THEN batch.rows ELSE <<>>
BucketOf == IF job.table \in DOMAIN buckets THEN buckets[job.table] ELSE <<>>
IsSending ==
    /\ IsSeq(sent) /\ IsSeq(out) /\ Len(out) <= Len(sent)
    /\ \A i \in 1..Len(out) : out[i] = sent[Pushed + i]
    /\ step # "rows" => out = <<>>
    /\ step = "idle" => batch = NoBatch /\ buckets = <<>>
    /\ ~up => sent = <<>>
    /\ batch = NoBatch \/ batch.rows # <<>>
    /\ batch = NoBatch => attempt = 0
    /\ step = "idle" => truncated = {}
    /\ up => DOMAIN began = DOMAIN target /\ \A t \in DOMAIN began : IsTable(began[t])
Taught(table) == table.key # {} /\ ByKey(job.target, table, job.mode, job.pk)

\* The table holds the rows w, and after failed attempts perhaps those of the
\* batch, too.
Holds(w) ==
    LET table == target[job.table]
        old == ToSet(began[job.table].rows)
    IN  TableHolds(job.target, table, w, old) \/ (attempt > 0 /\ TableHolds(job.target, table, w \o BatchOf, old))
HoldsRows(w) == up /\ job.table \in DOMAIN target /\ Taught(target[job.table]) => Holds(w)

\* A full job has emptied its table before its first row.
Replaces(w) ==
    up /\ job.mode = "full" /\ job.table \in DOMAIN target =>
        /\ w # <<>> \/ job.table \in truncated => began[job.table].rows = <<>>
        /\ step # "idle" /\ job.table \notin truncated => w = <<>> /\ (batch.table = job.table => attempt = 0)
Delivered(w) ==
    /\ IsSeq(w) /\ Picks(sent, Pushed, job.table, w \o (BatchOf \o BucketOf))
    /\ HoldsRows(w) /\ Replaces(w)
NewestInv == ~erred => IsSending /\ \E w : Delivered(w)

(* A step that leaves what is on its way alone. *)
LEMMA RowsStay ==
  ASSUME IsSending, NEW w, Delivered(w), job' = job, sent' = sent, out' = out, batch' = batch, buckets' = buckets,
         target' = target, began' = began, up' = up, attempt' = attempt,
         truncated' = IF step' = "idle" THEN {} ELSE truncated, step' # "idle" => step # "idle" \/ job.mode # "full",
         step' # "rows" => out = <<>>, step' = "idle" => batch = NoBatch /\ buckets = <<>>
  PROVE  IsSending' /\ Delivered(w)'
<1>1. Pushed' = Pushed /\ BatchOf' = BatchOf /\ BucketOf' = BucketOf
  BY DEF Pushed, BatchOf, BucketOf
<1>2. IsSending'
  BY <1>1 DEF IsSending
<1>3. HoldsRows(w)'
  BY <1>1 DEF HoldsRows, Holds, Delivered, Taught
<1>4. Replaces(w)'
  BY DEF Replaces, Delivered
<1>5. QED BY <1>1, <1>2, <1>3, <1>4 DEF Delivered

(* The outputs of a row are put out and none is pushed yet. *)
LEMMA EtlDelivers ==
  ASSUME JobIsGiven, IsSending, NEW w, Delivered(w), RunEtl, ~erred'
  PROVE  IsSending' /\ Delivered(w)'
<1>0. /\ job' = job /\ up' = up /\ target' = target /\ began' = began /\ up /\ step = "rows"
      /\ out = <<>> /\ batch = NoBatch
  BY DEF RunEtl, sourceVars
<1>1. CASE todo = <<>>
  <2>1. /\ step' = "reading" /\ out' = out /\ batch' = batch /\ buckets' = buckets /\ sent' = sent
        /\ truncated' = truncated /\ attempt' = attempt
    BY <1>1 DEF RunEtl, writerVars
  <2>2. QED BY <1>0, <2>1, RowsStay
<1>2. CASE todo # <<>>
  <2> DEFINE rows == Outputs(todo[1]).ok
  <2>1. /\ IsOk(Outputs(todo[1])) /\ step' = step /\ batch' = batch /\ buckets' = buckets
        /\ out' = [k \in DOMAIN rows |-> [rows[k] EXCEPT !.table = target_table(@, job.table)]]
        /\ sent' = sent \o out' /\ truncated' = truncated /\ attempt' = attempt
    BY <1>2 DEF RunEtl, ReturnErr, writerVars
  <2>2. IsSeq(rows)
    BY <2>1, OutputsAreSeq
  <2> HIDE DEF rows
  <2>3. IsSeq(out')
    <3>1. DOMAIN rows = 1..Len(rows) /\ Len(rows) \in Nat
      BY <2>2, SeqLen
    <3>2. out' = [k \in 1..Len(rows) |-> out'[k]]
      BY <2>1, <3>1
    <3>3. QED BY <3>1, <3>2, ListIsSeq
  <2>4. IsSeq(sent) /\ Len(sent) \in Nat /\ Len(out') \in Nat /\ Len(out) = 0 /\ Pushed = Len(sent)
    BY <1>0, <2>3, SeqLen DEF IsSending, Pushed
  <2>5. /\ IsSeq(sent') /\ Len(sent') = Len(sent) + Len(out')
        /\ \A i \in 1..Len(sent) : sent'[i] = sent[i]
        /\ \A i \in 1..Len(out') : sent'[Len(sent) + i] = out'[i]
    <3> DEFINE more == out'
    <3> HIDE DEF more
    <3>1. PICK S, T : sent \in Seq(S) /\ more \in Seq(T)
      BY <2>3, <2>4 DEF IsSeq, more
    <3>2. sent \in Seq(S \cup T) /\ more \in Seq(S \cup T)
      BY <3>1
    <3> DEFINE all == sent \o more
    <3>3. /\ all \in Seq(S \cup T) /\ Len(all) = Len(sent) + Len(more)
          /\ \A i \in 1..(Len(sent) + Len(more)) : all[i] = IF i <= Len(sent) THEN sent[i] ELSE more[i - Len(sent)]
      BY <3>2, ConcatProperties
    <3> HIDE DEF all
    <3>4. ASSUME NEW i \in 1..Len(more) PROVE all[Len(sent) + i] = more[i]
      <4>1. Len(sent) + i \in 1..(Len(sent) + Len(more)) /\ ~(Len(sent) + i <= Len(sent)) /\ (Len(sent) + i) - Len(sent) = i
        BY <2>4 DEF more
      <4>2. QED BY <3>3, <4>1
    <3>5. ASSUME NEW i \in 1..Len(sent) PROVE all[i] = sent[i]
      <4>1. i \in 1..(Len(sent) + Len(more)) /\ i <= Len(sent)
        BY <2>4 DEF more
      <4>2. QED BY <3>3, <4>1
    <3>6. sent' = all
      BY <2>1 DEF all, more
    <3>7. QED BY <3>3, <3>4, <3>5, <3>6 DEF more, IsSeq
  <2>6. Pushed' = Len(sent) /\ Len(out') <= Len(sent')
    BY <2>4, <2>5 DEF Pushed
  <2>7. BatchOf' = BatchOf /\ BucketOf' = BucketOf
    BY <1>0, <2>1 DEF BatchOf, BucketOf
  <2>8. IsSending'
    <3>1. \A i \in 1..Len(out') : out'[i] = sent'[Pushed' + i]
      BY <2>5, <2>6
    <3>2. QED BY <1>0, <2>1, <2>3, <2>5, <2>6, <3>1 DEF IsSending
  <2>9. Picks(sent', Pushed', job'.table, w \o (BatchOf' \o BucketOf'))
    <3> DEFINE all == w \o (BatchOf \o BucketOf)
    <3>1. Picks(sent, Len(sent), job.table, all)
      BY <2>4 DEF Delivered
    <3>2. \A i \in 1..Len(sent) : sent'[i] = sent[i]
      BY <2>5
    <3> HIDE DEF all
    <3>3. Picks(sent', Len(sent), job.table, all)
      BY <3>1, <3>2, PicksStay
    <3>4. QED BY <1>0, <2>6, <2>7, <3>3 DEF all
  <2>10. HoldsRows(w)' /\ Replaces(w)'
    <3>1. HoldsRows(w)'
      BY <1>0, <2>1, <2>7 DEF HoldsRows, Holds, Delivered, Taught
    <3>2. Replaces(w)'
      BY <1>0, <2>1 DEF Replaces, Delivered
    <3>3. QED BY <3>1, <3>2
  <2>11. QED BY <2>8, <2>9, <2>10 DEF Delivered
<1>3. QED BY <1>1, <1>2

(* A row moves from the outputs to its bucket; a full bucket to the        *)
(* batch.                                                                  *)
LEMMA PushDelivers ==
  ASSUME Bucketed, IsSending, NEW w, Delivered(w), PushRow
  PROVE  IsSending' /\ Delivered(w)'
<1> DEFINE t == Head(out).table
           row == Head(out).row
           old == IF t \in DOMAIN buckets THEN buckets[t] ELSE <<>>
           bucket == Append(old, row)
           full == Len(bucket) >= job.threshold
           n == Pushed
<1>0. /\ job' = job /\ up' = up /\ target' = target /\ began' = began /\ sent' = sent /\ step' = step
      /\ up /\ step = "rows" /\ out # <<>> /\ batch = NoBatch /\ out' = Tail(out)
      /\ buckets' = IF full THEN Without(buckets, t) ELSE With(buckets, t, bucket)
      /\ batch' = IF full THEN [table |-> t, rows |-> bucket] ELSE NoBatch
      /\ truncated' = truncated /\ attempt' = attempt
  BY DEF PushRow, PushUpTo, sourceVars, historyVars, writerVars
<1>1. IsSeq(<<>>)
  BY SingleIsSeq
<1>2. IsSeq(old) /\ IsSeq(BucketOf)
  <2>1. \A k \in DOMAIN buckets : IsSeq(buckets[k])
    BY DEF Bucketed, BucketFits, IsSeq
  <2> HIDE DEF t
  <2>2. QED BY <1>1, <2>1 DEF BucketOf
<1>3. IsSeq(bucket) /\ bucket # <<>> /\ bucket = old \o <<row>> /\ IsSeq(<<row>>)
  <2> HIDE DEF old, row
  <2>1. QED BY <1>2, SeqGrows
<1>4. /\ Len(sent) \in Nat /\ Len(out) \in Nat \ {0} /\ Len(out) <= Len(sent) /\ n \in Nat
      /\ IsSeq(out') /\ Len(out') = Len(out) - 1 /\ Pushed' = n + 1
      /\ \A i \in 1..Len(out') : out'[i] = out[i + 1]
      /\ Head(out) = out[1]
  <2>1. PICK S : out \in Seq(S)
    BY DEF IsSending, IsSeq
  <2>2. /\ Tail(out) \in Seq(S) /\ Len(Tail(out)) = Len(out) - 1
        /\ \A i \in 1..Len(Tail(out)) : Tail(out)[i] = out[i + 1]
    BY <1>0, <2>1, HeadTailProperties
  <2>3. Len(sent) \in Nat /\ Len(out) \in Nat \ {0} /\ Len(out) <= Len(sent)
    BY <1>0, SeqLen DEF IsSending
  <2>4. Head(out) = out[1]
    BY <2>1
  <2>5. n \in Nat /\ Pushed' = n + 1
    BY <1>0, <2>2, <2>3 DEF Pushed
  <2>6. IsSeq(out')
    BY <1>0, <2>2 DEF IsSeq
  <2>7. QED BY <1>0, <2>2, <2>3, <2>4, <2>5, <2>6
<1>5. sent[n + 1] = Head(out)
  <2>1. 1 \in 1..Len(out)
    BY <1>4
  <2>2. QED BY <1>4, <2>1 DEF IsSending
<1>6. IsSending'
  <2>1. \A i \in 1..Len(out') : out'[i] = sent'[Pushed' + i]
    <3> SUFFICES ASSUME NEW i \in 1..Len(out') PROVE out'[i] = sent[(n + 1) + i]
      BY <1>0, <1>4
    <3>1. i \in 1..(Len(out) - 1) /\ out'[i] = out[i + 1] /\ Len(out) \in Nat /\ n \in Nat
      BY <1>4
    <3> HIDE DEF n, t, row, old, bucket, full
    <3>2. i + 1 \in 1..Len(out)
      BY <3>1
    <3>3. n + (i + 1) = (n + 1) + i
      BY <3>1
    <3>4. out[i + 1] = sent[n + (i + 1)]
      BY <3>2 DEF IsSending, n
    <3>5. QED BY <3>1, <3>3, <3>4
  <2>2. Len(out') <= Len(sent')
    BY <1>0, <1>4
  <2>3. batch' = NoBatch \/ batch'.rows # <<>>
    BY <1>0, <1>3
  <2>4. batch = NoBatch => attempt = 0
    BY DEF IsSending
  <2> HIDE DEF t, row, old, bucket
  <2>5. QED BY <1>0, <1>4, <2>1, <2>2, <2>3, <2>4 DEF IsSending
<1>7. BatchOf = <<>>
  BY <1>0 DEF BatchOf, NoBatch
<1>8. IsSeq(w) /\ Picks(sent, n, job.table, w \o BucketOf) /\ HoldsRows(w) /\ Replaces(w) /\ attempt = 0
  <2>1. BatchOf \o BucketOf = BucketOf
    BY <1>1, <1>2, <1>7, SeqsJoin
  <2>2. QED BY <1>0, <2>1 DEF Delivered, IsSending
<1>9. NoBatch.rows = <<>>
  BY DEF NoBatch
<1>10. IF t = job.table THEN BatchOf' \o BucketOf' = BucketOf \o <<row>> ELSE BatchOf' \o BucketOf' = BucketOf
  <2>1. /\ bucket \o <<>> = bucket /\ <<>> \o bucket = bucket /\ <<>> \o BucketOf = BucketOf
    <3> HIDE DEF bucket
    <3>1. QED BY <1>1, <1>2, <1>3, SeqsJoin
  <2> HIDE DEF row, bucket, full
  <2>2. CASE full
    <3>1. /\ BatchOf' = IF t = job.table THEN bucket ELSE <<>>
          /\ BucketOf' = IF t = job.table THEN <<>> ELSE BucketOf
      BY <1>0, <2>2 DEF BatchOf, BucketOf, Without
    <3>2. t = job.table => bucket = BucketOf \o <<row>>
      BY <1>3 DEF BucketOf
    <3> HIDE DEF t, old
    <3>3. QED BY <2>1, <3>1, <3>2
  <2>3. CASE ~full
    <3>1. /\ BatchOf' = <<>>
          /\ BucketOf' = IF t = job.table THEN bucket ELSE BucketOf
      BY <1>0, <1>9, <2>3 DEF BatchOf, BucketOf, With
    <3>2. t = job.table => bucket = BucketOf \o <<row>>
      BY <1>3 DEF BucketOf
    <3> HIDE DEF t, old
    <3>3. QED BY <2>1, <3>1, <3>2
  <2>4. QED BY <2>2, <2>3
<1>11. IsSeq(w \o BucketOf) /\ (w \o BucketOf) \o <<row>> = w \o (BucketOf \o <<row>>)
  <2> HIDE DEF row
  <2>1. QED BY <1>2, <1>3, <1>8, SeqsJoin
<1> DEFINE pending == w \o BucketOf
           then == w \o (BatchOf' \o BucketOf')
<1>12. Picks(sent, n + 1, job.table, then)
  <2>1. IF sent[n + 1].table = job.table THEN then = Append(pending, sent[n + 1].row) ELSE then = pending
    <3>1. Append(pending, row) = pending \o <<row>>
      <4> HIDE DEF pending, row
      <4>1. IsSeq(pending)
        BY <1>11 DEF pending
      <4>2. QED BY <4>1, SeqGrows
    <3>2. CASE t = job.table
      <4>1. then = Append(pending, row)
        BY <1>10, <1>11, <3>1, <3>2
      <4> HIDE DEF then, pending
      <4>2. QED BY <1>5, <3>2, <4>1
    <3>3. CASE t # job.table
      <4>1. then = pending
        BY <1>10, <3>3
      <4> HIDE DEF then, pending
      <4>2. QED BY <1>5, <3>3, <4>1
    <3>4. QED BY <3>2, <3>3
  <2>2. PICK S : pending \in Seq(S)
    BY <1>11 DEF IsSeq
  <2>3. Picks(sent, n, job.table, pending) /\ n \in Nat
    BY <1>4, <1>8
  <2> HIDE DEF n, pending, then
  <2>4. QED BY <2>1, <2>2, <2>3, PicksGoOn
<1>13. HoldsRows(w)'
  BY <1>0, <1>8 DEF HoldsRows, Holds, Taught
<1>14. Replaces(w)'
  BY <1>0, <1>8 DEF Replaces
<1>15. QED BY <1>0, <1>4, <1>6, <1>8, <1>12, <1>13, <1>14 DEF Delivered

(* The rest of a bucket becomes the batch. *)
LEMMA DrainDelivers ==
  ASSUME Bucketed, JobIsGiven, IsSending, NEW w, Delivered(w), Drain
  PROVE  IsSending' /\ Delivered(w)'
<1>1. PICK t \in DOMAIN buckets : batch' = [table |-> t, rows |-> buckets[t]] /\ buckets' = Without(buckets, t)
  BY DEF Drain
<1>2. /\ job' = job /\ up' = up /\ target' = target /\ began' = began /\ sent' = sent /\ out' = out
      /\ step' = step /\ step = "draining" /\ batch = NoBatch
      /\ truncated' = truncated /\ attempt' = attempt /\ attempt = 0
  BY DEF Drain, sourceVars, historyVars, writerVars, IsSending
<1>3. IsSeq(<<>>) /\ IsSeq(buckets[t]) /\ buckets[t] # <<>> /\ IsSeq(BucketOf)
  <2>1. \A k \in DOMAIN buckets : IsSeq(buckets[k]) /\ Len(buckets[k]) # 0
    <3>1. \A k \in DOMAIN buckets : IsSeq(buckets[k])
      BY DEF Bucketed, BucketFits, IsSeq
    <3>2. job.threshold \in Nat
      BY JobFacts
    <3>3. \A k \in DOMAIN buckets : Len(buckets[k]) \in 1..(job.threshold - 1)
      BY DEF Bucketed, BucketFits
    <3>4. QED BY <3>1, <3>2, <3>3
  <2>2. QED BY <2>1, SingleIsSeq, SeqLen DEF BucketOf
<1>4. BatchOf' \o BucketOf' = BatchOf \o BucketOf
  <2>1. BatchOf = <<>>
    BY <1>2 DEF BatchOf, NoBatch
  <2>2. CASE t = job.table
    <3>1. BatchOf' = BucketOf /\ BucketOf' = <<>>
      BY <1>1, <1>2, <2>2 DEF BatchOf, BucketOf, Without
    <3>2. QED BY <1>3, <2>1, <3>1, SeqsJoin
  <2>3. CASE t # job.table
    <3>1. BatchOf' = <<>> /\ BucketOf' = BucketOf
      BY <1>1, <1>2, <2>3 DEF BatchOf, BucketOf, Without
    <3>2. QED BY <2>1, <3>1
  <2>4. QED BY <2>2, <2>3
<1>5. Pushed' = Pushed
  BY <1>2 DEF Pushed
<1>6. IsSending'
  <2>1. batch'.rows # <<>>
    BY <1>1, <1>3
  <2>2. QED BY <1>2, <1>5, <2>1 DEF IsSending
<1>7. HoldsRows(w)'
  BY <1>2 DEF HoldsRows, Holds, Delivered, Taught
<1>8. Replaces(w)'
  BY <1>2 DEF Replaces, Delivered
<1>9. QED BY <1>2, <1>4, <1>5, <1>6, <1>7, <1>8 DEF Delivered

(* The rows of a batch for the table of the job that goes in are there,    *)
(* whether an attempt before has left them there or not.                   *)
LEMMA BatchIsThere ==
  ASSUME JobIsGiven, TablesHold, IsSeq(batch.rows), batch.rows # <<>>, batch.table = job.table,
         job.table \in DOMAIN target, up, Taught(target[job.table]), NEW w, IsSeq(w), HoldsRows(w),
         NEW result, result = Inserted(job.target, target[job.table]), result.ok
  PROVE  TableHolds(job.target, result.table, w \o batch.rows, ToSet(began[job.table].rows))
<1> DEFINE table == target[job.table]
           old == ToSet(began[job.table].rows)
<1>1. result = InsertBatch(job.target, table, Normalise(batch.rows), job.mode, job.pk)
  BY DEF Inserted, BatchInsert, pk_for
<1>2. IsTable(table) /\ job.target \in {"mysql", "postgresql", "oracle"}
  <2>1. job.target \in {"mysql", "postgresql", "oracle"}
    BY JobsAssumption DEF JobIsGiven
  <2>2. QED BY <2>1 DEF TablesHold
<1>3. PICK S : batch.rows \in Seq(S) /\ w \in Seq(S)
  <2>1. PICK A, B : batch.rows \in Seq(A) /\ w \in Seq(B)
    BY DEF IsSeq
  <2>2. batch.rows \in Seq(A \cup B) /\ w \in Seq(A \cup B)
    BY <2>1
  <2>3. QED BY <2>2
<1>4. table.key # {} /\ ByKey(job.target, table, job.mode, job.pk)
  BY DEF Taught
<1>5. TableHolds(job.target, table, w, old) \/ TableHolds(job.target, table, w \o batch.rows, old)
  BY DEF HoldsRows, Holds, BatchOf
<1> HIDE DEF table, old
<1>6. CASE TableHolds(job.target, table, w, old)
  <2>1. TableHolds(job.target, result.table, w \o batch.rows, old)
    BY <1>1, <1>2, <1>3, <1>4, <1>6, BatchHasNewest
  <2>2. QED BY <2>1 DEF old
<1>7. CASE TableHolds(job.target, table, w \o batch.rows, old)
  <2>1. TableHolds(job.target, result.table, w \o batch.rows, old)
    BY <1>1, <1>2, <1>3, <1>4, <1>7, BatchTwiceHasNewest
  <2>2. QED BY <2>1 DEF old
<1>8. QED BY <1>5, <1>6, <1>7

(* What an attempt for another table or one without effect leaves. *)
LEMMA OthersStay ==
  ASSUME NEW w, HoldsRows(w), job' = job, up' = up, began' = began, NEW x,
         target' = target \/ (batch.table # job.table /\ target' = [target EXCEPT ![batch.table] = x]),
         attempt > 0 => attempt' > 0, BatchOf' = BatchOf \/ attempt = 0 \/ (IsSeq(w) /\ BatchOf = <<>>)
  PROVE  HoldsRows(w)'
<1>1. /\ job.table \in DOMAIN target' <=> job.table \in DOMAIN target
      /\ job.table \in DOMAIN target => target'[job.table] = target[job.table]
  <2>1. CASE target' = target
    BY <2>1
  <2>2. CASE batch.table # job.table /\ target' = [target EXCEPT ![batch.table] = x]
    <3>1. DOMAIN target' = DOMAIN target /\ \A k \in DOMAIN target : k # batch.table => target'[k] = target[k]
      BY <2>2
    <3>2. QED BY <2>2, <3>1
  <2>3. QED BY <2>1, <2>2
<1>2. SUFFICES ASSUME up, job.table \in DOMAIN target, Taught(target[job.table])
               PROVE  Holds(w)'
  BY <1>1 DEF HoldsRows, Taught
<1>3. Holds(w)
  BY <1>2 DEF HoldsRows
<1>4. IsSeq(w) /\ BatchOf = <<>> => w \o BatchOf = w
  BY SingleIsSeq, SeqsJoin
<1>5. ~(attempt > 0 /\ attempt = 0)
  OBVIOUS
<1>6. QED BY <1>1, <1>2, <1>3, <1>4, <1>5 DEF Holds

(* A batch that went in, at whichever attempt, is in its table; one that   *)
(* is tried again may be there.                                            *)
LEMMA WriteDelivers ==
  ASSUME JobIsGiven, TablesHold, Bucketed, WriterTyped, IsSending, NEW w, Delivered(w), WriteBatch, ~erred'
  PROVE  IsSending' /\ \E v : Delivered(v)'
<1> DEFINE T == job.table
           result == Inserted(job.target, target[batch.table])
           written == [target EXCEPT ![batch.table] = result.table]
<1>1. /\ job' = job /\ up' = up /\ began' = began /\ sent' = sent /\ batch # NoBatch /\ up
      /\ step' = step /\ out' = out /\ buckets' = buckets /\ truncated' = truncated
      /\ batch.table \in DOMAIN target /\ result.ok
      /\ job.mode = "full" => batch.table \in truncated
      /\ \/ target' = written /\ batch' = NoBatch /\ attempt' = 0
         \/ target' \in {target, written} /\ batch' = batch /\ attempt' = attempt + 1
  <2>1. ~Failed(<<>>).ok
    BY DEF Failed
  <2>2. QED BY <2>1 DEF WriteBatch, ReturnErr, sourceVars, historyVars
<1>2. attempt \in Nat
  BY JobFacts DEF WriterTyped
<1> HIDE DEF result
<1>3. Pushed' = Pushed /\ BucketOf' = BucketOf
  BY <1>1 DEF Pushed, BucketOf
<1>4. DOMAIN target' = DOMAIN target
  BY <1>1
<1>5. IsSending'
  BY <1>1, <1>3, <1>4 DEF IsSending
<1>6. IsSeq(batch.rows) /\ IsSeq(BucketOf) /\ IsSeq(w) /\ IsSeq(<<>>) /\ batch.rows # <<>> /\ HoldsRows(w) /\ Replaces(w)
  <2>1. IsSeq(batch.rows)
    BY DEF TablesHold, IsSeq
  <2>2. \A k \in DOMAIN buckets : IsSeq(buckets[k])
    BY DEF Bucketed, BucketFits, IsSeq
  <2>3. IsSeq(w) /\ batch.rows # <<>> /\ HoldsRows(w) /\ Replaces(w)
    BY <1>1 DEF Delivered, IsSending
  <2>4. QED BY <2>1, <2>2, <2>3, SingleIsSeq DEF BucketOf
<1>7. IsTable(target[batch.table]) => result.table.key = target[batch.table].key
  BY InsertedKeepsTable DEF result, StaysTable
<1>8. ASSUME batch.table = T, Taught(target[T])
      PROVE  TableHolds(job.target, result.table, w \o batch.rows, ToSet(began[T].rows))
  <2>1. result = Inserted(job.target, target[job.table])
    BY <1>8 DEF result
  <2>2. QED BY <1>1, <1>6, <1>8, <2>1, BatchIsThere
<1>9. batch.table = T => (Taught(written[T]) <=> Taught(target[T])) /\ written[T] = result.table
  <2>1. batch.table = T => written[T] = result.table
    BY <1>1
  <2>2. IsTable(target[batch.table])
    BY <1>1 DEF TablesHold
  <2>3. QED BY <1>7, <2>1, <2>2 DEF Taught, ByKey
<1> HIDE DEF written
<1>10. CASE target' = written /\ batch' = NoBatch /\ attempt' = 0
  <2>v. PICK v : v = IF batch.table = T THEN w \o batch.rows ELSE w
    OBVIOUS
  <2>1. IsSeq(v) /\ v \o (BatchOf' \o BucketOf') = w \o (BatchOf \o BucketOf)
    <3>1. BatchOf' = <<>> /\ <<>> \o BucketOf = BucketOf
      BY <1>6, <1>10, SeqsJoin DEF BatchOf, NoBatch
    <3>2. CASE batch.table = T
      <4>1. BatchOf = batch.rows /\ v = w \o batch.rows
        BY <2>v, <3>2 DEF BatchOf
      <4> DEFINE rows == batch.rows
                 bucket == BucketOf
      <4>2. IsSeq(w) /\ IsSeq(rows) /\ IsSeq(bucket)
        BY <1>6
      <4> HIDE DEF rows, bucket
      <4>3. IsSeq(w \o rows) /\ (w \o rows) \o bucket = w \o (rows \o bucket)
        BY <4>2, SeqsJoin
      <4>4. QED BY <1>3, <3>1, <4>1, <4>3 DEF rows, bucket
    <3>3. CASE batch.table # T
      <4>1. BatchOf = <<>> /\ v = w
        BY <2>v, <3>3 DEF BatchOf
      <4>2. QED BY <1>3, <1>6, <3>1, <4>1
    <3>4. QED BY <3>2, <3>3
  <2>2. Picks(sent', Pushed', job'.table, v \o (BatchOf' \o BucketOf'))
    <3>1. Picks(sent, Pushed, job.table, w \o (BatchOf \o BucketOf))
      BY DEF Delivered
    <3>2. QED BY <1>1, <1>3, <2>1, <3>1
  <2>3. HoldsRows(v)'
    <3>1. CASE batch.table # T
      <4>1. v = w
        BY <2>v, <3>1
      <4>3. /\ DOMAIN target' = DOMAIN target /\ (T \in DOMAIN target => target'[T] = target[T])
        BY <1>1, <1>10, <3>1 DEF written
      <4>4. BatchOf = <<>> /\ w \o <<>> = w
        BY <1>6, <3>1, SeqsJoin DEF BatchOf
      <4>5. SUFFICES ASSUME T \in DOMAIN target, Taught(target[T])
                     PROVE  TableHolds(job.target, target[T], w, ToSet(began[T].rows))
        BY <1>1, <4>1, <4>3 DEF HoldsRows, Holds, Taught
      <4>6. QED BY <1>1, <1>6, <4>4, <4>5 DEF HoldsRows, Holds
    <3>2. CASE batch.table = T
      <4>1. v = w \o batch.rows
        BY <2>v, <3>2
      <4>2. SUFFICES ASSUME Taught(target[T])
                     PROVE  TableHolds(job.target, result.table, w \o batch.rows, ToSet(began[T].rows))
        BY <1>1, <1>9, <1>10, <3>2, <4>1 DEF HoldsRows, Holds, Taught
      <4>3. QED BY <1>8, <3>2, <4>2
    <3>3. QED BY <3>1, <3>2
  <2>4. Replaces(v)'
    BY <1>1, <1>4, <1>6, <1>10, <2>v DEF Replaces
  <2>5. QED BY <1>5, <2>1, <2>2, <2>3, <2>4 DEF Delivered
<1>11. CASE target' \in {target, written} /\ batch' = batch /\ attempt' = attempt + 1
  <2>1. BatchOf' = BatchOf /\ attempt' > 0
    BY <1>1, <1>2, <1>11 DEF BatchOf
  <2>2. HoldsRows(w)'
    <3>1. CASE target' = target \/ batch.table # T
      BY <1>1, <1>6, <1>11, <2>1, <3>1, OthersStay DEF written
    <3>2. CASE target' = written /\ batch.table = T
      <4>1. BatchOf = batch.rows
        BY <3>2 DEF BatchOf
      <4>2. SUFFICES ASSUME Taught(target[T])
                     PROVE  TableHolds(job.target, result.table, w \o batch.rows, ToSet(began[T].rows))
        BY <1>1, <1>9, <2>1, <3>2, <4>1 DEF HoldsRows, Holds, Taught
      <4>3. QED BY <1>8, <3>2, <4>2
    <3>3. QED BY <1>11, <3>1, <3>2
  <2>3. Replaces(w)'
    BY <1>1, <1>4, <1>6, <1>11 DEF Replaces
  <2>4. Picks(sent', Pushed', job'.table, w \o (BatchOf' \o BucketOf'))
    BY <1>1, <1>3, <2>1 DEF Delivered
  <2>5. QED BY <1>5, <1>6, <2>2, <2>3, <2>4 DEF Delivered
<1>12. QED BY <1>1, <1>10, <1>11

(* A table is emptied before the first of its rows is written. *)
LEMMA TruncateDelivers ==
  ASSUME JobIsGiven, TablesHold, IsSending, NEW w, Delivered(w), Truncate, ~erred'
  PROVE  IsSending' /\ Delivered(w)'
<1> DEFINE T == job.table
<1>1. /\ job' = job /\ up' = up /\ sent' = sent /\ batch # NoBatch /\ up /\ job.mode = "full"
      /\ step' = step /\ out' = out /\ buckets' = buckets /\ batch' = batch /\ attempt' = attempt
      /\ batch.table \in DOMAIN target /\ batch.table \notin truncated
      /\ target' = [target EXCEPT ![batch.table].rows = <<>>]
      /\ began' = [began EXCEPT ![batch.table].rows = <<>>]
      /\ truncated' = truncated \cup {batch.table}
  BY DEF Truncate, ReturnErr, sourceVars
<1>2. step # "idle" /\ DOMAIN began = DOMAIN target /\ \A t \in DOMAIN began : IsTable(began[t])
  BY <1>1 DEF IsSending
<1>3. /\ DOMAIN target' = DOMAIN target /\ DOMAIN began' = DOMAIN began
      /\ \A t \in DOMAIN target : t # batch.table => target'[t] = target[t] /\ began'[t] = began[t]
      /\ target'[batch.table] = [target[batch.table] EXCEPT !.rows = <<>>]
      /\ began'[batch.table] = [began[batch.table] EXCEPT !.rows = <<>>]
  BY <1>1, <1>2
<1>4. target'[batch.table].rows = <<>> /\ began'[batch.table].rows = <<>> /\ IsTable(began'[batch.table])
  BY <1>1, <1>2, <1>3, EmptiedIsTable DEF TablesHold
<1>5. Pushed' = Pushed /\ BucketOf' = BucketOf /\ BatchOf' = BatchOf
  BY <1>1 DEF Pushed, BucketOf, BatchOf
<1>6. IsSending'
  <2>1. \A t \in DOMAIN began' : IsTable(began'[t])
    BY <1>1, <1>2, <1>3, <1>4
  <2>2. QED BY <1>1, <1>2, <1>3, <1>5, <2>1 DEF IsSending
<1>7. HoldsRows(w) /\ Replaces(w) /\ IsSeq(w)
  BY DEF Delivered
<1>8. Replaces(w)'
  BY <1>1, <1>2, <1>3, <1>4, <1>7 DEF Replaces
<1>9. HoldsRows(w)'
  <2>1. CASE batch.table # T
    <3>1. SUFFICES ASSUME T \in DOMAIN target, Taught(target[T]) PROVE Holds(w)'
      BY <1>1, <1>3, <2>1 DEF HoldsRows, Taught
    <3>2. target'[T] = target[T] /\ began'[T] = began[T]
      BY <1>3, <2>1, <3>1
    <3>3. Holds(w)
      BY <1>1, <1>7, <3>1 DEF HoldsRows
    <3>4. QED BY <1>1, <1>5, <3>2, <3>3 DEF Holds
  <2>2. CASE batch.table = T
    <3>1. w = <<>>
      BY <1>1, <1>2, <1>7, <2>2 DEF Replaces
    <3> DEFINE table == target'[T]
               old == ToSet(began'[T].rows)
    <3>2. \A p \in 1..Len(table.rows) : table.rows[p] \in old
      BY <1>4, <2>2
    <3> HIDE DEF table, old
    <3>3. TableHolds(job.target, table, <<>>, old)
      BY <3>2, FirstRowsAreThere
    <3>4. QED BY <1>1, <3>1, <3>3 DEF HoldsRows, Holds, table, old
  <2>3. QED BY <2>1, <2>2
<1>10. Picks(sent', Pushed', job'.table, w \o (BatchOf' \o BucketOf'))
  BY <1>1, <1>5 DEF Delivered
<1>11. QED BY <1>6, <1>7, <1>8, <1>9, <1>10 DEF Delivered

(* Nothing is on its way before the first pass, after a crash and when the *)
(* process is back.                                                        *)
NothingSent ==
    /\ sent = <<>> /\ out = <<>> /\ batch = NoBatch /\ buckets = <<>>
    /\ truncated = {} /\ attempt = 0
    /\ up => target = began

LEMMA NothingDelivered == TablesHold /\ NothingSent => IsSending /\ Delivered(<<>>)
<1>0. NoBatch.rows = <<>> /\ DOMAIN <<>> = {}
  BY DEF NoBatch
<1> SUFFICES ASSUME TablesHold, sent = <<>>, out = <<>>, batch = NoBatch, buckets = <<>>,
                    truncated = {}, attempt = 0, up => target = began
             PROVE  IsSending /\ Delivered(<<>>)
  BY DEF NothingSent
<1>1. IsSeq(<<>>) /\ Len(<<>>) = 0
  BY SingleIsSeq
<1>2. BatchOf = <<>> /\ BucketOf = <<>> /\ Pushed = 0
  BY <1>0 DEF BatchOf, BucketOf, Pushed
<1>3. IsSending
  BY <1>1 DEF IsSending, TablesHold
<1>4. Picks(sent, Pushed, job.table, <<>> \o (BatchOf \o BucketOf))
  <2>1. <<>> \o (<<>> \o <<>>) = <<>>
    OBVIOUS
  <2>2. QED BY <1>2, <2>1, NothingPicked
<1>5. HoldsRows(<<>>)
  <2> DEFINE table == target[job.table]
             old == ToSet(began[job.table].rows)
  <2>1. SUFFICES ASSUME job.table \in DOMAIN target, target = began
                 PROVE  TableHolds(job.target, table, <<>>, old)
    BY DEF HoldsRows, Holds
  <2>2. \A p \in 1..Len(table.rows) : table.rows[p] \in old
    <3>1. DOMAIN table.rows = 1..Len(table.rows)
      <4>1. IsTable(table)
        BY <2>1 DEF TablesHold
      <4> HIDE DEF table
      <4>2. QED BY <4>1 DEF IsTable
    <3>2. QED BY <2>1, <3>1 DEF ToSet
  <2> HIDE DEF table, old
  <2>3. QED BY <2>2, FirstRowsAreThere
<1>7. Replaces(<<>>)
  BY DEF Replaces
<1>8. QED BY <1>1, <1>3, <1>4, <1>5, <1>7 DEF Delivered

(* Every step keeps what is on its way to the table. *)
LEMMA NewestAfterStep ==
  ASSUME PathTyped, Counted, Bucketed, WriterTyped, TablesHold, NewestInv, [PathNext]_pathVars
  PROVE  NewestInv'
<1>0. JobIsGiven /\ TablesHold'
  BY TablesHoldAfterStep DEF PathTyped, JobIsGiven
<1>1. SUFFICES ASSUME ~erred' PROVE IsSending' /\ \E v : Delivered(v)'
  BY DEF NewestInv
<1>2. ~erred
  <2>1. erred' = TRUE \/ erred' = erred
    <3>1. faults \in Nat
      BY BoundsAssumption DEF Counted
    <3>2. CASE StartPass
      BY <3>1, <3>2, StartSteps
    <3>3. CASE NextPage
      BY <3>3, NextPageSteps
    <3>4. CASE QuietStep
      BY <3>1, <3>4, QuietSteps
    <3>5. CASE Save \/ SourceInsert \/ NeighbourSaves \/ Crash \/ Restart \/ UNCHANGED pathVars
      BY <3>5 DEF Save, SourceInsert, NeighbourSaves, Crash, Restart, pathVars
    <3>6. QED BY <3>2, <3>3, <3>4, <3>5 DEF PathNext, PathStep, QuietStep
  <2>2. QED BY <1>1, <2>1 DEF Counted
<1>3. PICK w : IsSending /\ Delivered(w)
  BY <1>2 DEF NewestInv
<1>4. ASSUME job' = job, sent' = sent, out' = out, batch' = batch, buckets' = buckets,
             target' = target, began' = began, up' = up, attempt' = attempt,
             truncated' = IF step' = "idle" THEN {} ELSE truncated, step' # "idle" => step # "idle" \/ job.mode # "full",
             step' # "rows" => out = <<>>, step' = "idle" => batch = NoBatch /\ buckets = <<>>
      PROVE  IsSending' /\ \E v : Delivered(v)'
  <2>1. IsSending' /\ Delivered(w)'
    BY <1>3, <1>4, RowsStay
  <2>2. QED BY <2>1
<1>5. CASE StartPass
  <2>1. /\ job' = job /\ up' = up /\ target' = target /\ step = "idle"
        /\ out' = out /\ batch' = batch /\ buckets' = buckets /\ step' \in {"reading", "gone"}
        /\ truncated' = truncated /\ attempt' = attempt
        /\ IF job.mode = "full" THEN sent' = <<>> /\ began' = target ELSE sent' = sent /\ began' = began
    BY <1>1, <1>5 DEF StartPass, ReturnErr, sourceVars, writerVars
  <2>2. out = <<>> /\ batch = NoBatch /\ buckets = <<>> /\ truncated = {} /\ attempt = 0
    BY <1>3, <2>1 DEF IsSending
  <2>3. CASE job.mode = "full"
    <3>1. NothingSent'
      BY <2>1, <2>2, <2>3 DEF NothingSent, NoBatch
    <3>2. IsSending' /\ Delivered(<<>>)'
      BY <1>0, <3>1, NothingDelivered, PTL
    <3>3. QED BY <3>2
  <2>4. CASE job.mode # "full"
    BY <1>4, <2>1, <2>2, <2>4
  <2>5. QED BY <2>3, <2>4
<1>6. CASE NextPage
  <2>1. /\ job' = job /\ up' = up /\ target' = target /\ sent' = sent /\ began' = began /\ step = "reading"
        /\ out' = out /\ batch' = batch /\ buckets' = buckets /\ step' \in {"draining", "rows"}
        /\ truncated' = truncated /\ attempt' = attempt
    BY <1>1, <1>6 DEF NextPage, ReturnErr, sourceVars, writerVars
  <2>2. out = <<>>
    BY <1>3, <2>1 DEF IsSending
  <2>3. QED BY <1>4, <2>1, <2>2
<1>7. CASE RunEtl
  <2>1. IsSending' /\ Delivered(w)'
    BY <1>0, <1>1, <1>3, <1>7, EtlDelivers
  <2>2. QED BY <2>1
<1>8. CASE PushRow
  <2>1. IsSending' /\ Delivered(w)'
    BY <1>3, <1>8, PushDelivers
  <2>2. QED BY <2>1
<1>9. CASE Drain
  <2>1. IsSending' /\ Delivered(w)'
    BY <1>0, <1>3, <1>9, DrainDelivers
  <2>2. QED BY <2>1
<1>10. CASE WriteBatch
  BY <1>0, <1>1, <1>3, <1>10, WriteDelivers
<1>11. CASE Save
  <2>1. /\ job' = job /\ up' = up /\ target' = target /\ sent' = sent /\ began' = began /\ step = "draining"
        /\ out' = out /\ batch' = batch /\ buckets' = buckets /\ batch = NoBatch /\ buckets = <<>>
        /\ step' = "idle" /\ truncated' = {} /\ attempt' = attempt
    BY <1>11 DEF Save, sourceVars
  <2>2. out = <<>>
    BY <1>3, <2>1 DEF IsSending
  <2>3. QED BY <1>4, <2>1, <2>2
<1>12. CASE SourceInsert \/ NeighbourSaves \/ UNCHANGED pathVars
  <2>1. /\ job' = job /\ up' = up /\ target' = target /\ sent' = sent /\ began' = began /\ step' = step
        /\ out' = out /\ batch' = batch /\ buckets' = buckets /\ truncated' = truncated /\ attempt' = attempt
    BY <1>12 DEF SourceInsert, NeighbourSaves, pathVars, sourceVars, passVars, historyVars, writerVars
  <2>2. QED BY <1>3, <1>4, <2>1 DEF IsSending
<1>13. CASE Crash
  <2>1. sent' = <<>> /\ out' = <<>> /\ batch' = NoBatch /\ buckets' = <<>> /\ up' = FALSE /\ truncated' = {} /\ attempt' = 0
    BY <1>13 DEF Crash
  <2>2. NothingSent'
    BY <2>1 DEF NothingSent, NoBatch
  <2>3. IsSending' /\ Delivered(<<>>)'
    BY <1>0, <2>2, NothingDelivered, PTL
  <2>4. QED BY <2>3
<1>14. CASE Restart
  <2>1. /\ sent' = sent /\ out' = out /\ batch' = batch /\ buckets' = buckets /\ target' = target /\ began' = target
        /\ ~up /\ step = "idle" /\ truncated' = truncated /\ attempt' = attempt
    BY <1>14 DEF Restart, passVars, writerVars, Counted
  <2>2. sent = <<>> /\ out = <<>> /\ batch = NoBatch /\ buckets = <<>> /\ truncated = {} /\ attempt = 0
    BY <1>3, <2>1 DEF IsSending
  <2>3. NothingSent'
    BY <2>1, <2>2 DEF NothingSent, NoBatch
  <2>4. IsSending' /\ Delivered(<<>>)'
    BY <1>0, <2>3, NothingDelivered, PTL
  <2>5. QED BY <2>4
<1>15. CASE Truncate
  <2>1. IsSending' /\ Delivered(w)'
    BY <1>0, <1>1, <1>3, <1>15, TruncateDelivers
  <2>2. QED BY <2>1
<1>16. QED BY <1>5, <1>6, <1>7, <1>8, <1>9, <1>10, <1>11, <1>12, <1>13, <1>14, <1>15 DEF PathNext, PathStep

(* At the end of a pass nothing is on its way any more: all rows put out   *)
(* are in the table, which has one row per key.                            *)
LEMMA AllAreDelivered ==
  ASSUME TablesHold, NewestInv
  PROVE  TargetHoldsNewest
<1> DEFINE T == job.table
           table == target[T]
           key == table.key
           mine == {n \in DOMAIN sent : sent[n].table = T}
           New(n) == AsInserted(job.target, table, sent[n].row)
           Newest == {n \in mine : \A m \in mine : SameKey(New(m), New(n), key) => m <= n}
           Before(n, c) == {New(m)[c] : m \in {m \in mine : m < n /\ SameKey(New(m), New(n), key)
                                                              /\ c \in DOMAIN sent[m].row}}
           AtFirst(n, c) == {row[c] : row \in {row \in ToSet(began[T].rows) : SameKey(row, New(n), key)}}
           There(n) == {p \in DOMAIN table.rows : SameKey(table.rows[p], New(n), key)}
           IsNewest(n) == \E p \in There(n) :
                              /\ There(n) = {p}
                              /\ \A c \in DOMAIN table.columns \ key :
                                    IF c \in DOMAIN sent[n].row THEN table.rows[p][c] = New(n)[c]
                                    ELSE table.rows[p][c] \in Before(n, c) \cup AtFirst(n, c) \cup {Null}
           IsReplaced == \A p \in DOMAIN table.rows : \E n \in mine : SameKey(table.rows[p], New(n), key)
<1>1. SUFFICES ASSUME Settled, T \in DOMAIN target, key # {}, ByKey(job.target, table, job.mode, job.pk)
               PROVE  (\A n \in Newest : IsNewest(n)) /\ (job.mode = "full" /\ mine # {} => IsReplaced)
  BY DEF TargetHoldsNewest, ByKey
<1>2. up /\ step = "idle" /\ ~erred
  BY <1>1 DEF Settled
<1>3. PICK w : IsSending /\ Delivered(w)
  BY <1>2 DEF NewestInv
<1> DEFINE L == Len(w)
           old == ToSet(began[T].rows)
           new == NewRows(job.target, table, w)
<1>4. Picks(sent, Len(sent), T, w) /\ IsSeq(w) /\ DOMAIN sent = 1..Len(sent) /\ L \in Nat
  <2>1. out = <<>> /\ batch = NoBatch /\ buckets = <<>>
    BY <1>2, <1>3 DEF IsSending
  <2>2. BatchOf = <<>> /\ BucketOf = <<>>
    <3>1. NoBatch.rows = <<>> /\ DOMAIN <<>> = {}
      BY DEF NoBatch
    <3>2. QED BY <2>1, <3>1 DEF BatchOf, BucketOf
  <2>3. IsSeq(sent) /\ IsSeq(w)
    BY <1>3 DEF IsSending, Delivered
  <2>4. Pushed = Len(sent)
    BY <2>1, <2>3, SeqLen DEF Pushed
  <2>5. w \o (<<>> \o <<>>) = w
    <3>1. <<>> \o <<>> = <<>>
      OBVIOUS
    <3>2. w \o <<>> = w
      BY <2>3, SingleIsSeq, SeqsJoin
    <3>3. QED BY <3>1, <3>2
  <2>6. QED BY <1>3, <2>2, <2>3, <2>4, <2>5, SeqLen DEF Delivered
<1>5. HasNewest(DOMAIN table.columns, key, table.rows, L, new, Having(w), old)
  <2>1. attempt = 0
    BY <1>2, <1>3 DEF IsSending
  <2>2. ~(attempt > 0)
    BY <2>1
  <2>3. QED BY <1>1, <1>2, <1>3, <2>2 DEF Delivered, HoldsRows, Holds, Taught, TableHolds
<1>6. PICK e : IsPick(sent, Len(sent), T, w, e)
  BY <1>4 DEF Picks
<1>7. \A k \in 1..L : e[k] \in mine /\ new[k] = New(e[k]) /\ Having(w)[k] = DOMAIN sent[e[k]].row
  <2>1. \A k \in 1..L : e[k] \in 1..Len(sent) /\ sent[e[k]].table = T /\ sent[e[k]].row = w[k]
    BY <1>6 DEF IsPick
  <2>2. QED BY <1>4, <2>1 DEF NewRows, Having
<1>8. DOMAIN table.rows = 1..Len(table.rows) /\ KeyHolds(table.rows, key)
  <2>1. IsTable(table)
    BY <1>1 DEF TablesHold
  <2> HIDE DEF table
  <2>2. QED BY <2>1 DEF IsTable
<1>9. ASSUME NEW n \in Newest PROVE IsNewest(n)
  <2>1. PICK k \in 1..L : e[k] = n
    BY <1>4, <1>6 DEF IsPick
  <2>2. \A j \in 1..L : e[j] <= e[k] => j <= k
    <3> SUFFICES ASSUME NEW j \in 1..L, ~(j <= k) PROVE ~(e[j] <= e[k])
      OBVIOUS
    <3>1. k < j
      BY <1>4
    <3>2. e[k] < e[j] /\ e[k] \in 1..Len(sent) /\ e[j] \in 1..Len(sent)
      BY <1>6, <3>1 DEF IsPick
    <3>3. QED BY <3>2
  <2>3. IsLast(key, L, new, k)
    <3> SUFFICES ASSUME NEW j \in 1..L, SameKey(new[j], new[k], key) PROVE j <= k
      BY DEF IsLast
    <3>1. SameKey(New(e[j]), New(n), key) /\ e[j] \in mine
      BY <1>7, <2>1
    <3> HIDE DEF New, new
    <3>2. e[j] <= n
      BY <3>1
    <3>3. QED BY <2>1, <2>2, <3>2
  <2> HIDE DEF new, old
  <2>4. PICK p \in 1..Len(table.rows) : IsThere(DOMAIN table.columns, key, table.rows, new, Having(w), old, k, p)
    BY <1>5, <2>3 DEF HasNewest
  <2>5. SameKey(table.rows[p], New(n), key) /\ new[k] = New(n) /\ Having(w)[k] = DOMAIN sent[n].row
    BY <1>7, <2>1, <2>4 DEF IsThere
  <2>6. There(n) = {p}
    <3> SUFFICES ASSUME NEW q \in 1..Len(table.rows), SameKey(table.rows[q], New(n), key) PROVE q = p
      BY <1>8, <2>5
    <3>1. SameKey(table.rows[q], table.rows[p], key)
      BY <2>5 DEF SameKey
    <3>2. QED BY <1>8, <3>1 DEF KeyHolds
  <2>7. ASSUME NEW c \in DOMAIN table.columns \ key
         PROVE  IF c \in DOMAIN sent[n].row THEN table.rows[p][c] = New(n)[c]
                ELSE table.rows[p][c] \in Before(n, c) \cup AtFirst(n, c) \cup {Null}
    <3>1. IF c \in Having(w)[k] THEN table.rows[p][c] = new[k][c]
          ELSE table.rows[p][c] \in Earlier(key, new, Having(w), old, k, c)
      BY <2>4 DEF IsThere
    <3>2. ASSUME NEW x \in Earlier(key, new, Having(w), old, k, c)
          PROVE  x \in Before(n, c) \cup AtFirst(n, c) \cup {Null}
      <4> HIDE DEF New, mine
      <4>1. \/ \E j \in 1..(k - 1) : SameKey(new[j], new[k], key) /\ c \in Having(w)[j] /\ x = new[j][c]
            \/ \E row \in old : SameKey(row, new[k], key) /\ x = row[c]
            \/ x = Null
        BY <3>2 DEF Earlier
      <4>2. CASE \E j \in 1..(k - 1) : SameKey(new[j], new[k], key) /\ c \in Having(w)[j] /\ x = new[j][c]
        <5>1. PICK j \in 1..(k - 1) : SameKey(new[j], new[k], key) /\ c \in Having(w)[j] /\ x = new[j][c]
          BY <4>2
        <5>2. j \in 1..L /\ j < k
          BY <1>4
        <5>3. e[j] \in mine /\ new[j] = New(e[j]) /\ Having(w)[j] = DOMAIN sent[e[j]].row /\ e[j] < n
          BY <1>6, <1>7, <2>1, <5>2 DEF IsPick
        <5>4. x = New(e[j])[c] /\ SameKey(New(e[j]), New(n), key) /\ c \in DOMAIN sent[e[j]].row
          BY <2>5, <5>1, <5>3
        <5>5. x \in Before(n, c)
          BY <5>3, <5>4
        <5>6. QED BY <5>5
      <4>3. CASE \E row \in old : SameKey(row, new[k], key) /\ x = row[c]
        <5>1. x \in AtFirst(n, c)
          BY <2>5, <4>3 DEF old
        <5>2. QED BY <5>1
      <4>4. QED BY <4>1, <4>2, <4>3
    <3>3. QED BY <2>5, <3>1, <3>2
  <2>8. p \in There(n)
    BY <2>6
  <2>9. QED BY <2>6, <2>7, <2>8
<1>10. ASSUME job.mode = "full", NEW m \in mine, NEW p \in DOMAIN table.rows
       PROVE  \E n \in mine : SameKey(table.rows[p], New(n), key)
  <2>1. PICK k \in 1..L : e[k] = m
    BY <1>4, <1>6, <1>10 DEF IsPick
  <2>2. w # <<>>
    BY <2>1
  <2>3. old = {}
    <3>1. began[T].rows = <<>>
      BY <1>1, <1>2, <1>3, <1>10, <2>2 DEF Delivered, Replaces
    <3>2. QED BY <3>1 DEF ToSet
  <2>4. PICK i \in 1..L : SameKey(table.rows[p], new[i], key)
    BY <1>5, <1>8, <2>3 DEF HasNewest
  <2>5. QED BY <1>7, <2>4
<1>11. QED BY <1>9, <1>10

LEMMA RowsAreDelivered == PathSpec => []NewestInv
<1>1. PathInit /\ TablesHold => NewestInv
  <2> SUFFICES ASSUME PathInit, TablesHold PROVE NewestInv
    OBVIOUS
  <2>1. NothingSent
    BY DEF PathInit, NothingSent
  <2>2. IsSending /\ Delivered(<<>>)
    BY <2>1, NothingDelivered
  <2>3. QED BY <2>2 DEF NewestInv
<1>2. DataInv => PathTyped /\ Counted /\ Bucketed /\ WriterTyped
  BY DEF DataInv
<1>3. PathTyped /\ Counted /\ Bucketed /\ WriterTyped /\ TablesHold /\ NewestInv /\ [PathNext]_pathVars => NewestInv'
  BY NewestAfterStep
<1>4. QED BY <1>1, <1>2, <1>3, DataInvariant, TablesAlwaysHold, PTL DEF PathSpec

(* For every job, source, batch size, crash, failed truncate and lost      *)
(* answer: after a pass that returned Ok, the last row that was put out    *)
(* for each key is in the table, once, with its values; and when it is a   *)
(* pass of mode full that has put out a row, no other key is.              *)
THEOREM NewestIsInTarget == PathSpec => []TargetHoldsNewest
<1>1. TablesHold /\ NewestInv => TargetHoldsNewest
  BY AllAreDelivered
<1>2. QED BY <1>1, RowsAreDelivered, TablesAlwaysHold, PTL

-----------------------------------------------------------------------------
(* Where the rows of this process go.                                      *)

GroupsSent == Splits /\ LastStep.detail_table # job.table => Grouped(sent, LastStep, job.details, job.table)
DetailsInv ==
    /\ OutputsFor(sent, OwnTables) /\ OutputsFor(out, OwnTables)
    /\ DOMAIN buckets \subseteq OwnTables
    /\ batch = NoBatch \/ batch.table \in OwnTables
    /\ \A t \in DOMAIN target \ OwnTables : target[t] = job.tables[t]
    /\ GroupsSent

LEMMA NothingIsSent == OutputsFor(<<>>, OwnTables) /\ (sent = <<>> => GroupsSent)
<1>1. OutputsFor(<<>>, OwnTables)
  <2>1. job.table \in OwnTables
    BY DEF OwnTables
  <2>2. QED BY <2>1, OneOutput
<1>2. QED BY <1>1, NoGroups DEF GroupsSent

LEMMA DetailsAfterEtl ==
  ASSUME JobIsGiven, DetailsInv, RunEtl
  PROVE  DetailsInv'
<1>1. job' = job /\ target' = target /\ batch = NoBatch
  BY DEF RunEtl, sourceVars
<1>2. OwnTables' = OwnTables /\ LastStep' = LastStep /\ (Splits' <=> Splits)
  BY <1>1 DEF OwnTables, LastStep, Splits
<1>3. OutputsFor(<<>>, OwnTables) /\ DOMAIN <<>> \subseteq OwnTables
  BY NothingIsSent
<1>4. CASE sent' = sent
  <2>1. out' \in {out, <<>>} /\ buckets' \in {buckets, <<>>} /\ batch' \in {batch, NoBatch}
    <3>1. CASE todo = <<>>
      BY <3>1 DEF RunEtl
    <3>2. CASE todo # <<>> /\ ~IsOk(Outputs(todo[1]))
      BY <3>2 DEF RunEtl, ReturnErr
    <3>3. CASE todo # <<>> /\ IsOk(Outputs(todo[1]))
      <4>1. /\ out' = PutOut(todo[1]) /\ sent' = sent \o out' /\ buckets' = buckets /\ batch' = batch
        BY <3>3 DEF RunEtl, PutOut
      <4>2. IsSeq(sent) /\ IsSeq(PutOut(todo[1]))
        BY <3>3, PutOutIsOutputs DEF DetailsInv, OutputsFor
      <4> DEFINE more == PutOut(todo[1])
      <4>3. IsSeq(more) /\ sent \o more = sent
        BY <1>4, <4>1, <4>2
      <4> HIDE DEF more
      <4>4. more = <<>>
        <5>1. PICK S, T : sent \in Seq(S) /\ more \in Seq(T)
          BY <4>2, <4>3 DEF IsSeq
        <5>2. sent \in Seq(S \cup T) /\ more \in Seq(S \cup T)
          BY <5>1
        <5>3. Len(sent \o more) = Len(sent) + Len(more) /\ Len(sent) \in Nat /\ Len(more) \in Nat
          BY <5>2, ConcatProperties, LenProperties
        <5>4. Len(more) = 0
          BY <4>3, <5>3
        <5>5. QED BY <4>3, <5>4, SeqLen
      <4>5. QED BY <4>1, <4>4 DEF more
    <3>4. QED BY <3>1, <3>2, <3>3
  <2>2. QED BY <1>1, <1>2, <1>3, <1>4, <2>1 DEF DetailsInv, GroupsSent
<1>5. CASE sent' # sent
  <2> DEFINE i == todo[1]
  <2>1. IsOk(Outputs(i)) /\ out' = PutOut(i) /\ sent' = sent \o PutOut(i) /\ buckets' = buckets /\ batch' = batch
    BY <1>5 DEF RunEtl, PutOut
  <2> HIDE DEF i
  <2>2. OutputsFor(PutOut(i), OwnTables) /\ OutputsFor(sent, OwnTables)
    BY <2>1, PutOutIsOutputs DEF DetailsInv
  <2>3. OutputsFor(sent', OwnTables) /\ OutputsFor(out', OwnTables)
    BY <2>1, <2>2, OutputsJoin
  <2>4. GroupsSent'
    <3>1. SUFFICES ASSUME Splits, LastStep.detail_table # job.table
                   PROVE  Grouped(sent \o PutOut(i), LastStep, job.details, job.table)
      BY <1>1, <1>2, <2>1 DEF GroupsSent
    <3>2. Grouped(sent, LastStep, job.details, job.table) /\ Grouped(PutOut(i), LastStep, job.details, job.table)
      BY <2>1, <3>1, PutOutIsGrouped DEF DetailsInv, GroupsSent
    <3>3. LastStep.limit \in Nat /\ Len(job.details) \in Nat
      BY <3>1, JobsAssumption DEF JobIsGiven, Splits, LastStep
    <3>4. QED BY <3>2, <3>3, GroupsJoin
  <2>5. QED BY <1>1, <1>2, <2>1, <2>3, <2>4 DEF DetailsInv
<1>6. QED BY <1>4, <1>5

LEMMA DetailsAfterPush ==
  ASSUME DetailsInv, PushRow
  PROVE  DetailsInv'
<1> DEFINE t == Head(out).table
<1>1. /\ job' = job /\ target' = target /\ sent' = sent /\ out # <<>> /\ out' = Tail(out)
      /\ \E bucket : buckets' \in {Without(buckets, t), With(buckets, t, bucket)}
      /\ batch' = NoBatch \/ \E bucket : batch' = [table |-> t, rows |-> bucket]
  BY DEF PushRow, PushUpTo, sourceVars, historyVars
<1>2. OwnTables' = OwnTables /\ LastStep' = LastStep /\ (Splits' <=> Splits)
  BY <1>1 DEF OwnTables, LastStep, Splits
<1>3. /\ IsSeq(out') /\ Len(out) \in Nat \ {0} /\ Len(out') = Len(out) - 1 /\ Head(out) = out[1]
      /\ \A k \in 1..Len(out') : out'[k] = out[k + 1]
  <2>1. PICK S : out \in Seq(S)
    BY DEF DetailsInv, OutputsFor, IsSeq
  <2>2. /\ Tail(out) \in Seq(S) /\ Len(Tail(out)) = Len(out) - 1
        /\ \A k \in 1..Len(Tail(out)) : Tail(out)[k] = out[k + 1]
    BY <1>1, <2>1, HeadTailProperties
  <2>3. Len(out) \in Nat \ {0} /\ Head(out) = out[1]
    BY <1>1, <2>1, LenProperties, EmptySeq
  <2>4. QED BY <1>1, <2>2, <2>3 DEF IsSeq
<1>4. t \in OwnTables
  <2>1. 1 \in 1..Len(out)
    BY <1>3
  <2>2. QED BY <1>3, <2>1 DEF DetailsInv, OutputsFor
<1>5. OutputsFor(out', OwnTables)
  <2>1. \A k \in 1..Len(out') : k + 1 \in 1..Len(out)
    BY <1>3
  <2>2. QED BY <1>3, <2>1 DEF DetailsInv, OutputsFor
<1>6. DOMAIN buckets' \subseteq OwnTables
  <2>1. DOMAIN buckets' \subseteq DOMAIN buckets \cup {t}
    <3> HIDE DEF t
    <3>1. QED BY <1>1 DEF With, Without
  <2>2. QED BY <1>4, <2>1 DEF DetailsInv
<1>7. batch' = NoBatch \/ batch'.table \in OwnTables
  <2> HIDE DEF t
  <2>1. QED BY <1>1, <1>4
<1>8. QED BY <1>1, <1>2, <1>5, <1>6, <1>7 DEF DetailsInv, GroupsSent

LEMMA DetailsAfterStep ==
  ASSUME JobIsGiven, DetailsInv, [PathNext]_pathVars
  PROVE  DetailsInv'
<1>1. ASSUME job' = job, target' = target, sent' \in {sent, <<>>}, out' \in {out, <<>>},
             buckets' \in {buckets, <<>>}, batch' \in {batch, NoBatch}
      PROVE  DetailsInv'
  <2>1. OwnTables' = OwnTables /\ LastStep' = LastStep /\ (Splits' <=> Splits)
    BY <1>1 DEF OwnTables, LastStep, Splits
  <2>2. OutputsFor(<<>>, OwnTables) /\ DOMAIN <<>> \subseteq OwnTables
    BY NothingIsSent
  <2>3. GroupsSent'
    BY <1>1, <2>1, NoGroups DEF DetailsInv, GroupsSent
  <2>4. QED BY <1>1, <2>1, <2>2, <2>3 DEF DetailsInv
<1>2. CASE StartPass
  <2>1. job' = job /\ target' = target /\ sent' \in {sent, <<>>}
    BY <1>2 DEF StartPass, sourceVars
  <2>2. out' \in {out, <<>>} /\ buckets' \in {buckets, <<>>} /\ batch' \in {batch, NoBatch}
    BY <1>2 DEF StartPass, ReturnErr
  <2>3. QED BY <1>1, <2>1, <2>2
<1>3. CASE NextPage
  <2>1. job' = job /\ target' = target /\ sent' = sent
    BY <1>3 DEF NextPage, sourceVars
  <2>2. out' \in {out, <<>>} /\ buckets' \in {buckets, <<>>} /\ batch' \in {batch, NoBatch}
    BY <1>3 DEF NextPage, ReturnErr
  <2>3. QED BY <1>1, <2>1, <2>2
<1>4. CASE RunEtl
  BY <1>4, DetailsAfterEtl
<1>5. CASE PushRow
  BY <1>5, DetailsAfterPush
<1>6. CASE Drain
  <2>1. PICK t \in DOMAIN buckets : batch' = [table |-> t, rows |-> buckets[t]] /\ buckets' = Without(buckets, t)
    BY <1>6 DEF Drain
  <2>2. job' = job /\ target' = target /\ sent' = sent /\ out' = out
    BY <1>6 DEF Drain, sourceVars, historyVars
  <2>3. OwnTables' = OwnTables /\ LastStep' = LastStep /\ (Splits' <=> Splits)
    BY <2>2 DEF OwnTables, LastStep, Splits
  <2>4. DOMAIN buckets' \subseteq OwnTables /\ batch'.table \in OwnTables
    BY <2>1 DEF DetailsInv, Without
  <2>5. QED BY <2>2, <2>3, <2>4 DEF DetailsInv, GroupsSent
<1>7. CASE WriteBatch \/ Truncate
  <2>1. job' = job /\ sent' = sent /\ batch # NoBatch
    BY <1>7, WriteBatchLeaves, TruncateLeaves
  <2>2. out' \in {out, <<>>} /\ buckets' \in {buckets, <<>>} /\ batch' \in {batch, NoBatch}
    BY <1>7, WriteBatchLeaves, TruncateLeaves
  <2>3. target' = target \/ \E x : target' = [target EXCEPT ![batch.table] = x]
    BY <1>7, WriteBatchLeaves, TruncateLeaves
  <2>4. OwnTables' = OwnTables /\ LastStep' = LastStep /\ (Splits' <=> Splits)
    BY <2>1 DEF OwnTables, LastStep, Splits
  <2>5. batch.table \in OwnTables
    BY <2>1 DEF DetailsInv
  <2>6. \A t \in DOMAIN target' \ OwnTables : t \in DOMAIN target /\ target'[t] = target[t]
    BY <2>3, <2>5
  <2>7. OutputsFor(<<>>, OwnTables) /\ DOMAIN <<>> \subseteq OwnTables
    BY NothingIsSent
  <2>8. QED BY <2>1, <2>2, <2>4, <2>6, <2>7 DEF DetailsInv, GroupsSent
<1>8. CASE Save \/ SourceInsert \/ NeighbourSaves \/ Restart \/ UNCHANGED pathVars
  <2>1. job' = job /\ target' = target /\ sent' = sent /\ out' = out /\ buckets' = buckets /\ batch' = batch
    BY <1>8 DEF Save, SourceInsert, NeighbourSaves, Restart, pathVars, passVars, sourceVars, historyVars
  <2>2. QED BY <1>1, <2>1
<1>9. CASE Crash
  BY <1>1, <1>9 DEF Crash, sourceVars
<1>10. QED BY <1>2, <1>3, <1>4, <1>5, <1>6, <1>7, <1>8, <1>9 DEF PathNext, PathStep

LEMMA DetailsAreThere ==
  ASSUME DetailsInv
  PROVE  DetailsReachTheirTable
<1> DEFINE last == job.etl[Len(job.etl)]
           splits == Len(job.etl) > 0 /\ last.name = "order_split"
           tables == {job.table} \cup IF splits THEN {last.detail_table} ELSE {}
           Matches(n) ==
               LET key == ValueAt(sent[n].row, last.parent_key)
               IN  {m \in 1..Len(job.details) : key # Null /\ job.details[m][last.child_key] = key}
           Position(n, m) == Cardinality({x \in Matches(n) : x <= m})
           Total(n) == Cardinality(Matches(n))
           End(n) == n + 1 + IF Total(n) < last.limit THEN Total(n) ELSE last.limit
           FollowedByDetails(n) ==
               /\ \A m \in Matches(n) : Position(n, m) <= last.limit =>
                     /\ n + Position(n, m) \in DOMAIN sent
                     /\ sent[n + Position(n, m)] = Output(last.detail_table, Detail(last, job.details[m]))
               /\ End(n) \in DOMAIN sent => sent[End(n)].table = job.table
<1>1. DOMAIN sent = 1..Len(sent) /\ Len(sent) \in Nat /\ (sent # <<>> => Len(sent) # 0)
  BY SeqLen DEF DetailsInv, OutputsFor
<1>2. tables = OwnTables /\ last = LastStep /\ (splits <=> Splits)
  BY DEF OwnTables, Splits, LastStep
<1>3. \A n : Matches(n) = MatchesOf(sent[n].row, last, job.details)
  BY DEF MatchesOf
<1> HIDE DEF Matches
<1>4. \A n, m : Position(n, m) = UpTo(Matches(n), m)
  BY DEF UpTo
<1>5. \A n : End(n) = EndOf(n, Matches(n), last)
  BY DEF EndOf
<1> HIDE DEF Position, Total, End, tables
<1>6. \A n \in DOMAIN sent : sent[n].table \in tables
  BY <1>1, <1>2 DEF DetailsInv, OutputsFor
<1>7. \A t \in DOMAIN target \ tables : target[t] = job.tables[t]
  BY <1>2 DEF DetailsInv
<1>8. ASSUME splits, last.detail_table # job.table
      PROVE  /\ sent # <<>> => sent[1].table = job.table
             /\ \A n \in DOMAIN sent :
                   sent[n].table = job.table /\ (last.keep = {} \/ last.parent_key \in last.keep) => FollowedByDetails(n)
  <2>1. Grouped(sent, last, job.details, job.table)
    BY <1>2, <1>8 DEF DetailsInv, GroupsSent
  <2> HIDE DEF last
  <2>2. sent # <<>> => sent[1].table = job.table
    BY <1>1, <2>1 DEF Grouped
  <2>3. ASSUME NEW n \in DOMAIN sent, sent[n].table = job.table, last.keep = {} \/ last.parent_key \in last.keep
        PROVE  FollowedByDetails(n)
    <3>1. IsFollowed(sent, n, Matches(n), last, job.details, job.table)
      BY <1>1, <1>3, <2>1, <2>3 DEF Grouped, KeepsKey
    <3>2. End(n) \in DOMAIN sent => End(n) <= Len(sent)
      BY <1>1
    <3>3. QED BY <1>1, <1>4, <1>5, <3>1, <3>2 DEF IsFollowed
  <2> HIDE DEF FollowedByDetails
  <2>4. QED BY <2>2, <2>3
<1> DEFINE Claim == /\ \A n \in DOMAIN sent : sent[n].table \in tables
                    /\ \A t \in DOMAIN target \ tables : target[t] = job.tables[t]
                    /\ splits /\ last.detail_table # job.table =>
                          /\ sent # <<>> => sent[1].table = job.table
                          /\ \A n \in DOMAIN sent :
                                sent[n].table = job.table /\ (last.keep = {} \/ last.parent_key \in last.keep) => FollowedByDetails(n)
<1>9. Claim
  <2> HIDE DEF FollowedByDetails, last, splits
  <2>1. QED BY <1>6, <1>7, <1>8
<1>10. DetailsReachTheirTable = Claim
  BY DEF DetailsReachTheirTable, Claim, FollowedByDetails, End, Total, Position, Matches, tables
<1>11. QED BY <1>9, <1>10

(* For every job, its steps and its rows: headers and details arrive at    *)
(* their tables, together and complete, and no other table gets a row.     *)
THEOREM DetailsArrive == PathSpec => []DetailsReachTheirTable
<1>1. PathInit => DetailsInv
  <2> SUFFICES ASSUME PathInit PROVE DetailsInv
    OBVIOUS
  <2>1. sent = <<>> /\ out = <<>> /\ buckets = <<>> /\ batch = NoBatch /\ target = job.tables
    BY DEF PathInit
  <2>2. DOMAIN <<>> \subseteq OwnTables
    OBVIOUS
  <2>3. QED BY <2>1, <2>2, NothingIsSent DEF DetailsInv
<1>2. JobIsGiven /\ DetailsInv /\ [PathNext]_pathVars => DetailsInv'
  BY DetailsAfterStep
<1>3. DetailsInv => DetailsReachTheirTable
  BY DetailsAreThere
<1>4. PathTyped => JobIsGiven
  BY DEF PathTyped, JobIsGiven
<1>5. QED BY <1>1, <1>2, <1>3, <1>4, PathTypeCorrect, PTL DEF PathSpec

-----------------------------------------------------------------------------
(* A well set job.                                                         *)

(* A batch of rows with keys of their own goes into a table whose key is   *)
(* the declared one, whatever is in it.                                    *)
LEMMA BatchGoesIn ==
  ASSUME NEW dialect \in {"mysql", "postgresql", "oracle"},
         NEW table, IsTable(table), NEW given, IsBatch(given), Len(given) # 0,
         NEW pk, pk = table.key, Binds(dialect, table, given),
         HaveKeys(NewRows(dialect, table, given), Len(given), pk),
         \A n, m \in 1..Len(given) :
             n # m => ~SameKey(NewRows(dialect, table, given)[n], NewRows(dialect, table, given)[m], pk),
         dialect = "mysql" /\ pk # {} => UpdateColumns(given, pk) # {}
  PROVE  InsertBatch(dialect, table, given, "upsert", pk).ok
<1> DEFINE C == DOMAIN table.columns
           N == Len(given)
           new == NewRows(dialect, table, given)
           update == UpdateColumns(given, pk)
           rows == table.rows
<1>0. /\ N \in Nat /\ DOMAIN given = 1..N /\ 1 \in 1..N /\ pk \subseteq C /\ KeyHolds(rows, pk)
  BY DEF IsBatch, IsTable
<1>1. \A s : KeyHolds(s, pk) => Kept(table, s).ok
  BY DEF Kept, Became
<1>2. CASE pk = {}
  <2>1. \A s : KeyHolds(s, pk)
    BY <1>2 DEF KeyHolds, SameKey
  <2>2. \A s : Kept(table, s).ok
    BY <1>1, <2>1
  <2> HIDE DEF update
  <2>3. Insert(dialect, table, given).ok /\ Upserted(dialect, table, given, table.key, update).ok
    BY <2>2 DEF Insert, Upserted
  <2>4. CASE dialect = "mysql"
    <3>1. MysqlInsert(table, given, "upsert", pk) \in {Insert(dialect, table, given), Upserted(dialect, table, given, table.key, update)}
      BY <2>4 DEF MysqlInsert, update
    <3>2. InsertBatch(dialect, table, given, "upsert", pk) = MysqlInsert(table, given, "upsert", pk)
      BY <2>4 DEF InsertBatch
    <3>3. QED BY <2>3, <3>1, <3>2
  <2>5. CASE dialect = "postgresql"
    <3>1. PostgresInsert(table, given, "upsert", pk) = Insert(dialect, table, given)
      BY <1>2, <2>5 DEF PostgresInsert
    <3>2. InsertBatch(dialect, table, given, "upsert", pk) = PostgresInsert(table, given, "upsert", pk)
      BY <2>5 DEF InsertBatch
    <3>3. QED BY <2>3, <3>1, <3>2
  <2>6. CASE dialect = "oracle"
    <3>1. OracleInsert(table, given, "upsert", pk) = Insert(dialect, table, given)
      BY <1>2, <2>6 DEF OracleInsert
    <3>2. InsertBatch(dialect, table, given, "upsert", pk) = OracleInsert(table, given, "upsert", pk)
      BY <2>6 DEF InsertBatch
    <3>3. QED BY <2>3, <3>1, <3>2
  <2>7. QED BY <2>4, <2>5, <2>6
<1>3. CASE pk # {}
  <2>1. PICK V : Batches(C, V, rows, new, N, pk)
    BY <1>0, TableGoesOn
  <2>2. ASSUME NEW f, Upserting(f, rows, new, N, pk, update, {})
        PROVE  KeyHolds(f[N], pk)
    <3> HIDE DEF new, rows, N, C, update
    <3>0. HaveKeys(new, N, pk)
      BY DEF new, N
    <3>1. QED BY <1>0, <2>1, <2>2, <3>0, UpsertsKeepKey
  <2>3. Upserted(dialect, table, given, pk, update).ok
    <3>1. PICK f : /\ Upserting(f, rows, new, N, pk, update, {})
                   /\ WithUpserts(dialect, table, given, pk, update, {}) = f[N]
      <4> HIDE DEF update
      <4>1. QED BY <1>0, UpsertsGoOn
    <3>2. KeyHolds(f[N], pk)
      BY <2>2, <3>1
    <3> HIDE DEF update, N, rows, new
    <3>3. QED BY <1>1, <3>1, <3>2 DEF Upserted
  <2>4. CASE dialect = "mysql"
    <3>1. InsertBatch(dialect, table, given, "upsert", pk) = Upserted(dialect, table, given, pk, update)
      BY <1>3, <2>4 DEF InsertBatch, MysqlInsert
    <3>2. QED BY <2>3, <3>1
  <2>5. CASE dialect = "postgresql"
    <3>1. ~Repeats(dialect, table, given, pk)
      BY <1>0 DEF Repeats, NewRows
    <3>2. PostgresInsert(table, given, "upsert", pk) = Upserted(dialect, table, given, pk, update)
      BY <1>3, <2>5, <3>1 DEF PostgresInsert
    <3>3. InsertBatch(dialect, table, given, "upsert", pk) = PostgresInsert(table, given, "upsert", pk)
      BY <2>5 DEF InsertBatch
    <3>4. QED BY <2>3, <3>2, <3>3
  <2>6. CASE dialect = "oracle"
    <3> DEFINE plain == Unmatched(rows, new, N, pk)
               matched == Matched(rows, new, N, pk)
               unstable == \E n, m \in matched : n # m /\ SameKey(new[n], new[m], pk)
    <3>1. PICK h : /\ Upserting(h, rows, new, N, pk, update, plain)
                   /\ WithUpserts(dialect, table, given, pk, update, plain) = h[N]
      <4> HIDE DEF update, plain
      <4>1. QED BY <1>0, UpsertsGoOn
    <3>2. Unlike(new, N, pk)
      <4>1. \A n \in 1..N : SameKey(new[n], new[n], pk)
        BY <1>3 DEF SameKey, HaveKeys
      <4>2. \A n, m \in 1..N : n # m => ~SameKey(new[n], new[m], pk)
        OBVIOUS
      <4> HIDE DEF new, N
      <4>3. QED BY <4>1, <4>2 DEF Unlike
    <3>3. Upserting(h, rows, new, N, pk, update, {})
      <4> HIDE DEF new, rows, N, C, update
      <4>1. QED BY <2>1, <3>1, <3>2, MergePuts
    <3>4. KeyHolds(h[N], pk)
      BY <2>2, <3>3
    <3>5. pk \subseteq DOMAIN given[1]
      <4>1. \A c \in pk : new[1][c] # Null
        BY <1>0 DEF HaveKeys
      <4>2. new[1] = AsInserted(dialect, table, given[1])
        BY <1>0 DEF NewRows
      <4> HIDE DEF new
      <4>3. QED BY <1>0, <4>1, <4>2 DEF AsInserted
    <3>6. ~unstable
      <4>1. matched \subseteq 1..N
        BY DEF Matched
      <4> HIDE DEF matched, new, N
      <4>2. QED BY <3>2, <4>1 DEF Unlike
    <3>7. Merge(table, given, pk, update) = Kept(table, h[N])
      <4>1. Merge(table, given, pk, update) =
               IF ~(pk \subseteq DOMAIN given[1]) \/ (update # {} /\ unstable) THEN Failed(table)
               ELSE Kept(table, WithUpserts(dialect, table, given, pk, update, plain))
        <5> HIDE DEF update
        <5>1. QED BY <2>6, MergeIs
      <4> HIDE DEF unstable, update, plain
      <4>2. QED BY <3>1, <3>5, <3>6, <4>1
    <3>8. OracleInsert(table, given, "upsert", pk) = Merge(table, given, pk, update)
      BY <1>3 DEF OracleInsert
    <3>9. InsertBatch(dialect, table, given, "upsert", pk) = OracleInsert(table, given, "upsert", pk)
      BY <2>6 DEF InsertBatch
    <3> HIDE DEF update
    <3>10. QED BY <1>1, <3>4, <3>7, <3>8, <3>9
  <2>7. QED BY <2>4, <2>5, <2>6
<1>4. QED BY <1>2, <1>3

\* A row the job puts out for table t.
IsRowFor(row, t) == \E p \in Places : TableAt(p) = t /\ RowAt(p) = row
Apart(rows) == \A n, m \in 1..Len(rows) : n # m => ~KeyClash(rows[n], rows[m])

(* A batch of such rows goes into its table, as the table is by now.       *)
LEMMA WellSetBatch ==
  ASSUME JobIsGiven, WellSet, NEW t, NEW S, NEW rows \in Seq(S), rows # <<>>,
         \A n \in 1..Len(rows) : IsRowFor(rows[n], t), t = job.table => Apart(rows)
  PROVE  /\ t \in DOMAIN job.tables
         /\ \A table : IsTable(table) /\ table.columns = job.tables[t].columns /\ table.key = job.tables[t].key
               => BatchInsert(job.target, table, rows, job.mode, pk_for(t)).ok
<1> DEFINE d == job.target
           given == Normalise(rows)
           N == Len(rows)
           pk == pk_for(t)
<1>1. /\ N \in Nat \ {0} /\ DOMAIN rows = 1..N /\ 1 \in 1..N
  BY LenProperties, EmptySeq
<1>2. /\ \A p, q \in Places : TableTakes(p, q) /\ (TableAt(p) = job.table => KeyIsGood(p, q))
      /\ job.mode = "upsert" /\ job.table \in DOMAIN job.tables /\ job.pk = job.tables[job.table].key
  BY DEF WellSet
<1>3. t \in DOMAIN job.tables
  BY <1>1, <1>2 DEF IsRowFor, TableTakes
<1>4. pk = job.tables[t].key /\ (t # job.table => pk = {})
  BY <1>1, <1>2 DEF IsRowFor, TableTakes, pk_for
<1>5. IsBatch(given) /\ Len(given) = N /\ DOMAIN given = 1..N
  <2>1. IsBatch(given)
    BY NormalIsBatch
  <2>2. DOMAIN given = DOMAIN rows
    BY DEF Normalise
  <2> HIDE DEF given, N
  <2>3. 1..Len(given) = 1..N /\ Len(given) \in Nat
    BY <1>1, <2>1, <2>2 DEF IsBatch
  <2>4. N \in 1..N /\ 1 \in 1..N
    BY <1>1
  <2>5. N \in 1..Len(given) /\ 1 \in 1..Len(given)
    BY <2>3, <2>4
  <2>6. Len(given) \in 1..Len(given)
    BY <2>3, <2>5
  <2>7. Len(given) \in 1..N
    BY <2>3, <2>6
  <2>8. Len(given) = N
    BY <1>1, <2>3, <2>5, <2>7
  <2>9. QED BY <1>1, <2>1, <2>2, <2>8
<1>6. \A n \in 1..N : DOMAIN rows[n] \subseteq Columns(rows)
  BY <1>1 DEF Columns
<1>7. \A c \in Columns(rows) : \E m \in 1..N : c \in DOMAIN rows[m]
  BY <1>1 DEF Columns
<1>8. d \in {"mysql", "postgresql", "oracle"}
  BY JobsAssumption DEF JobIsGiven
<1>9. SUFFICES ASSUME NEW table, IsTable(table), table.columns = job.tables[t].columns, table.key = job.tables[t].key
               PROVE  BatchInsert(d, table, rows, "upsert", pk).ok
  BY <1>2, <1>3
<1>10. Binds(d, table, given)
  <2> SUFFICES ASSUME NEW n \in 1..N, NEW c \in DOMAIN given[n]
               PROVE  c \in DOMAIN table.columns /\ Takes(d, table.columns[c], given[n][c])
    BY <1>5 DEF Binds
  <2>1. c \in Columns(rows) /\ given[n][c] = ValueAt(rows[n], c)
    BY <1>1 DEF Normalise, Only
  <2>2. PICK p \in Places : TableAt(p) = t /\ RowAt(p) = rows[n]
    BY DEF IsRowFor
  <2> HIDE DEF given, N, d
  <2>3. PICK m \in 1..N : c \in DOMAIN rows[m]
    BY <1>7, <2>1
  <2>4. PICK q \in Places : TableAt(q) = t /\ RowAt(q) = rows[m]
    BY DEF IsRowFor, N
  <2> DEFINE row == Only(rows[n], DOMAIN rows[m])
  <2>5. Binds(d, job.tables[t], <<row>>)
    BY <1>2, <2>2, <2>4 DEF TableTakes, d
  <2>6. c \in DOMAIN row /\ row[c] = given[n][c]
    BY <2>1, <2>3 DEF Only
  <2> HIDE DEF row
  <2>7. 1 \in DOMAIN <<row>> /\ <<row>>[1] = row
    OBVIOUS
  <2>8. c \in DOMAIN job.tables[t].columns /\ Takes(d, job.tables[t].columns[c], row[c])
    BY <2>6, <2>7, <2>5 DEF Binds
  <2>9. QED BY <1>9, <2>6, <2>8
<1>11. \A n \in 1..N : NewRows(d, table, given)[n] = AsInserted(d, job.tables[t], rows[n])
  <2> SUFFICES ASSUME NEW n \in 1..N PROVE NewRows(d, table, given)[n] = AsInserted(d, job.tables[t], rows[n])
    OBVIOUS
  <2>1. NewRows(d, table, given)[n] = AsInserted(d, table, given[n])
    BY <1>5 DEF NewRows
  <2>2. AsInserted(d, table, given[n]) = AsInserted(d, table, rows[n])
    BY <1>1, NormalInserted
  <2>3. AsInserted(d, table, rows[n]) = AsInserted(d, job.tables[t], rows[n])
    BY <1>9 DEF AsInserted
  <2>4. QED BY <2>1, <2>2, <2>3
<1> HIDE DEF given
<1>12. HaveKeys(NewRows(d, table, given), N, pk)
  <2>1. CASE t = job.table
    <3>1. \A n \in 1..N : \A c \in job.pk : AsInserted(d, job.tables[t], rows[n])[c] # Null
      BY <1>2, <2>1 DEF IsRowFor, KeyIsGood
    <3>2. pk = job.pk
      BY <2>1 DEF pk_for
    <3> HIDE DEF N, d, pk
    <3>3. QED BY <1>11, <3>1, <3>2 DEF HaveKeys
  <2>2. CASE t # job.table
    BY <1>4, <2>2 DEF HaveKeys
  <2>3. QED BY <2>1, <2>2
<1>13. \A n, m \in 1..N : n # m => ~SameKey(NewRows(d, table, given)[n], NewRows(d, table, given)[m], pk)
  <2>1. CASE t = job.table
    <3>1. \A n, m \in 1..N : n # m => ~SameKey(AsInserted(d, job.tables[t], rows[n]), AsInserted(d, job.tables[t], rows[m]), job.pk)
      BY <2>1 DEF Apart, KeyClash
    <3>2. pk = job.pk
      BY <2>1 DEF pk_for
    <3> HIDE DEF N, d, pk
    <3>3. QED BY <1>11, <3>1, <3>2
  <2>2. CASE t # job.table
    BY <1>4, <2>2 DEF SameKey
  <2>3. QED BY <2>1, <2>2
<1>14. d = "mysql" /\ pk # {} => UpdateColumns(given, pk) # {}
  <2> SUFFICES ASSUME d = "mysql", pk # {} PROVE UpdateColumns(given, pk) # {}
    OBVIOUS
  <2>1. t = job.table /\ pk = job.pk
    BY <1>4 DEF pk_for
  <2>2. PICK p \in Places : TableAt(p) = t /\ RowAt(p) = rows[1]
    BY <1>1 DEF IsRowFor
  <2>3. KeyIsGood(p, p)
    BY <1>2, <2>1, <2>2
  <2>4. \A c \in pk : AsInserted(d, job.tables[t], rows[1])[c] # Null
    BY <2>1, <2>2, <2>3 DEF KeyIsGood
  <2>5. pk \subseteq DOMAIN job.tables[t].columns
    BY <1>4, <1>9 DEF IsTable
  <2>6. pk \subseteq DOMAIN rows[1]
    BY <2>4, <2>5 DEF AsInserted
  <2>7. DOMAIN rows[1] # pk
    BY <2>1, <2>2, <2>3 DEF KeyIsGood
  <2>8. DOMAIN given[1] = Columns(rows)
    BY <1>1 DEF given, Normalise, Only
  <2>9. QED BY <1>1, <1>6, <2>6, <2>7, <2>8 DEF UpdateColumns
<1>15. InsertBatch(d, table, given, "upsert", pk).ok
  <2>1. pk = table.key /\ Len(given) # 0 /\ N = Len(given)
    BY <1>1, <1>4, <1>5, <1>9
  <2> HIDE DEF N, d, pk
  <2>2. QED BY <1>5, <1>8, <1>9, <1>10, <1>12, <1>13, <1>14, <2>1, BatchGoesIn
<1>16. QED BY <1>15 DEF BatchInsert, given

-----------------------------------------------------------------------------
\* What is said of the job stays.
LEMMA WellSetStays ==
  ASSUME job' = job
  PROVE  /\ WellSet' <=> WellSet
         /\ \A i : Outputs(i)' = Outputs(i)
         /\ Places' = Places
         /\ \A p : RowAt(p)' = RowAt(p) /\ TableAt(p)' = TableAt(p)
         /\ \A r, s : KeyClash(r, s)' <=> KeyClash(r, s)
         /\ \A row, t : IsRowFor(row, t)' <=> IsRowFor(row, t)
<1>1. \A i : Outputs(i)' = Outputs(i)
  BY DEF Outputs, Row, Selected, Details
<1>2. Places' = Places
  BY <1>1 DEF Places
<1>3. \A p : RowAt(p)' = RowAt(p) /\ TableAt(p)' = TableAt(p)
  BY <1>1 DEF RowAt, TableAt
<1>4. \A r, s : KeyClash(r, s)' <=> KeyClash(r, s)
  BY DEF KeyClash
<1>5. \A row, t : IsRowFor(row, t)' <=> IsRowFor(row, t)
  BY <1>2, <1>3 DEF IsRowFor
<1>6. \A p, q : TableTakes(p, q)' <=> TableTakes(p, q)
  BY <1>3 DEF TableTakes
<1>7. \A p, q : KeyIsGood(p, q)' <=> KeyIsGood(p, q)
  BY <1>3, <1>4 DEF KeyIsGood
<1>8. \A token : Expands(token)' <=> Expands(token)
  BY DEF Expands
<1>9. MarkType' = MarkType /\ (SharesFile' <=> SharesFile)
  BY JobStays
<1>10. WellSet' <=> WellSet
  BY <1>1, <1>2, <1>3, <1>6, <1>7, <1>8, <1>9 DEF WellSet
<1>11. QED BY <1>1, <1>2, <1>3, <1>4, <1>5, <1>10

-----------------------------------------------------------------------------
(* The tables keep their columns and their keys.                           *)
TablesStay ==
    \A t \in DOMAIN target : target[t].columns = job.tables[t].columns /\ target[t].key = job.tables[t].key

LEMMA TablesStayAfterStep ==
  ASSUME TablesHold, TablesStay, [PathNext]_pathVars
  PROVE  TablesStay'
<1>1. ASSUME job' = job, NEW x, batch.table \in DOMAIN target, target' = [target EXCEPT ![batch.table] = x],
             x.columns = target[batch.table].columns, x.key = target[batch.table].key
      PROVE  TablesStay'
  <2>1. \A t \in DOMAIN target' : /\ t \in DOMAIN target /\ target'[t].columns = target[t].columns
                                  /\ target'[t].key = target[t].key
    BY <1>1
  <2>2. QED BY <1>1, <2>1 DEF TablesStay
<1>2. ASSUME job' = job, target' = target
      PROVE  TablesStay'
  BY <1>2 DEF TablesStay
<1>3. CASE WriteBatch
  <2> DEFINE result == Inserted(job.target, target[batch.table])
  <2>1. batch.table \in DOMAIN target => StaysTable(target[batch.table], result)
    BY InsertedKeepsTable DEF TablesHold
  <2>2. batch.table \in DOMAIN target =>
           result.table.columns = target[batch.table].columns /\ result.table.key = target[batch.table].key
    BY <2>1 DEF StaysTable
  <2> HIDE DEF result
  <2>3. /\ job' = job
        /\ \/ target' = target
           \/ batch.table \in DOMAIN target /\ target' = [target EXCEPT ![batch.table] = result.table]
    BY <1>3, WriteBatchLeaves DEF result
  <2>4. QED BY <1>1, <1>2, <2>2, <2>3
<1>4. CASE Truncate
  <2> DEFINE empty == [target[batch.table] EXCEPT !.rows = <<>>]
  <2>1. batch.table \in DOMAIN target =>
           empty.columns = target[batch.table].columns /\ empty.key = target[batch.table].key
    BY EmptiedIsTable DEF TablesHold
  <2>2. /\ job' = job
        /\ \/ target' = target
           \/ batch.table \in DOMAIN target /\ target' = [target EXCEPT ![batch.table] = empty]
    BY <1>4, TruncateLeaves
  <2> HIDE DEF empty
  <2>3. QED BY <1>1, <1>2, <2>1, <2>2
<1>5. CASE ~(WriteBatch \/ Truncate)
  <2>1. job' = job /\ target' = target
    BY <1>5 DEF PathNext, PathStep, StartPass, NextPage, RunEtl, PushRow, PushUpTo, Drain, Save, SourceInsert,
                NeighbourSaves, Crash, Restart, pathVars, sourceVars, passVars
  <2>2. QED BY <1>2, <2>1
<1>6. QED BY <1>3, <1>4, <1>5

LEMMA TablesAlwaysStay == PathSpec => []TablesStay
<1>1. PathInit => TablesStay
  BY DEF PathInit, TablesStay
<1>2. TablesHold /\ TablesStay /\ [PathNext]_pathVars => TablesStay'
  BY TablesStayAfterStep
<1>3. QED BY <1>1, <1>2, TablesAlwaysHold, PTL DEF PathSpec

-----------------------------------------------------------------------------
(* A well set job can compare its column with any literal it starts from.  *)
CanCompare(literal) == Comparable(job.source, MarkType, literal)

LEMMA MarkIsLiteral ==
  ASSUME NEW v \in MarkValues
  PROVE  state_to_literal(v) # Null
<1>1. \/ \E n : v \in {[int |-> n], [uint |-> n], [float |-> n]}
      \/ \E s : v \in {[decimal |-> s], [string |-> s], [date |-> s]}
  BY DEF MarkValues
<1>2. CASE \E n : v \in {[int |-> n], [uint |-> n], [float |-> n]}
  BY <1>2 DEF state_to_literal, Is, IsText, Null
<1>3. CASE \E s : v \in {[decimal |-> s], [string |-> s], [date |-> s]}
  BY <1>3 DEF state_to_literal, Is, IsText, Null
<1>4. QED BY <1>1, <1>2, <1>3

LEMMA NumbersCompare ==
  ASSUME MarkType \in NumberTypes
  PROVE  /\ \A n : CanCompare([number |-> n])
         /\ \A s : Parses(s) => CanCompare([quoted |-> s])
<1>1. \A n : "number" \in DOMAIN [number |-> n]
  OBVIOUS
<1>2. \A s : [quoted |-> s].quoted = s
  OBVIOUS
<1>3. QED BY <1>1, <1>2, Zenon DEF CanCompare, Comparable

LEMMA WellSetCompares ==
  ASSUME PathTyped, MarksHaveOrigins, WellSet, NEW schema \in {Schema, ""}
  PROVE  CanCompare(Resolved(schema))
<1>1. CASE job.source = "mysql"
  BY <1>1 DEF CanCompare, Comparable
<1>2. CASE MarkType \in NumberTypes /\ ~SharesFile /\ (job.select => ~ReadAsNull(job.source, MarkType))
  <2>1. CASE mem # NoMark
    <3>1. PICK k \in DOMAIN read : Mark(k) = state_to_literal(mem)
      BY <1>2, <2>1 DEF MarksHaveOrigins, HasOrigin
    <3>2. JobIsGiven /\ k \in 1..Len(job.rows)
      BY Numbers DEF PathTyped
    <3>3. mem \in MarkValues
      BY <2>1 DEF PathTyped
    <3>4. state_to_literal(mem) # Null
      BY <3>3, MarkIsLiteral
    <3>5. MarkRead(k) # Null
      BY <3>1, <3>4 DEF Mark, state_to_literal, Is, IsText, Null
    <3>6. \/ Mark(k) = [number |-> Degree(k)]
          \/ \E s \in ToSet(Lex) : Mark(k) = [quoted |-> s] /\ MarkCell(k) = [s |-> s]
      BY <3>2, <3>5, RowHasMark
    <3>7. Resolved(schema) = Mark(k)
      BY <2>1, <3>1 DEF Resolved
    <3>8. CASE Mark(k) = [number |-> Degree(k)]
      BY <1>2, <3>7, <3>8, NumbersCompare
    <3>9. CASE \E s \in ToSet(Lex) : Mark(k) = [quoted |-> s] /\ MarkCell(k) = [s |-> s]
      <4>1. PICK s \in ToSet(Lex) : Mark(k) = [quoted |-> s] /\ MarkCell(k) = [s |-> s]
        BY <3>9
      <4>2. MarkCell(k) # Null
        BY <3>2, <3>5, RowHasMark
      <4>3. MarkType = "decimal"
        <5>1. \A n : [n |-> n] # [s |-> s]
          OBVIOUS
        <5>2. QED BY <1>2, <3>2, <4>1, <4>2, <5>1, CellTyped
      <4>4. Parses(s)
        <5>1. PICK x \in DOMAIN Numeral : MarkCell(k) = [s |-> x]
          BY <3>2, <4>2, <4>3, CellTyped
        <5>2. [s |-> x].s = x /\ [s |-> s].s = s
          OBVIOUS
        <5>3. QED BY <4>1, <5>1, <5>2 DEF Parses
      <4>5. QED BY <1>2, <3>7, <4>1, <4>4, NumbersCompare
    <3>10. QED BY <3>6, <3>8, <3>9
  <2>2. CASE mem = NoMark
    <3>1. Resolved(schema) = IF schema = "" THEN [number |-> 0] ELSE default_literal(schema)
      BY <2>2 DEF Resolved
    <3>2. default_literal(MarkType) = [number |-> 0]
      BY <1>2 DEF default_literal, NumberTypes, TimeTypes, TextTypes
    <3>3. Resolved(schema) = [number |-> 0]
      <4>1. CASE schema = ""
        BY <3>1, <4>1
      <4>2. CASE schema # "" /\ job.select
        <5>1. default_literal(ProbedType) = default_literal(MarkType)
          BY <1>2, <4>2, ProbedLiteral DEF Schema
        <5>2. QED BY <3>1, <3>2, <4>2, <5>1 DEF Schema
      <4>3. CASE schema # "" /\ ~job.select
        BY <3>1, <3>2, <4>3 DEF Schema
      <4>4. QED BY <4>1, <4>2, <4>3
    <3>4. QED BY <1>2, <3>3, NumbersCompare
  <2>3. QED BY <2>1, <2>2
<1>3. QED BY <1>1, <1>2 DEF WellSet

-----------------------------------------------------------------------------
(* While nothing has failed: the mark is compared, the rows of a page and  *)
(* the pages come in order, what is on its way are outputs of the job for  *)
(* its table, none of them has the key of another one, and none has that   *)
(* of a row that is still to come in this pass.                            *)

ReadsOn == InPass /\ UsesMark => CanCompare(low)
InOrder ==
    /\ step # "rows" => todo = <<>>
    /\ Increases(todo)
    /\ InPass => \A k \in 1..Len(todo) : \A l \in 1..Len(Asked) : offset < l => todo[k] < Asked[l]
RowsAreOutputs ==
    /\ \A t \in DOMAIN buckets : \A n \in 1..Len(buckets[t]) : IsRowFor(buckets[t][n], t)
    /\ \A n \in 1..Len(batch.rows) : IsRowFor(batch.rows[n], batch.table)
    /\ \A k \in 1..Len(out) : IsRowFor(out[k].row, out[k].table)
IsOwn(k) == out[k].table = job.table
Coming(i) == InPass /\ (i \in ToSet(todo) \/ \E k \in 1..Len(Asked) : offset < k /\ i = Asked[k])
RowsApart ==
    /\ Apart(BucketOf) /\ Apart(BatchOf)
    /\ \A k, l \in 1..Len(out) : k # l /\ IsOwn(k) /\ IsOwn(l) => ~KeyClash(out[k].row, out[l].row)
    /\ \A n \in 1..Len(BucketOf) : \A k \in 1..Len(out) : IsOwn(k) => ~KeyClash(BucketOf[n], out[k].row)
NoneComesAgain ==
    \A p \in Places : TableAt(p) = job.table /\ Coming(p[1]) =>
        /\ \A n \in 1..Len(BucketOf) : ~KeyClash(BucketOf[n], RowAt(p))
        /\ \A k \in 1..Len(out) : IsOwn(k) => ~KeyClash(out[k].row, RowAt(p))
OnItsWay == RowsAreOutputs /\ RowsApart /\ NoneComesAgain
GoesWell == ~erred /\ step # "gone" /\ ReadsOn /\ InOrder /\ OnItsWay
WellInv == WellSet /\ ~(faults > job.retry) => GoesWell

\* Each failed attempt at the batch is a fault.
AttemptsFail == attempt <= faults

LEMMA FaultsAreCounted ==
  ASSUME PathTyped, Counted, WriterTyped, AttemptsFail, [PathNext]_pathVars
  PROVE  faults' \in {faults, faults + 1} /\ AttemptsFail'
<1>1. attempt \in Nat /\ faults \in Nat /\ job.retry \in Nat /\ MaxFaults \in Nat
  BY BoundsAssumption, JobFacts DEF PathTyped, JobIsGiven, WriterTyped, Counted
<1>2. ASSUME faults' \in {faults, faults + 1}, attempt' \in {attempt, 0}
      PROVE  faults' \in {faults, faults + 1} /\ AttemptsFail'
  BY <1>1, <1>2 DEF AttemptsFail
<1>3. CASE StartPass
  BY <1>2, <1>3 DEF StartPass, ReturnErr, writerVars
<1>4. CASE NextPage \/ RunEtl
  BY <1>2, <1>4 DEF NextPage, RunEtl, ReturnErr, writerVars
<1>5. CASE PushRow \/ Drain
  BY <1>2, <1>5 DEF PushRow, PushUpTo, Drain, writerVars
<1>6. CASE Truncate
  BY <1>2, <1>6 DEF Truncate, Fault, ReturnErr
<1>7. CASE WriteBatch
  <2>1. \/ faults' \in {faults, faults + 1} /\ attempt' = 0
        \/ faults' = faults + 1 /\ attempt' = attempt + 1
    BY <1>7 DEF WriteBatch, Fault, ReturnErr
  <2>2. QED BY <1>1, <2>1 DEF AttemptsFail
<1>8. CASE Save \/ SourceInsert \/ NeighbourSaves \/ Crash \/ Restart \/ UNCHANGED pathVars
  BY <1>2, <1>8 DEF Save, SourceInsert, NeighbourSaves, Crash, Restart, pathVars, passVars, writerVars
<1>9. QED BY <1>3, <1>4, <1>5, <1>6, <1>7, <1>8 DEF PathNext, PathStep

LEMMA AttemptsAlwaysFail == PathSpec => []AttemptsFail
<1>1. PathInit => AttemptsFail
  BY DEF PathInit, AttemptsFail
<1>2. DataInv /\ AttemptsFail /\ [PathNext]_pathVars => AttemptsFail'
  BY FaultsAreCounted DEF DataInv
<1>3. QED BY <1>1, <1>2, DataInvariant, PTL DEF PathSpec

LEMMA ClashIsMutual ==
  ASSUME NEW r, NEW s, KeyClash(r, s)
  PROVE  KeyClash(s, r)
<1> DEFINE table == job.tables[job.table]
           a == AsInserted(job.target, table, r)
           b == AsInserted(job.target, table, s)
<1>1. SameKey(a, b, job.pk)
  BY DEF KeyClash
<1> HIDE DEF a, b
<1>2. SameKey(b, a, job.pk)
  BY <1>1 DEF SameKey
<1>3. QED BY <1>2 DEF KeyClash, a, b

\* Of the rows the query selects, a page has the next ones, in their order.
LEMMA PageIsNext ==
  ASSUME NEW S, S \subseteq Nat, NEW all \in Seq(S), Increases(all), offset \in Nat, job.page \in Nat \ {0}
  PROVE  /\ Increases(Page(all))
         /\ \A k \in 1..Len(Page(all)) : \E l \in 1..Len(all) : /\ offset < l /\ l <= offset + job.page
                                                                 /\ Page(all)[k] = all[l]
<1> DEFINE L == Len(all)
           last == IF offset + job.page < L THEN offset + job.page ELSE L
           page == SubSeq(all, offset + 1, last)
<1>0. Page(all) = page
  BY DEF Page
<1>1. L \in Nat /\ offset \in Nat /\ job.page \in Nat \ {0}
  BY LenProperties
<1>2. \A k \in 1..L : all[k] \in S
  BY LenProperties, ElementOfSeq
<1>3. last \in Nat /\ last <= L /\ last <= offset + job.page
  BY <1>1
<1> HIDE DEF last, L
<1>4. \A i \in (offset + 1)..last : all[i] \in S
  BY <1>1, <1>2, <1>3
<1>5. /\ Len(page) = IF offset + 1 <= last THEN last - (offset + 1) + 1 ELSE 0
      /\ \A i \in 1..(last - (offset + 1) + 1) : page[i] = all[(offset + 1) + i - 1]
  <2> DEFINE p == offset + 1
  <2>1. p \in Int /\ last \in Int /\ \A i \in p..last : all[i] \in S
    BY <1>1, <1>3, <1>4
  <2> HIDE DEF p
  <2>2. /\ Len(SubSeq(all, p, last)) = IF p <= last THEN last - p + 1 ELSE 0
        /\ \A i \in 1..(last - p + 1) : SubSeq(all, p, last)[i] = all[p + i - 1]
    BY <2>1, SubSeqProperties
  <2>3. QED BY <2>2 DEF p
<1> HIDE DEF page
<1>6. ASSUME NEW k \in 1..Len(page)
      PROVE  page[k] = all[offset + k] /\ offset + k \in 1..L /\ offset < offset + k /\ offset + k <= offset + job.page
  <2>1. offset + 1 <= last /\ k \in 1..(last - (offset + 1) + 1)
    BY <1>1, <1>3, <1>5
  <2>2. (offset + 1) + k - 1 = offset + k
    BY <1>1, <2>1
  <2>3. page[k] = all[offset + k]
    BY <1>5, <2>1, <2>2
  <2>4. offset + k <= last
    BY <1>1, <1>3, <2>1
  <2>5. QED BY <1>1, <1>3, <2>1, <2>3, <2>4
<1>7. Increases(page)
  <2> SUFFICES ASSUME NEW k \in 1..Len(page), NEW l \in 1..Len(page), k < l PROVE page[k] < page[l]
    BY DEF Increases
  <2>1. offset + k < offset + l
    BY <1>1
  <2>2. QED BY <1>6, <2>1 DEF Increases, L
<1>8. \A k \in 1..Len(page) : \E l \in 1..L : offset < l /\ l <= offset + job.page /\ page[k] = all[l]
  BY <1>6
<1>9. QED BY <1>0, <1>7, <1>8 DEF L

\* The outputs of a row, at their places.
PlaceOf(i, k) == <<i, k, Outputs(i).ok[k]>>

LEMMA OutputsHavePlaces ==
  ASSUME JobIsGiven, NEW i \in 1..Len(job.rows), IsOk(Outputs(i)), NEW k \in 1..Len(PutOut(i))
  PROVE  /\ PlaceOf(i, k) \in Places
         /\ TableAt(PlaceOf(i, k)) = PutOut(i)[k].table /\ RowAt(PlaceOf(i, k)) = PutOut(i)[k].row
<1> DEFINE rows == Outputs(i).ok
<1>1. /\ Len(PutOut(i)) = Len(rows) /\ Len(rows) \in Nat
      /\ PutOut(i)[k].table = target_table(rows[k].table, job.table)
      /\ PutOut(i)[k].row = rows[k].row
  BY PutOutIsOutputs
<1>2. DOMAIN rows = 1..Len(rows)
  BY OutputsAreSeq, SeqLen
<1>3. k \in DOMAIN rows
  BY <1>1, <1>2
<1>4. PlaceOf(i, k) \in Places
  BY <1>3 DEF Places, PlaceOf
<1>5. QED BY <1>1, <1>4 DEF TableAt, RowAt, PlaceOf

\* A step that changes nothing of what is on its way, and after which no row
\* comes that did not come before.
LEMMA WayStays ==
  ASSUME OnItsWay, job' = job, out' = out, buckets' = buckets, batch' = batch,
         \A i : Coming(i)' => Coming(i)
  PROVE  OnItsWay'
<1>1. /\ Places' = Places
      /\ \A p : RowAt(p)' = RowAt(p) /\ TableAt(p)' = TableAt(p)
      /\ \A r, s : KeyClash(r, s)' <=> KeyClash(r, s)
      /\ \A row, t : IsRowFor(row, t)' <=> IsRowFor(row, t)
  BY WellSetStays
<1>2. BucketOf' = BucketOf /\ BatchOf' = BatchOf
  BY DEF BucketOf, BatchOf
<1>3. \A k : IsOwn(k)' <=> IsOwn(k)
  BY DEF IsOwn
<1>4. RowsAreOutputs'
  BY <1>1 DEF OnItsWay, RowsAreOutputs
<1>5. RowsApart'
  BY <1>1, <1>2, <1>3 DEF OnItsWay, RowsApart, Apart
<1>6. NoneComesAgain'
  <2> SUFFICES ASSUME NEW p \in Places', TableAt(p)' = job'.table, Coming(p[1])'
               PROVE  /\ \A n \in 1..Len(BucketOf)' : (~KeyClash(BucketOf[n], RowAt(p)))'
                      /\ \A k \in 1..Len(out)' : IsOwn(k)' => (~KeyClash(out[k].row, RowAt(p)))'
    BY DEF NoneComesAgain
  <2>1. p \in Places /\ TableAt(p) = job.table /\ Coming(p[1])
    BY <1>1
  <2>2. /\ \A n \in 1..Len(BucketOf) : ~KeyClash(BucketOf[n], RowAt(p))
        /\ \A k \in 1..Len(out) : IsOwn(k) => ~KeyClash(out[k].row, RowAt(p))
    BY <2>1 DEF OnItsWay, NoneComesAgain
  <2>3. QED BY <1>1, <1>2, <1>3, <2>2
<1>7. QED BY <1>4, <1>5, <1>6 DEF OnItsWay

\* Nothing on its way, nothing wrong with it.
WayIsClear == out = <<>> /\ buckets = <<>> /\ batch = NoBatch
LEMMA NothingOnItsWay == WayIsClear => OnItsWay
<1> SUFFICES ASSUME WayIsClear PROVE OnItsWay
  OBVIOUS
<1>0. batch.rows = <<>> /\ DOMAIN buckets = {}
  <2>1. NoBatch.rows = <<>>
    BY DEF NoBatch
  <2>2. DOMAIN <<>> = {}
    OBVIOUS
  <2>3. QED BY <2>1, <2>2 DEF WayIsClear
<1>1. Len(out) = 0 /\ BucketOf = <<>> /\ BatchOf = <<>>
  BY <1>0 DEF WayIsClear, BucketOf, BatchOf
<1>2. 1..Len(BucketOf) = {} /\ 1..Len(BatchOf) = {} /\ 1..Len(out) = {} /\ 1..Len(batch.rows) = {}
  BY <1>0, <1>1
<1>3. QED BY <1>0, <1>2 DEF OnItsWay, RowsAreOutputs, RowsApart, NoneComesAgain, Apart

\* The outputs of the next row: no row of the job's has the key of another.
LEMMA EtlGoesWell ==
  ASSUME PathTyped, Grown, NewestInv, WellSet, GoesWell, RunEtl
  PROVE  GoesWell'
<1>0. /\ job' = job /\ have' = have /\ up' = up /\ step = "rows" /\ out = <<>> /\ batch = NoBatch
      /\ JobIsGiven /\ have \in Nat /\ have <= Len(job.rows) /\ todo \in Seq(1..have) /\ Len(job.rows) \in Nat
  BY Numbers DEF RunEtl, sourceVars, PathTyped, JobIsGiven, Grown
<1>1. MarkType' = MarkType /\ (UsesMark' <=> UsesMark)
  BY <1>0, JobStays
<1>2. CASE todo = <<>>
  <2>1. /\ step' = "reading" /\ low' = low /\ offset' = offset /\ todo' = todo /\ out' = out
        /\ buckets' = buckets /\ batch' = batch /\ erred' = erred
    BY <1>2 DEF RunEtl
  <2>2. Asked' = Asked
    BY <1>0, <2>1, AskedStays
  <2>3. ReadsOn'
    BY <1>0, <1>1, <2>1 DEF GoesWell, ReadsOn, InPass, CanCompare
  <2>4. InOrder'
    BY <1>0, <1>2, <2>1, <2>2 DEF GoesWell, InOrder, InPass, Increases
  <2>5. \A i : Coming(i)' => Coming(i)
    BY <1>0, <2>1, <2>2 DEF Coming, InPass
  <2>6. OnItsWay'
    BY <1>0, <2>1, <2>5, WayStays DEF GoesWell
  <2>7. QED BY <2>1, <2>3, <2>4, <2>6 DEF GoesWell
<1>3. CASE todo # <<>>
  <2>0. PICK i : i = todo[1]
    OBVIOUS
  <2>1. /\ i \in 1..have /\ i \in ToSet(todo) /\ 1 \in 1..Len(todo) /\ Len(todo) \in Nat
        /\ DOMAIN todo = 1..Len(todo)
    <3>1. i \in ToSet(todo)
      BY <1>0, <1>3, <2>0, FirstIsElement
    <3>2. ToSet(todo) \subseteq 1..have
      BY <1>0, ToSetIn
    <3>3. Len(todo) \in Nat /\ Len(todo) # 0 /\ DOMAIN todo = 1..Len(todo)
      BY <1>0, <1>3, EmptySeq, LenProperties
    <3>4. QED BY <3>1, <3>2, <3>3
  <2>2. i \in 1..Len(job.rows)
    BY <1>0, <2>1
  <2>3. IsOk(Outputs(i))
    BY <2>2 DEF WellSet
  <2>4. /\ step' = step /\ low' = low /\ offset' = offset /\ todo' = Tail(todo) /\ out' = PutOut(i)
        /\ buckets' = buckets /\ batch' = batch /\ erred' = erred
    BY <1>3, <2>0, <2>3 DEF RunEtl, PutOut
  <2>5. Asked' = Asked
    BY <1>0, <2>4, AskedStays
  <2>6. /\ Len(todo') \in Nat /\ todo' \in Seq(1..have)
        /\ \A k \in 1..Len(todo') : k + 1 \in 1..Len(todo) /\ todo'[k] = todo[k + 1]
    <3>1. /\ Tail(todo) \in Seq(1..have) /\ Len(Tail(todo)) = Len(todo) - 1
          /\ \A k \in 1..Len(Tail(todo)) : Tail(todo)[k] = todo[k + 1]
      BY <1>0, <1>3, HeadTailProperties
    <3>2. \A k \in 1..(Len(todo) - 1) : k + 1 \in 1..Len(todo)
      BY <2>1
    <3>3. Len(todo) - 1 \in Nat
      BY <2>1
    <3>4. QED BY <2>4, <3>1, <3>2, <3>3
  <2>7. ReadsOn'
    BY <1>0, <1>1, <2>4 DEF GoesWell, ReadsOn, InPass, CanCompare
  <2>8. InOrder'
    <3>1. Increases(todo)'
      <4> SUFFICES ASSUME NEW k \in 1..Len(todo'), NEW l \in 1..Len(todo'), k < l PROVE todo'[k] < todo'[l]
        BY DEF Increases
      <4>1. k + 1 < l + 1
        OBVIOUS
      <4>2. QED BY <2>6, <4>1 DEF GoesWell, InOrder, Increases
    <3>2. \A k \in 1..Len(todo') : \A l \in 1..Len(Asked) : offset < l => todo'[k] < Asked[l]
      BY <1>0, <2>6 DEF GoesWell, InOrder, InPass
    <3>3. QED BY <1>0, <2>4, <2>5, <3>1, <3>2 DEF InOrder
  <2>9. \A j : Coming(j)' => Coming(j) /\ j # i
    <3> SUFFICES ASSUME NEW j, Coming(j)' PROVE Coming(j) /\ j # i
      OBVIOUS
    <3>1. CASE j \in ToSet(todo')
      <4>1. PICK k \in 1..Len(todo') : j = todo'[k]
        BY <2>6, <3>1, LenProperties DEF ToSet
      <4>2. j = todo[k + 1] /\ k + 1 \in 1..Len(todo) /\ 1 < k + 1
        BY <2>6, <4>1
      <4>3. i < j /\ i \in Int
        BY <2>0, <2>1, <4>2 DEF GoesWell, InOrder, Increases
      <4>4. j \in ToSet(todo)
        BY <2>1, <4>2 DEF ToSet
      <4>5. j \in Int
        BY <1>0, <4>4, ToSetIn
      <4>6. QED BY <1>0, <4>3, <4>4, <4>5 DEF Coming, InPass
    <3>2. CASE j \notin ToSet(todo')
      <4>1. PICK k \in 1..Len(Asked) : offset < k /\ j = Asked[k]
        BY <2>4, <2>5, <3>2 DEF Coming
      <4>2. i < j
        BY <1>0, <2>0, <2>1, <4>1 DEF GoesWell, InOrder, InPass
      <4>3. i # j
        <5>1. Asked \in Seq(1..have)
          BY <1>0, AskedTyped
        <5>2. j \in 1..have
          BY <4>1, <5>1, ElementOfSeq
        <5>3. QED BY <1>0, <2>1, <4>2, <5>2
      <4>4. QED BY <1>0, <4>1, <4>3 DEF Coming, InPass
    <3>3. QED BY <3>1, <3>2
  <2>10. Coming(i)
    BY <1>0, <2>1 DEF Coming, InPass
  <2>11. \A k \in 1..Len(PutOut(i)) : /\ PlaceOf(i, k) \in Places
                                      /\ TableAt(PlaceOf(i, k)) = PutOut(i)[k].table /\ RowAt(PlaceOf(i, k)) = PutOut(i)[k].row
    BY <1>0, <2>2, <2>3, OutputsHavePlaces
  <2>12. \A p, q \in Places : p # q /\ TableAt(p) = job.table /\ TableAt(q) = job.table => ~KeyClash(RowAt(p), RowAt(q))
    BY DEF WellSet, KeyIsGood
  <2>13. /\ Places' = Places
         /\ \A p : RowAt(p)' = RowAt(p) /\ TableAt(p)' = TableAt(p)
         /\ \A r, s : KeyClash(r, s)' <=> KeyClash(r, s)
         /\ \A row, t : IsRowFor(row, t)' <=> IsRowFor(row, t)
    BY <1>0, WellSetStays
  <2>14. BucketOf' = BucketOf /\ BatchOf' = BatchOf
    BY <1>0, <2>4 DEF BucketOf, BatchOf
  <2>15. RowsAreOutputs'
    <3>1. \A k \in 1..Len(out') : IsRowFor(out'[k].row, out'[k].table)
      BY <2>4, <2>11 DEF IsRowFor
    <3>2. QED BY <2>4, <2>13, <3>1 DEF GoesWell, OnItsWay, RowsAreOutputs
  <2>16. RowsApart'
    <3>1. \A k, l \in 1..Len(out') : k # l /\ out'[k].table = job.table /\ out'[l].table = job.table
             => ~KeyClash(out'[k].row, out'[l].row)
      <4> SUFFICES ASSUME NEW k \in 1..Len(PutOut(i)), NEW l \in 1..Len(PutOut(i)), k # l,
                          PutOut(i)[k].table = job.table, PutOut(i)[l].table = job.table
                   PROVE  ~KeyClash(PutOut(i)[k].row, PutOut(i)[l].row)
        BY <2>4
      <4>1. PlaceOf(i, k) # PlaceOf(i, l)
        BY DEF PlaceOf
      <4>2. QED BY <2>11, <2>12, <4>1
    <3>2. \A n \in 1..Len(BucketOf) : \A k \in 1..Len(out') : out'[k].table = job.table => ~KeyClash(BucketOf[n], out'[k].row)
      <4> SUFFICES ASSUME NEW n \in 1..Len(BucketOf), NEW k \in 1..Len(PutOut(i)), PutOut(i)[k].table = job.table
                   PROVE  ~KeyClash(BucketOf[n], PutOut(i)[k].row)
        BY <2>4
      <4>1. PlaceOf(i, k)[1] = i
        BY DEF PlaceOf
      <4>2. QED BY <2>10, <2>11, <4>1 DEF GoesWell, OnItsWay, NoneComesAgain
    <3>3. QED BY <1>0, <2>13, <2>14, <3>1, <3>2 DEF GoesWell, OnItsWay, RowsApart, IsOwn, Apart
  <2>17. NoneComesAgain'
    <3> SUFFICES ASSUME NEW p \in Places', TableAt(p)' = job'.table, Coming(p[1])'
                 PROVE  /\ \A n \in 1..Len(BucketOf)' : (~KeyClash(BucketOf[n], RowAt(p)))'
                        /\ \A k \in 1..Len(out)' : IsOwn(k)' => (~KeyClash(out[k].row, RowAt(p)))'
      BY DEF NoneComesAgain
    <3>1. p \in Places /\ TableAt(p) = job.table /\ Coming(p[1]) /\ p[1] # i
      BY <1>0, <2>9, <2>13
    <3>2. \A n \in 1..Len(BucketOf) : ~KeyClash(BucketOf[n], RowAt(p))
      BY <3>1 DEF GoesWell, OnItsWay, NoneComesAgain
    <3>3. ASSUME NEW k \in 1..Len(PutOut(i)), PutOut(i)[k].table = job.table
          PROVE  ~KeyClash(PutOut(i)[k].row, RowAt(p))
      <4>1. PlaceOf(i, k) # p
        BY <3>1 DEF PlaceOf
      <4>2. QED BY <2>11, <2>12, <3>1, <3>3, <4>1
    <3>4. QED BY <1>0, <2>4, <2>13, <2>14, <3>2, <3>3 DEF IsOwn
  <2>18. QED BY <1>0, <2>4, <2>7, <2>8, <2>15, <2>16, <2>17 DEF GoesWell, OnItsWay
<1>4. QED BY <1>2, <1>3

\* A row goes to its bucket, and a full bucket to the batch.
LEMMA PushGoesWell ==
  ASSUME PathTyped, Bucketed, NewestInv, WellSet, GoesWell, PushRow
  PROVE  GoesWell'
<1> DEFINE t == Head(out).table
           row == Head(out).row
           old == IF t \in DOMAIN buckets THEN buckets[t] ELSE <<>>
           bucket == Append(old, row)
           full == Len(bucket) >= job.threshold
<1>0. /\ job' = job /\ have' = have /\ step' = step /\ step = "rows" /\ out # <<>> /\ batch = NoBatch
      /\ low' = low /\ offset' = offset /\ todo' = todo /\ erred' = erred /\ out' = Tail(out)
      /\ buckets' = IF full THEN Without(buckets, t) ELSE With(buckets, t, bucket)
      /\ batch' = IF full THEN [table |-> t, rows |-> bucket] ELSE NoBatch
  BY DEF PushRow, PushUpTo, sourceVars
<1>1. Asked' = Asked /\ MarkType' = MarkType /\ (UsesMark' <=> UsesMark)
  BY <1>0, AskedStays, JobStays
<1>2. ReadsOn' /\ InOrder'
  BY <1>0, <1>1 DEF GoesWell, ReadsOn, InOrder, InPass, CanCompare, Increases
<1>3. \A i : Coming(i)' => Coming(i)
  BY <1>0, <1>1 DEF Coming, InPass
<1>4. /\ 1 \in 1..Len(out) /\ Len(out) \in Nat /\ Head(out) = out[1]
      /\ \A k \in 1..Len(out') : k + 1 \in 1..Len(out) /\ k + 1 # 1 /\ out'[k] = out[k + 1]
  <2>1. PICK S : out \in Seq(S)
    BY DEF GoesWell, NewestInv, IsSending, IsSeq
  <2>2. /\ Len(Tail(out)) = Len(out) - 1
        /\ \A i \in 1..Len(Tail(out)) : Tail(out)[i] = out[i + 1]
    BY <1>0, <2>1, HeadTailProperties
  <2>3. Len(out) \in Nat \ {0}
    BY <1>0, <2>1, EmptySeq, LenProperties
  <2>4. Head(out) = out[1]
    BY <2>1
  <2>5. \A k \in 1..(Len(out) - 1) : k + 1 \in 1..Len(out) /\ k + 1 # 1
    BY <2>3
  <2>6. QED BY <1>0, <2>2, <2>3, <2>4, <2>5
<1>5. /\ IsRowFor(row, t)
      /\ t = job.table => \A k \in 1..Len(out') : out'[k].table = job.table => ~KeyClash(row, out'[k].row)
      /\ t = job.table => \A n \in 1..Len(BucketOf) : ~KeyClash(BucketOf[n], row)
      /\ \A p \in Places : TableAt(p) = job.table /\ Coming(p[1]) /\ t = job.table => ~KeyClash(row, RowAt(p))
  <2>1. IsRowFor(row, t)
    BY <1>4 DEF GoesWell, OnItsWay, RowsAreOutputs
  <2>2. t = job.table => IsOwn(1)
    BY <1>4 DEF IsOwn
  <2>3. \A k \in 1..Len(out') : out'[k].table = job.table => IsOwn(k + 1)
    BY <1>4 DEF IsOwn
  <2>4. ASSUME t = job.table, NEW k \in 1..Len(out'), out'[k].table = job.table
        PROVE  ~KeyClash(row, out'[k].row)
    <3>1. k + 1 \in 1..Len(out) /\ 1 # k + 1 /\ IsOwn(1) /\ IsOwn(k + 1) /\ out'[k] = out[k + 1] /\ row = out[1].row
      BY <1>4, <2>2, <2>3, <2>4
    <3> HIDE DEF row, t
    <3>2. QED BY <1>4, <3>1 DEF GoesWell, OnItsWay, RowsApart
  <2>5. t = job.table => \A n \in 1..Len(BucketOf) : ~KeyClash(BucketOf[n], row)
    BY <1>4, <2>2 DEF GoesWell, OnItsWay, RowsApart
  <2>6. \A p \in Places : TableAt(p) = job.table /\ Coming(p[1]) /\ t = job.table => ~KeyClash(row, RowAt(p))
    BY <1>4, <2>2 DEF GoesWell, OnItsWay, NoneComesAgain
  <2>7. QED BY <2>1, <2>4, <2>5, <2>6
<1>6. /\ IsSeq(old) /\ Len(old) \in Nat
      /\ Len(bucket) = Len(old) + 1 /\ bucket[Len(old) + 1] = row /\ \A n \in 1..Len(old) : bucket[n] = old[n]
  <2>1. IsSeq(old)
    <3>1. \A k \in DOMAIN buckets : IsSeq(buckets[k])
      BY DEF Bucketed, BucketFits, IsSeq
    <3>2. IsSeq(<<>>)
      BY SingleIsSeq
    <3> HIDE DEF t
    <3>3. QED BY <3>1, <3>2
  <2> HIDE DEF old, row
  <2>2. PICK S : old \in Seq(S)
    BY <2>1 DEF IsSeq
  <2>3. old \in Seq(S \cup {row}) /\ row \in S \cup {row}
    BY <2>2
  <2>4. QED BY <2>1, <2>3, AppendProperties, LenProperties
<1>7. /\ \A n \in 1..Len(old) : IsRowFor(old[n], t)
      /\ t = job.table => old = BucketOf
  <2>1. t = job.table => old = BucketOf
    BY DEF BucketOf
  <2>2. CASE t \in DOMAIN buckets
    BY <2>1, <2>2 DEF GoesWell, OnItsWay, RowsAreOutputs
  <2>3. CASE t \notin DOMAIN buckets
    <3>1. old = <<>>
      BY <2>3
    <3> HIDE DEF old
    <3>2. 1..Len(old) = {}
      BY <3>1
    <3>3. QED BY <2>1, <3>2
  <2>4. QED BY <2>1, <2>2, <2>3
<1>8. \A n \in 1..Len(bucket) : n \in 1..Len(old) \/ n = Len(old) + 1
  <2> HIDE DEF bucket, old
  <2>1. QED BY <1>6
<1>9. /\ \A n \in 1..Len(bucket) : IsRowFor(bucket[n], t)
      /\ t = job.table => /\ Apart(bucket)
                          /\ \A n \in 1..Len(bucket) : \A k \in 1..Len(out') :
                                out'[k].table = job.table => ~KeyClash(bucket[n], out'[k].row)
                          /\ \A n \in 1..Len(bucket) : \A p \in Places :
                                TableAt(p) = job.table /\ Coming(p[1]) => ~KeyClash(bucket[n], RowAt(p))
  <2> HIDE DEF bucket, old, row, t
  <2>1. \A n \in 1..Len(bucket) : IsRowFor(bucket[n], t)
    BY <1>5, <1>6, <1>7, <1>8
  <2>2. SUFFICES ASSUME t = job.table
                 PROVE  /\ Apart(bucket)
                        /\ \A n \in 1..Len(bucket) : \A k \in 1..Len(out') :
                              out'[k].table = job.table => ~KeyClash(bucket[n], out'[k].row)
                        /\ \A n \in 1..Len(bucket) : \A p \in Places :
                              TableAt(p) = job.table /\ Coming(p[1]) => ~KeyClash(bucket[n], RowAt(p))
    BY <2>1
  <2>3. old = BucketOf
    BY <1>7, <2>2
  <2>4. Apart(bucket)
    <3> SUFFICES ASSUME NEW n \in 1..Len(bucket), NEW m \in 1..Len(bucket), n # m PROVE ~KeyClash(bucket[n], bucket[m])
      BY DEF Apart
    <3>1. CASE n \in 1..Len(old) /\ m \in 1..Len(old)
      BY <1>6, <2>3, <3>1 DEF GoesWell, OnItsWay, RowsApart, Apart
    <3>2. CASE n \in 1..Len(old) /\ m = Len(old) + 1
      BY <1>5, <1>6, <2>2, <2>3, <3>2
    <3>3. CASE n = Len(old) + 1 /\ m \in 1..Len(old)
      <4>1. ~KeyClash(old[m], row)
        BY <1>5, <2>2, <2>3, <3>3
      <4>2. ~KeyClash(row, old[m])
        BY <4>1, ClashIsMutual
      <4>3. QED BY <1>6, <3>3, <4>2
    <3>4. QED BY <1>8, <3>1, <3>2, <3>3
  <2>5. ASSUME NEW n \in 1..Len(bucket), NEW k \in 1..Len(out'), out'[k].table = job.table
        PROVE  ~KeyClash(bucket[n], out'[k].row)
    <3>1. CASE n \in 1..Len(old)
      <4>1. k + 1 \in 1..Len(out) /\ out'[k] = out[k + 1] /\ IsOwn(k + 1)
        BY <1>4, <2>5 DEF IsOwn
      <4>2. ~KeyClash(old[n], out[k + 1].row)
        BY <2>3, <3>1, <4>1 DEF GoesWell, OnItsWay, RowsApart
      <4>3. QED BY <1>6, <3>1, <4>1, <4>2
    <3>2. CASE n = Len(old) + 1
      BY <1>5, <1>6, <2>2, <2>5, <3>2
    <3>3. QED BY <1>8, <3>1, <3>2
  <2>6. ASSUME NEW n \in 1..Len(bucket), NEW p \in Places, TableAt(p) = job.table, Coming(p[1])
        PROVE  ~KeyClash(bucket[n], RowAt(p))
    <3>1. CASE n \in 1..Len(old)
      BY <1>6, <2>3, <2>6, <3>1 DEF GoesWell, OnItsWay, NoneComesAgain
    <3>2. CASE n = Len(old) + 1
      BY <1>5, <1>6, <2>2, <2>6, <3>2
    <3>3. QED BY <1>8, <3>1, <3>2
  <2>7. QED BY <2>4, <2>5, <2>6
<1>10. /\ BucketOf' = IF t = job.table THEN IF full THEN <<>> ELSE bucket ELSE BucketOf
       /\ BatchOf' = IF t = job.table /\ full THEN bucket ELSE <<>>
  <2> HIDE DEF bucket, t, full
  <2>1. CASE full
    BY <1>0, <2>1 DEF BucketOf, BatchOf, Without
  <2>2. CASE ~full
    <3>1. NoBatch.rows = <<>>
      BY DEF NoBatch
    <3>2. QED BY <1>0, <2>2, <3>1 DEF BucketOf, BatchOf, With
  <2>3. QED BY <2>1, <2>2
<1>11. /\ Places' = Places
       /\ \A p : RowAt(p)' = RowAt(p) /\ TableAt(p)' = TableAt(p)
       /\ \A r, s : KeyClash(r, s)' <=> KeyClash(r, s)
       /\ \A r, s : IsRowFor(r, s)' <=> IsRowFor(r, s)
  BY <1>0, WellSetStays
<1> HIDE DEF t, row, old, bucket, full
<1>12. RowsAreOutputs'
  <2>1. \A k \in DOMAIN buckets' : (k = t /\ buckets'[k] = bucket) \/ (k \in DOMAIN buckets /\ buckets'[k] = buckets[k])
    BY <1>0 DEF With, Without
  <2>2. \A k \in DOMAIN buckets' : \A n \in 1..Len(buckets'[k]) : IsRowFor(buckets'[k][n], k)
    BY <1>9, <2>1 DEF GoesWell, OnItsWay, RowsAreOutputs
  <2>3. \A n \in 1..Len(batch'.rows) : IsRowFor(batch'.rows[n], batch'.table)
    <3>1. CASE full
      BY <1>0, <1>9, <3>1
    <3>2. CASE ~full
      <4>1. batch' = batch
        BY <1>0, <3>2
      <4>2. QED BY <4>1 DEF GoesWell, OnItsWay, RowsAreOutputs
    <3>3. QED BY <3>1, <3>2
  <2>4. \A k \in 1..Len(out') : IsRowFor(out'[k].row, out'[k].table)
    BY <1>4 DEF GoesWell, OnItsWay, RowsAreOutputs
  <2>5. QED BY <1>11, <2>2, <2>3, <2>4 DEF RowsAreOutputs
<1>13. 1..Len(<<>>) = {} /\ Apart(<<>>)
  BY DEF Apart
<1>14. RowsApart'
  <2>1. \A k, l \in 1..Len(out') : k # l /\ out'[k].table = job.table /\ out'[l].table = job.table
           => ~KeyClash(out'[k].row, out'[l].row)
    <3> SUFFICES ASSUME NEW k \in 1..Len(out'), NEW l \in 1..Len(out'), k # l,
                        out'[k].table = job.table, out'[l].table = job.table
                 PROVE  ~KeyClash(out'[k].row, out'[l].row)
      OBVIOUS
    <3>1. k + 1 # l + 1 /\ IsOwn(k + 1) /\ IsOwn(l + 1)
      BY <1>4 DEF IsOwn
    <3>2. QED BY <1>4, <3>1 DEF GoesWell, OnItsWay, RowsApart
  <2>2. \A n \in 1..Len(BucketOf) : \A k \in 1..Len(out') : out'[k].table = job.table => ~KeyClash(BucketOf[n], out'[k].row)
    BY <1>4 DEF GoesWell, OnItsWay, RowsApart, IsOwn
  <2>3. Apart(BucketOf) /\ (t = job.table => Apart(bucket))
    BY <1>9 DEF GoesWell, OnItsWay, RowsApart
  <2>4. \A n \in 1..Len(BucketOf') : \A k \in 1..Len(out') : out'[k].table = job.table => ~KeyClash(BucketOf'[n], out'[k].row)
    BY <1>9, <1>10, <1>13, <2>2
  <2>5. \A n, m \in 1..Len(BucketOf') : n # m => ~KeyClash(BucketOf'[n], BucketOf'[m])
    BY <1>10, <1>13, <2>3 DEF Apart
  <2>6. \A n, m \in 1..Len(BatchOf') : n # m => ~KeyClash(BatchOf'[n], BatchOf'[m])
    BY <1>10, <1>13, <2>3 DEF Apart
  <2>7. QED BY <1>0, <1>11, <2>1, <2>4, <2>5, <2>6 DEF RowsApart, IsOwn, Apart
<1>15. NoneComesAgain'
  <2> SUFFICES ASSUME NEW p \in Places', TableAt(p)' = job'.table, Coming(p[1])'
               PROVE  /\ \A n \in 1..Len(BucketOf)' : (~KeyClash(BucketOf[n], RowAt(p)))'
                      /\ \A k \in 1..Len(out)' : IsOwn(k)' => (~KeyClash(out[k].row, RowAt(p)))'
    BY DEF NoneComesAgain
  <2>1. p \in Places /\ TableAt(p) = job.table /\ Coming(p[1])
    BY <1>0, <1>3, <1>11
  <2>2. /\ \A n \in 1..Len(BucketOf) : ~KeyClash(BucketOf[n], RowAt(p))
        /\ \A k \in 1..Len(out) : IsOwn(k) => ~KeyClash(out[k].row, RowAt(p))
    BY <2>1 DEF GoesWell, OnItsWay, NoneComesAgain
  <2>3. \A n \in 1..Len(BucketOf') : ~KeyClash(BucketOf'[n], RowAt(p))
    BY <1>9, <1>10, <1>13, <2>1, <2>2
  <2>4. \A k \in 1..Len(out') : out'[k].table = job.table => ~KeyClash(out'[k].row, RowAt(p))
    BY <1>4, <2>2 DEF IsOwn
  <2>5. QED BY <1>0, <1>11, <2>3, <2>4 DEF IsOwn
<1>16. QED BY <1>0, <1>2, <1>12, <1>14, <1>15 DEF GoesWell, OnItsWay

\* The rest of a bucket becomes the batch.
LEMMA DrainGoesWell ==
  ASSUME NewestInv, WellSet, GoesWell, Drain
  PROVE  GoesWell'
<1>1. PICK t \in DOMAIN buckets : batch' = [table |-> t, rows |-> buckets[t]] /\ buckets' = Without(buckets, t)
  BY DEF Drain
<1>2. /\ job' = job /\ have' = have /\ step' = step /\ step = "draining" /\ batch = NoBatch
      /\ low' = low /\ offset' = offset /\ todo' = todo /\ erred' = erred /\ out' = out
  BY DEF Drain, sourceVars
<1>3. Asked' = Asked /\ MarkType' = MarkType /\ (UsesMark' <=> UsesMark)
  BY <1>2, AskedStays, JobStays
<1>4. ReadsOn' /\ InOrder'
  BY <1>2, <1>3 DEF GoesWell, ReadsOn, InOrder, InPass, CanCompare, Increases
<1>5. \A i : Coming(i)' => Coming(i)
  BY <1>2, <1>3 DEF Coming, InPass
<1>6. /\ Places' = Places
      /\ \A p : RowAt(p)' = RowAt(p) /\ TableAt(p)' = TableAt(p)
      /\ \A r, s : KeyClash(r, s)' <=> KeyClash(r, s)
      /\ \A r, s : IsRowFor(r, s)' <=> IsRowFor(r, s)
  BY <1>2, WellSetStays
<1>7. BucketOf' \in {BucketOf, <<>>} /\ BatchOf' \in {BucketOf, <<>>}
  BY <1>1, <1>2 DEF BucketOf, BatchOf, Without
<1>8. 1..Len(<<>>) = {} /\ Apart(<<>>)
  BY DEF Apart
<1>9. RowsAreOutputs'
  <2>1. \A k \in DOMAIN buckets' : k \in DOMAIN buckets /\ buckets'[k] = buckets[k]
    BY <1>1 DEF Without
  <2>2. \A k \in DOMAIN buckets' : \A n \in 1..Len(buckets'[k]) : IsRowFor(buckets'[k][n], k)
    BY <2>1 DEF GoesWell, OnItsWay, RowsAreOutputs
  <2>3. \A n \in 1..Len(batch'.rows) : IsRowFor(batch'.rows[n], batch'.table)
    BY <1>1 DEF GoesWell, OnItsWay, RowsAreOutputs
  <2>4. \A k \in 1..Len(out') : IsRowFor(out'[k].row, out'[k].table)
    BY <1>2 DEF GoesWell, OnItsWay, RowsAreOutputs
  <2>5. QED BY <1>6, <2>2, <2>3, <2>4 DEF RowsAreOutputs
<1>10. RowsApart'
  <2>1. \A n, m \in 1..Len(BucketOf') : n # m => ~KeyClash(BucketOf'[n], BucketOf'[m])
    BY <1>7, <1>8 DEF GoesWell, OnItsWay, RowsApart, Apart
  <2>2. \A n, m \in 1..Len(BatchOf') : n # m => ~KeyClash(BatchOf'[n], BatchOf'[m])
    BY <1>7, <1>8 DEF GoesWell, OnItsWay, RowsApart, Apart
  <2>3. \A n \in 1..Len(BucketOf') : \A k \in 1..Len(out) : IsOwn(k) => ~KeyClash(BucketOf'[n], out[k].row)
    BY <1>7, <1>8 DEF GoesWell, OnItsWay, RowsApart
  <2>4. QED BY <1>2, <1>6, <2>1, <2>2, <2>3 DEF GoesWell, OnItsWay, RowsApart, IsOwn, Apart
<1>11. NoneComesAgain'
  <2> SUFFICES ASSUME NEW p \in Places', TableAt(p)' = job'.table, Coming(p[1])'
               PROVE  /\ \A n \in 1..Len(BucketOf)' : (~KeyClash(BucketOf[n], RowAt(p)))'
                      /\ \A k \in 1..Len(out)' : IsOwn(k)' => (~KeyClash(out[k].row, RowAt(p)))'
    BY DEF NoneComesAgain
  <2>1. p \in Places /\ TableAt(p) = job.table /\ Coming(p[1])
    BY <1>2, <1>5, <1>6
  <2>2. /\ \A n \in 1..Len(BucketOf) : ~KeyClash(BucketOf[n], RowAt(p))
        /\ \A k \in 1..Len(out) : IsOwn(k) => ~KeyClash(out[k].row, RowAt(p))
    BY <2>1 DEF GoesWell, OnItsWay, NoneComesAgain
  <2>3. \A n \in 1..Len(BucketOf') : ~KeyClash(BucketOf'[n], RowAt(p))
    BY <1>7, <1>8, <2>2
  <2>4. QED BY <1>2, <1>6, <2>2, <2>3 DEF IsOwn
<1>12. QED BY <1>2, <1>4, <1>9, <1>10, <1>11 DEF GoesWell, OnItsWay

\* The templates of such a job expand, and its mark can be compared.
LEMMA StartGoesWell ==
  ASSUME PathTyped, Counted, MarksHaveOrigins, NewestInv, WellSet, GoesWell, StartPass
  PROVE  GoesWell'
<1>0. faults \in Nat
  BY BoundsAssumption DEF Counted
<1>1. job' = job /\ step = "idle"
  BY <1>0, StartSteps
<1>2. out = <<>> /\ buckets = <<>> /\ batch = NoBatch /\ todo = <<>>
  BY <1>1 DEF GoesWell, NewestInv, IsSending, InOrder
<1>3. SelectInSeq(Template, LAMBDA token : ~Expands(token)) = 0
  <2>1. {i \in 1..Len(Template) : ~Expands(Template[i])} = {}
    BY DEF WellSet, Template
  <2>2. QED BY <2>1 DEF SelectInSeq
<1>4. /\ step' = "reading" /\ todo' = todo /\ out' = out /\ buckets' = buckets /\ batch' = batch /\ erred' = erred
      /\ \E schema \in {Schema, ""} : low' = IF UsesMark THEN Resolved(schema) ELSE NoMark
  BY <1>3 DEF StartPass
<1>5. step' = "reading" /\ todo' = todo /\ out' = out /\ buckets' = buckets /\ batch' = batch /\ erred' = erred
  BY <1>4
<1>6. ReadsOn'
  <2>0. PICK schema \in {Schema, ""} : low' = IF UsesMark THEN Resolved(schema) ELSE NoMark
    BY <1>4
  <2>1. CanCompare(Resolved(schema))
    BY WellSetCompares
  <2>2. (UsesMark' <=> UsesMark) /\ MarkType' = MarkType
    BY <1>1, JobStays
  <2>3. QED BY <1>1, <2>0, <2>1, <2>2 DEF ReadsOn, CanCompare
<1>7. InOrder'
  <2>1. todo' = <<>> /\ 1..Len(<<>>) = {}
    BY <1>2, <1>5
  <2>2. QED BY <2>1 DEF InOrder, Increases
<1>8. OnItsWay'
  <2>1. WayIsClear'
    BY <1>2, <1>5 DEF WayIsClear, NoBatch
  <2>2. QED BY <2>1, NothingOnItsWay, PTL
<1>9. QED BY <1>6, <1>7, <1>8, <1>5 DEF GoesWell

\* A page: its rows come before those of the pages after it.
LEMMA PageGoesWell ==
  ASSUME PathTyped, NewestInv, WellSet, GoesWell, NextPage
  PROVE  GoesWell'
<1> DEFINE page == Page(Asked)
<1>0. /\ step = "reading" /\ have \in Nat /\ offset \in Nat /\ job.page \in Nat \ {0}
      /\ job' = job /\ have' = have
  BY Numbers, JobFacts DEF NextPage, PathTyped, sourceVars
<1>1. ~(UsesMark /\ ~Comparable(job.source, MarkType, low))
  BY <1>0 DEF GoesWell, ReadsOn, InPass, CanCompare
<1>2. /\ offset' = offset + job.page /\ step' \in {"draining", "rows"} /\ (step' # "rows" => page = <<>>)
      /\ todo' = page /\ low' = low /\ out' = out /\ buckets' = buckets /\ batch' = batch /\ erred' = erred
  BY <1>1 DEF NextPage
<1>3. Asked' = Asked /\ MarkType' = MarkType /\ (UsesMark' <=> UsesMark)
  BY <1>0, <1>2, AskedStays, JobStays
<1>4. Asked \in Seq(1..have) /\ Increases(Asked) /\ 1..have \subseteq Nat
  BY <1>0, AskedTyped
<1>5. page \in Seq(1..have)
  BY <1>0, <1>4, PageTyped
<1>6. /\ Increases(page)
      /\ \A k \in 1..Len(page) : \E l \in 1..Len(Asked) : /\ offset < l /\ l <= offset + job.page
                                                          /\ page[k] = Asked[l]
  BY <1>0, <1>4, PageIsNext
<1> HIDE DEF page
<1>7. Len(Asked) \in Nat
  BY <1>4, LenProperties
<1>8. ReadsOn'
  BY <1>0, <1>2, <1>3 DEF GoesWell, ReadsOn, InPass, CanCompare
<1>9. InOrder'
  <2>1. ASSUME NEW k \in 1..Len(page), NEW l \in 1..Len(Asked), offset + job.page < l
        PROVE  page[k] < Asked[l]
    <3>1. PICK m \in 1..Len(Asked) : m <= offset + job.page /\ page[k] = Asked[m]
      BY <1>6
    <3>2. m < l
      BY <1>0, <1>7, <2>1, <3>1
    <3>3. QED BY <1>4, <3>1, <3>2 DEF Increases
  <2>2. Increases(todo)'
    BY <1>2, <1>6 DEF Increases
  <2>3. QED BY <1>2, <1>3, <2>1, <2>2 DEF InOrder
<1>10. \A i : Coming(i)' => Coming(i)
  <2> SUFFICES ASSUME NEW i, Coming(i)' PROVE \E k \in 1..Len(Asked) : offset < k /\ i = Asked[k]
    BY <1>0 DEF Coming, InPass
  <2>1. CASE i \in ToSet(page)
    <3>1. PICK k \in 1..Len(page) : i = page[k]
      BY <1>5, <2>1, LenProperties DEF ToSet
    <3>2. QED BY <1>6, <3>1
  <2>2. CASE i \notin ToSet(page)
    <3>1. PICK k \in 1..Len(Asked) : offset + job.page < k /\ i = Asked[k]
      BY <1>2, <1>3, <2>2 DEF Coming
    <3>2. offset < k
      BY <1>0, <1>7, <3>1
    <3>3. QED BY <3>1, <3>2
  <2>3. QED BY <2>1, <2>2
<1>11. OnItsWay'
  BY <1>0, <1>2, <1>10, WayStays DEF GoesWell
<1>12. step' # "gone"
  BY <1>2
<1>13. QED BY <1>2, <1>8, <1>9, <1>11, <1>12 DEF GoesWell

\* The batch goes into its table, whatever the attempts before have left
\* there, and is not given up before there were more faults than retries.
LEMMA WriteGoesWell ==
  ASSUME PathTyped, Counted, WriterTyped, AttemptsFail, TablesHold, TablesStay, Bucketed, NewestInv, WellSet, GoesWell,
         WriteBatch, ~(faults' > job.retry)
  PROVE  GoesWell'
<1> DEFINE T == batch.table
           result == IF T \in DOMAIN target THEN Inserted(job.target, target[T]) ELSE Failed(<<>>)
<1>0. JobIsGiven /\ job' = job /\ have' = have /\ batch # NoBatch
  BY DEF PathTyped, JobIsGiven, WriteBatch, sourceVars
<1>1. /\ T \in DOMAIN job.tables
      /\ \A table : IsTable(table) /\ table.columns = job.tables[T].columns /\ table.key = job.tables[T].key
            => BatchInsert(job.target, table, batch.rows, job.mode, pk_for(T)).ok
  <2>1. batch.rows \in Seq(ToSet(batch.rows)) /\ batch.rows # <<>>
    BY <1>0 DEF TablesHold, GoesWell, NewestInv, IsSending
  <2>2. \A n \in 1..Len(batch.rows) : IsRowFor(batch.rows[n], T)
    BY DEF GoesWell, OnItsWay, RowsAreOutputs
  <2>3. T = job.table => Apart(batch.rows)
    BY DEF GoesWell, OnItsWay, RowsApart, BatchOf
  <2> HIDE DEF T
  <2>4. QED BY <1>0, <2>1, <2>2, <2>3, WellSetBatch
<1>2. T \in DOMAIN target /\ result = Inserted(job.target, target[T])
  BY <1>1 DEF Bucketed
<1>3. IsTable(target[T]) /\ target[T].columns = job.tables[T].columns /\ target[T].key = job.tables[T].key
  BY <1>2 DEF TablesHold, TablesStay
<1>4. result.ok
  BY <1>1, <1>2, <1>3 DEF Inserted
<1>5. ~(attempt = job.retry /\ Fault)
  <2> SUFFICES ASSUME attempt = job.retry, faults' = faults + 1 PROVE FALSE
    BY DEF Fault
  <2>1. attempt \in Nat /\ faults \in Nat /\ attempt <= faults
    BY <1>0, BoundsAssumption, JobFacts DEF WriterTyped, Counted, AttemptsFail
  <2>2. QED BY <2>1
<1>8. /\ batch' \in {batch, NoBatch} /\ step' = step /\ low' = low /\ offset' = offset /\ todo' = todo /\ out' = out
      /\ buckets' = buckets /\ erred' = erred
  <2>1. \/ result.ok /\ batch' = NoBatch /\ UNCHANGED <<step, low, offset, todo, out, buckets, erred>>
        \/ result.ok /\ UNCHANGED <<step, low, offset, todo, out, buckets, batch, erred>>
        \/ attempt = job.retry /\ Fault
        \/ ~result.ok
    BY DEF WriteBatch
  <2> HIDE DEF result
  <2>2. QED BY <1>4, <1>5, <2>1
<1>9. Asked' = Asked /\ MarkType' = MarkType /\ (UsesMark' <=> UsesMark)
  BY <1>0, <1>8, AskedStays, JobStays
<1>10. ReadsOn' /\ InOrder'
  BY <1>0, <1>8, <1>9 DEF GoesWell, ReadsOn, InOrder, InPass, CanCompare, Increases
<1>11. \A i : Coming(i)' => Coming(i)
  BY <1>0, <1>8, <1>9 DEF Coming, InPass
<1>12. /\ Places' = Places
       /\ \A p : RowAt(p)' = RowAt(p) /\ TableAt(p)' = TableAt(p)
       /\ \A r, s : KeyClash(r, s)' <=> KeyClash(r, s)
       /\ \A r, s : IsRowFor(r, s)' <=> IsRowFor(r, s)
  BY <1>0, WellSetStays
<1>13. /\ batch' = batch \/ batch'.rows = <<>>
       /\ BatchOf' \in {BatchOf, <<>>} /\ BucketOf' = BucketOf /\ 1..Len(<<>>) = {}
  <2>1. NoBatch.rows = <<>> /\ 1..Len(<<>>) = {}
    BY DEF NoBatch
  <2>2. QED BY <1>0, <1>8, <2>1 DEF BatchOf, BucketOf
<1>14. RowsAreOutputs'
  BY <1>8, <1>12, <1>13 DEF GoesWell, OnItsWay, RowsAreOutputs
<1>15. RowsApart'
  BY <1>0, <1>8, <1>12, <1>13 DEF GoesWell, OnItsWay, RowsApart, IsOwn, Apart
<1>16. NoneComesAgain'
  <2> SUFFICES ASSUME NEW p \in Places', TableAt(p)' = job'.table, Coming(p[1])'
               PROVE  /\ \A n \in 1..Len(BucketOf)' : (~KeyClash(BucketOf[n], RowAt(p)))'
                      /\ \A k \in 1..Len(out)' : IsOwn(k)' => (~KeyClash(out[k].row, RowAt(p)))'
    BY DEF NoneComesAgain
  <2>1. p \in Places /\ TableAt(p) = job.table /\ Coming(p[1])
    BY <1>0, <1>11, <1>12
  <2>2. /\ \A n \in 1..Len(BucketOf) : ~KeyClash(BucketOf[n], RowAt(p))
        /\ \A k \in 1..Len(out) : IsOwn(k) => ~KeyClash(out[k].row, RowAt(p))
    BY <2>1 DEF GoesWell, OnItsWay, NoneComesAgain
  <2>3. QED BY <1>0, <1>8, <1>12, <1>13, <2>2 DEF IsOwn
<1>17. QED BY <1>8, <1>10, <1>14, <1>15, <1>16 DEF GoesWell, OnItsWay

LEMMA WellAfterStep ==
  ASSUME DataInv, AttemptsFail, MarksHaveOrigins, TablesHold, TablesStay, NewestInv, WellInv, [PathNext]_pathVars
  PROVE  WellInv'
<1>0. PathTyped /\ Counted /\ Grown /\ Bucketed /\ WriterTyped
  BY DEF DataInv
<1>1. SUFFICES ASSUME WellSet', ~(faults' > job'.retry) PROVE GoesWell'
  BY DEF WellInv
<1>2. job' = job
  BY DEF PathNext, PathStep, StartPass, NextPage, RunEtl, PushRow, PushUpTo, Drain, Truncate, WriteBatch, Save,
         SourceInsert, NeighbourSaves, Crash, Restart, pathVars, sourceVars
<1>3. WellSet /\ GoesWell
  <2>1. WellSet
    BY <1>1, <1>2, WellSetStays
  <2>2. faults' \in {faults, faults + 1} /\ faults \in Nat /\ job.retry \in Nat
    BY <1>0, FaultsAreCounted, BoundsAssumption, JobFacts DEF PathTyped, JobIsGiven, Counted
  <2>3. ~(faults > job.retry)
    BY <1>1, <1>2, <2>2
  <2>4. QED BY <2>1, <2>3 DEF WellInv
\* Between the passes, and when the process ends.
<1>4. ASSUME erred' = erred, step' = "idle", todo' = <<>>, out' = <<>>, buckets' = <<>>, batch' = NoBatch
      PROVE  GoesWell'
  <2>1. ReadsOn' /\ InOrder'
    <3>1. 1..Len(<<>>) = {}
      OBVIOUS
    <3>2. QED BY <1>4, <3>1 DEF ReadsOn, InOrder, InPass, Increases
  <2>2. OnItsWay'
    <3>1. WayIsClear'
      BY <1>4 DEF WayIsClear, NoBatch
    <3>2. QED BY <3>1, NothingOnItsWay, PTL
  <2>3. QED BY <1>3, <1>4, <2>1, <2>2 DEF GoesWell
<1>5. step = "idle" => todo = <<>> /\ out = <<>> /\ buckets = <<>> /\ batch = NoBatch
  BY <1>3 DEF GoesWell, NewestInv, IsSending, InOrder
<1>6. CASE StartPass
  BY <1>0, <1>3, <1>6, StartGoesWell
<1>7. CASE NextPage
  BY <1>0, <1>3, <1>7, PageGoesWell
<1>8. CASE RunEtl
  BY <1>0, <1>3, <1>8, EtlGoesWell
<1>9. CASE PushRow
  BY <1>0, <1>3, <1>9, PushGoesWell
<1>10. CASE Drain
  BY <1>3, <1>10, DrainGoesWell
<1>11. CASE WriteBatch
  BY <1>0, <1>1, <1>2, <1>3, <1>11, WriteGoesWell
<1>12. CASE Save
  <2>1. /\ step = "draining" /\ batch = NoBatch /\ buckets = <<>> /\ step' = "idle"
        /\ todo' = todo /\ out' = out /\ buckets' = buckets /\ batch' = batch /\ erred' = erred
    BY <1>12 DEF Save
  <2>2. todo = <<>> /\ out = <<>>
    BY <1>3, <2>1 DEF GoesWell, NewestInv, IsSending, InOrder
  <2>3. QED BY <1>4, <2>1, <2>2
<1>13. CASE SourceInsert \/ Restart
  <2>1. /\ step = "idle" /\ step' = step
        /\ todo' = todo /\ out' = out /\ buckets' = buckets /\ batch' = batch /\ erred' = erred
    BY <1>0, <1>13 DEF SourceInsert, Restart, passVars, Counted
  <2>2. QED BY <1>4, <1>5, <2>1
<1>14. CASE NeighbourSaves \/ UNCHANGED pathVars
  <2>1. /\ have' = have /\ step' = step /\ low' = low /\ offset' = offset
        /\ todo' = todo /\ out' = out /\ buckets' = buckets /\ batch' = batch /\ erred' = erred
    BY <1>14 DEF NeighbourSaves, pathVars, passVars, sourceVars
  <2>2. Asked' = Asked /\ MarkType' = MarkType /\ (UsesMark' <=> UsesMark)
    BY <1>2, <2>1, AskedStays, JobStays
  <2>3. ReadsOn' /\ InOrder'
    BY <1>2, <1>3, <2>1, <2>2 DEF GoesWell, ReadsOn, InOrder, InPass, CanCompare, Increases
  <2>4. \A i : Coming(i)' => Coming(i)
    BY <1>2, <2>1, <2>2 DEF Coming, InPass
  <2>5. OnItsWay'
    BY <1>2, <1>3, <2>1, <2>4, WayStays DEF GoesWell
  <2>6. QED BY <1>3, <2>1, <2>3, <2>5 DEF GoesWell
<1>15. CASE Crash
  <2>1. /\ erred' = erred /\ step' = "idle" /\ todo' = <<>> /\ out' = <<>> /\ buckets' = <<>> /\ batch' = NoBatch
    BY <1>15 DEF Crash
  <2>2. QED BY <1>4, <2>1
\* Only a full job empties its tables.
<1>16. CASE Truncate
  <2>1. job.mode = "upsert" /\ job.mode = "full"
    BY <1>3, <1>16 DEF Truncate, WellSet
  <2>2. QED BY <2>1
<1>17. QED BY <1>6, <1>7, <1>8, <1>9, <1>10, <1>11, <1>12, <1>13, <1>14, <1>15, <1>16 DEF PathNext, PathStep

(* For every job that is set up well, every source, page and batch size,   *)
(* crash and lost answer: no pass returns Err and the thread of the job    *)
(* does not end, until more calls have failed than a batch may be retried. *)
THEOREM WellSetJobsNeverFail == PathSpec => []WellSetNeverFails
<1>1. PathInit => WellInv
  <2> SUFFICES ASSUME PathInit PROVE GoesWell
    BY DEF WellInv
  <2>1. step = "idle" /\ ~erred /\ todo = <<>> /\ out = <<>> /\ buckets = <<>> /\ batch = NoBatch
    BY DEF PathInit
  <2>2. ReadsOn /\ InOrder
    <3>1. 1..Len(<<>>) = {}
      OBVIOUS
    <3>2. QED BY <2>1, <3>1 DEF ReadsOn, InOrder, InPass, Increases
  <2>3. OnItsWay
    BY <2>1, NothingOnItsWay DEF WayIsClear
  <2>4. QED BY <2>1, <2>2, <2>3 DEF GoesWell
<1>2. DataInv /\ AttemptsFail /\ MarksHaveOrigins /\ TablesHold /\ TablesStay /\ NewestInv /\ WellInv /\ [PathNext]_pathVars => WellInv'
  BY WellAfterStep
<1>3. WellInv => WellSetNeverFails
  BY DEF WellInv, GoesWell, WellSetNeverFails
<1>4. QED BY <1>1, <1>2, <1>3, DataInvariant, AttemptsAlwaysFail, MarksAlwaysHaveOrigins, TablesAlwaysHold, TablesAlwaysStay, RowsAreDelivered,
             PTL DEF PathSpec
=============================================================================
