--------------------------- MODULE DataPath_proofs ---------------------------
(***************************************************************************)
(* Proofs about a job over its passes, its state file and its restarts:    *)
(* where its mark comes from, that no row is passed over, or read again    *)
(* without a cause, and what filters keep.                                 *)
(***************************************************************************)
EXTENDS DataPath, DataFacts, FiniteSetTheorems

\* The mark in the state file, and the literal it will become.
FileMark == IF StateFile \in DOMAIN files THEN files[StateFile] ELSE NoMark
Literal(mark) == state_to_literal(FromJson(mark))
MarkFiles == [number : Int] \cup [real : Int] \cup [text : ToSet(Lex)]

InPass == step \in {"reading", "rows", "draining"}

(* The parts of the state the mark depends on.                             *)
PathTyped ==
    /\ \E w \in DOMAIN Jobs_ : job = Jobs_[w]
    /\ have \in 0..Len(job.rows) /\ passed \in 0..have
    /\ offset \in Nat /\ faults \in Nat
    /\ DOMAIN read \subseteq 1..have /\ \A k \in DOMAIN read : read[k] \in 0..have
    /\ mem \in MarkValues \cup {NoMark} /\ FileMark \in MarkFiles \cup {NoMark}
    /\ InPass => up /\ from = have

(* A literal is that of a row this job has read, or of the mark another    *)
(* job saved in the same file.                                             *)
HasOrigin(literal) ==
    \/ \E i \in DOMAIN read : Mark(i) = literal
    \/ SharesFile /\ literal = state_to_literal(job.neighbour_mark)
MarksHaveOrigins ==
    /\ mem # NoMark => HasOrigin(state_to_literal(mem))
    /\ FileMark # NoMark => HasOrigin(Literal(FileMark))

-----------------------------------------------------------------------------
IsAbove(i, literal) == Above(job.source, MarkType, MarkCell(i), literal)

(* The mark in the file is that of a row that was last read when the       *)
(* source had no more rows than the last good pass found.                  *)
FileMarkIsOld ==
    FileMark # NoMark =>
        \E k \in DOMAIN read : /\ MarkRead(k) # Null /\ Mark(k) = Literal(FileMark)
                               /\ read[k] <= passed

(* NothingSkipped for one row.  The mark in the file selects none of the   *)
(* rows that excuse another, so that they are not read again.              *)
IsAccountedFor(i) ==
    \/ i \in DOMAIN read
    \/ FileMark # NoMark /\ \E k \in DOMAIN read :
            read[k] < i /\ ~IsAbove(i, Mark(k)) /\ ~IsAbove(k, Literal(FileMark))
    \/ \E literal \in FirstRun : ~IsAbove(i, literal)

(* What is in memory is what is in the file.                               *)
MarkIsFileMark ==
    IF FileMark = NoMark THEN mem = NoMark
    ELSE mem # NoMark /\ state_to_literal(mem) = Literal(FileMark)

(* During a pass: the query goes by the mark in the file, if there is one; *)
(* the mark in memory is that one or that of a row of the query; the rows  *)
(* before the offset are read, and there are no others at the end.         *)
QueryGoesByFile ==
    /\ IF FileMark # NoMark THEN low = Literal(FileMark)
       ELSE low \in FirstRun \/ ~Comparable(job.source, MarkType, low)
    /\ step # "reading" => Comparable(job.source, MarkType, low)
MarkIsOfQuery ==
    \/ MarkIsFileMark
    \/ mem # NoMark /\ \E k \in DOMAIN read :
           MarkRead(k) # Null /\ Mark(k) = state_to_literal(mem) /\ IsAbove(k, low)
PagesAreRead ==
    /\ \A n \in 1..Len(Asked) : n <= offset => Asked[n] \in DOMAIN read
    /\ step = "draining" => offset >= Len(Asked)

ByMark ==
    /\ FileMarkIsOld
    /\ \A i \in 1..passed : IsAccountedFor(i)
    /\ up /\ step = "idle" => MarkIsFileMark
    /\ InPass => QueryGoesByFile /\ MarkIsOfQuery
RowsAreAccountedFor ==
    ~erred /\ job.kind = "max" /\ ~SharesFile =>
        /\ IF UsesMark THEN ByMark ELSE 1..passed \subseteq DOMAIN read
        /\ InPass => PagesAreRead

PathInv == PathTyped /\ MarksHaveOrigins /\ RowsAreAccountedFor

-----------------------------------------------------------------------------
(* Values, files and literals.                                             *)

Literals == [number : Int] \cup [quoted : ToSet(Lex)]

(* A mark goes through the state file without a change of its literal.     *)
LEMMA MarkSurvivesFile ==
  ASSUME NEW v \in MarkValues
  PROVE  /\ v # NoMark /\ v # Null
         /\ ToJson(v) \in MarkFiles
         /\ Literal(ToJson(v)) = state_to_literal(v)
<1>1. CASE v \in [int : Int]
  <2>1. PICK n \in Int : v = [int |-> n]
    BY <1>1
  <2>2. ToJson(v) = [number |-> n] /\ state_to_literal(v) = [number |-> n]
    BY <2>1 DEF ToJson, state_to_literal, Is, IsText
  <2>3. FromJson([number |-> n]) = IF n < I64 THEN [int |-> n] ELSE [uint |-> n]
    BY DEF FromJson, Is, Int_, UInt
  <2>4. state_to_literal(FromJson([number |-> n])) = [number |-> n]
    BY <2>3 DEF state_to_literal, Is, IsText
  <2>5. QED BY <2>1, <2>2, <2>4 DEF NoMark, Null, MarkFiles, Literal
<1>2. CASE v \in [uint : Nat]
  <2>1. PICK n \in Nat : v = [uint |-> n]
    BY <1>2
  <2>2. ToJson(v) = [number |-> n] /\ state_to_literal(v) = [number |-> n]
    BY <2>1 DEF ToJson, state_to_literal, Is, IsText
  <2>3. FromJson([number |-> n]) = IF n < I64 THEN [int |-> n] ELSE [uint |-> n]
    BY DEF FromJson, Is, Int_, UInt
  <2>4. state_to_literal(FromJson([number |-> n])) = [number |-> n]
    BY <2>3 DEF state_to_literal, Is, IsText
  <2>5. QED BY <2>1, <2>2, <2>4 DEF NoMark, Null, MarkFiles, Literal
<1>3. CASE v \in [float : Int]
  <2>1. PICK n \in Int : v = [float |-> n]
    BY <1>3
  <2>2. ToJson(v) = [real |-> n] /\ state_to_literal(v) = [number |-> n]
    BY <2>1 DEF ToJson, state_to_literal, Is, IsText
  <2>3. FromJson([real |-> n]) = [float |-> n]
    BY DEF FromJson, Is, Float
  <2>4. state_to_literal(FromJson([real |-> n])) = [number |-> n]
    BY <2>3 DEF state_to_literal, Is, IsText
  <2>5. QED BY <2>1, <2>2, <2>4 DEF NoMark, Null, MarkFiles, Literal
<1>4. CASE v \in [decimal : ToSet(Lex)]
  <2>1. PICK s \in ToSet(Lex) : v = [decimal |-> s]
    BY <1>4
  <2>2. QED BY <2>1 DEF NoMark, Null, MarkFiles, Literal, ToJson, FromJson, state_to_literal, Is, IsText, TextOf, String
<1>5. CASE v \in [string : ToSet(Lex)]
  <2>1. PICK s \in ToSet(Lex) : v = [string |-> s]
    BY <1>5
  <2>2. QED BY <2>1 DEF NoMark, Null, MarkFiles, Literal, ToJson, FromJson, state_to_literal, Is, IsText, TextOf, String
<1>6. CASE v \in [date : ToSet(Lex)]
  <2>1. PICK s \in ToSet(Lex) : v = [date |-> s]
    BY <1>6
  <2>2. QED BY <2>1 DEF NoMark, Null, MarkFiles, Literal, ToJson, FromJson, state_to_literal, Is, IsText, TextOf, String
<1>7. QED BY <1>1, <1>2, <1>3, <1>4, <1>5, <1>6 DEF MarkValues

LEMMA FileGivesMark ==
  ASSUME NEW f \in MarkFiles
  PROVE  FromJson(f) \in MarkValues /\ f # NoMark
<1>1. CASE f \in [number : Int]
  <2>1. PICK n \in Int : f = [number |-> n]
    BY <1>1
  <2>2. FromJson(f) = IF n < I64 THEN [int |-> n] ELSE [uint |-> n]
    BY <2>1 DEF FromJson, Is, Int_, UInt
  <2>3. n < I64 \/ n \in Nat
    <3>1. I64 \in Nat
      BY ValuesAssumption
    <3>2. QED BY <3>1
  <2>4. QED BY <2>1, <2>2, <2>3 DEF MarkValues, NoMark
<1>2. CASE f \in [real : Int]
  <2>1. PICK n \in Int : f = [real |-> n]
    BY <1>2
  <2>2. QED BY <2>1 DEF FromJson, Is, Float, MarkValues, NoMark
<1>3. CASE f \in [text : ToSet(Lex)]
  <2>1. PICK s \in ToSet(Lex) : f = [text |-> s]
    BY <1>3
  <2>2. QED BY <2>1 DEF FromJson, Is, String, MarkValues, NoMark
<1>4. QED BY <1>1, <1>2, <1>3 DEF MarkFiles

-----------------------------------------------------------------------------
(* The order of the rows.                                                  *)

JobIsGiven == \E w \in DOMAIN Jobs_ : job = Jobs_[w]

LEMMA JobFacts ==
  ASSUME JobIsGiven
  PROVE  /\ Len(job.rows) \in Nat /\ job.initial \in 0..Len(job.rows)
         /\ job.page \in Nat \ {0} /\ job.threshold \in Nat \ {0} /\ job.retry \in Nat
         /\ job.mark \in DOMAIN job.types
         /\ MarkType \in NumberTypes \cup TimeTypes \cup TextTypes
         /\ \A i \in 1..Len(job.rows) : MarkCell(i) \in Cells(MarkType)
         /\ job.neighbour_mark \in MarkValues \cup {NoMark}
BY JobsAssumption DEF JobIsGiven, MarkType, MarkCell

LEMMA PlaceTyped ==
  ASSUME NEW s
  PROVE  Place(s) \in Nat
<1> DEFINE I == {i \in 1..Len(Lex) : Lex[i] = s}
<1>1. Place(s) = IF I # {} THEN Min(I) ELSE 0
  BY DEF Place, SelectInSeq
<1>2. Len(Lex) \in Nat
  BY ValuesAssumption, LenProperties
<1>3. I \subseteq Nat
  BY <1>2
<1>4. CASE I # {}
  <2> HIDE DEF I
  <2>1. PICK m \in I : \A n \in I : m <= n
    BY <1>3, <1>4, LeastNatural
  <2>2. Min(I) \in I
    BY <2>1 DEF Min
  <2>3. QED BY <1>1, <1>3, <1>4, <2>2
<1>5. QED BY <1>1, <1>4

LEMMA CellTyped ==
  ASSUME JobIsGiven, NEW i \in 1..Len(job.rows), MarkCell(i) # Null
  PROVE  /\ \/ /\ MarkType \in NumberTypes \ {"decimal"}
               /\ \E n \in Int : MarkCell(i) = [n |-> n]
            \/ /\ MarkType \notin NumberTypes \ {"decimal"}
               /\ \E s \in ToSet(Lex) : MarkCell(i) = [s |-> s]
         /\ MarkType = "decimal" => \E s \in DOMAIN Numeral : MarkCell(i) = [s |-> s]
<1>1. MarkCell(i) \in Cells(MarkType) /\ DOMAIN Numeral \subseteq ToSet(Lex)
  BY JobFacts, ValuesAssumption
<1>2. CASE MarkType \in NumberTypes \ {"decimal"}
  BY <1>1, <1>2 DEF Cells, Whole
<1>3. CASE MarkType = "decimal"
  <2>1. MarkCell(i) \in [s : DOMAIN Numeral]
    BY <1>1, <1>3 DEF Cells
  <2>2. QED BY <1>1, <1>3, <2>1
<1>4. CASE MarkType \notin NumberTypes /\ MarkType # "decimal"
  BY <1>1, <1>4 DEF Cells
<1>5. QED BY <1>2, <1>3, <1>4 DEF NumberTypes

LEMMA NumberTyped ==
  /\ \A n \in Int : NumberIn([n |-> n]) = n
  /\ \A s \in ToSet(Lex) : NumberIn([s |-> s]) \in Int
<1>1. \A n \in Int : NumberIn([n |-> n]) = n
  BY DEF NumberIn
<1>2. ASSUME NEW s \in ToSet(Lex) PROVE NumberIn([s |-> s]) \in Int
  <2>1. NumberIn([s |-> s]) = IF Parses(s) THEN Numeral[s] ELSE 0
    BY DEF NumberIn
  <2>2. Parses(s) => Numeral[s] \in Int
    BY ValuesAssumption DEF Parses, Whole
  <2>3. QED BY <2>1, <2>2
<1>3. QED BY <1>1, <1>2

LEMMA DegreeTyped ==
  ASSUME JobIsGiven, NEW i \in 1..Len(job.rows), MarkCell(i) # Null
  PROVE  Degree(i) \in Int
<1>1. CASE MarkType \in NumberTypes
  BY <1>1, CellTyped, NumberTyped DEF Degree
<1>2. CASE MarkType \notin NumberTypes
  <2>1. PICK s \in ToSet(Lex) : MarkCell(i) = [s |-> s]
    BY <1>2, CellTyped
  <2>2. Degree(i) = Rank(job.source, MarkType, s)
    BY <1>2, <2>1 DEF Degree
  <2>3. Rank(job.source, MarkType, s) \in Int
    BY CollateAssumption, PlaceTyped DEF Rank
  <2>4. QED BY <2>2, <2>3
<1>3. QED BY <1>1, <1>2

(* The mark of a row is a mark of its cell: its literal stands for the     *)
(* place of the row in the order.                                          *)
LEMMA RowHasMark ==
  ASSUME JobIsGiven, NEW i \in 1..Len(job.rows), MarkRead(i) # Null
  PROVE  /\ MarkRead(i) \in MarkValues
         /\ MarkCell(i) # Null
         /\ \/ MarkType \in NumberTypes /\ Mark(i) = [number |-> Degree(i)]
            \/ \E s \in ToSet(Lex) : Mark(i) = [quoted |-> s] /\ MarkCell(i) = [s |-> s]
<1> DEFINE cell == MarkCell(i)
<1>1. MarkRead(i) = Reads(job.source, MarkType, cell)
  BY DEF MarkRead, ValueAt, Row, MarkType, MarkCell
<1>2. cell # Null /\ ~ReadAsNull(job.source, MarkType)
  BY <1>1 DEF Reads
<1>3. MarkType \in NumberTypes \cup TimeTypes \cup TextTypes
  BY JobFacts
<1>4. CASE MarkType \in {"bigint", "smallint"}
  <2>1. PICK n \in Int : cell = [n |-> n]
    BY <1>2, <1>4, CellTyped DEF NumberTypes
  <2>2. MarkRead(i) = IF n < I64 THEN [int |-> n] ELSE [uint |-> n]
    BY <1>1, <1>2, <1>4, <2>1 DEF Reads, Int_, UInt
  <2>3. n < I64 \/ n \in Nat
    <3>1. I64 \in Nat
      BY ValuesAssumption
    <3>2. QED BY <3>1
  <2>4. MarkRead(i) \in MarkValues
    BY <2>2, <2>3 DEF MarkValues
  <2>5. Mark(i) = [number |-> n]
    BY <2>2 DEF Mark, state_to_literal, Is, IsText
  <2>6. Degree(i) = n
    BY <1>4, <2>1, NumberTyped DEF Degree, NumberTypes
  <2>7. QED BY <1>2, <1>4, <2>4, <2>5, <2>6 DEF NumberTypes
<1>5. CASE MarkType = "double"
  <2>1. PICK n \in Int : cell = [n |-> n]
    BY <1>2, <1>5, CellTyped DEF NumberTypes
  <2>2. MarkRead(i) = [float |-> n]
    BY <1>1, <1>2, <1>5, <2>1 DEF Reads, Float
  <2>3. Mark(i) = [number |-> n]
    BY <2>2 DEF Mark, state_to_literal, Is, IsText
  <2>4. Degree(i) = n
    BY <1>5, <2>1, NumberTyped DEF Degree, NumberTypes
  <2>5. QED BY <1>2, <1>5, <2>2, <2>3, <2>4 DEF NumberTypes, MarkValues
<1>6. CASE MarkType \in {"decimal", "datetime", "varchar"}
  <2>1. PICK s \in ToSet(Lex) : cell = [s |-> s]
    BY <1>2, <1>6, CellTyped DEF NumberTypes
  <2>2. MarkRead(i) \in {[decimal |-> s], [date |-> s], [string |-> s]}
    BY <1>1, <1>2, <1>6, <2>1 DEF Reads, Decimal, Date, String
  <2>3. MarkRead(i) \in MarkValues
    BY <2>2 DEF MarkValues
  <2>4. Mark(i) = [quoted |-> s]
    BY <2>2 DEF Mark, state_to_literal, Is, IsText, TextOf
  <2>5. QED BY <1>2, <2>1, <2>3, <2>4
<1>7. QED BY <1>3, <1>4, <1>5, <1>6 DEF NumberTypes, TimeTypes, TextTypes

(* A row is above the mark of another when it is higher: but nothing is    *)
(* above '' to Oracle.                                                     *)
LEMMA AboveMeansHigher ==
  ASSUME JobIsGiven, NEW i \in 1..Len(job.rows), NEW k \in 1..Len(job.rows), MarkRead(k) # Null
  PROVE  IsAbove(i, Mark(k)) <=>
            /\ MarkCell(i) # Null /\ Degree(i) > Degree(k)
            /\ ~(job.source = "oracle" /\ Mark(k) = [quoted |-> ""])
<1> DEFINE literal == Mark(k)
<1>1. CASE MarkType \in NumberTypes /\ literal = [number |-> Degree(k)]
  <2>1. literal # Null /\ literal # [quoted |-> ""] /\ "number" \in DOMAIN literal
    <3>1. \A n : [number |-> n] # Null /\ [number |-> n] # [quoted |-> ""] /\ "number" \in DOMAIN [number |-> n]
      BY DEF Null
    <3>2. QED BY <1>1, <3>1
  <2>2. MarkType \notin TimeTypes
    BY <1>1 DEF NumberTypes, TimeTypes
  <2>3. Degree(i) = NumberIn(MarkCell(i))
    BY <1>1 DEF Degree
  <2>4. literal.number = Degree(k)
    BY <1>1
  <2> HIDE DEF literal
  <2>5. Above(job.source, MarkType, MarkCell(i), literal) <=> MarkCell(i) # Null /\ Degree(i) > Degree(k)
    BY <2>1, <2>2, <2>3, <2>4 DEF Above
  <2>6. QED BY <2>1, <2>5 DEF IsAbove, literal
<1>2. CASE \E s \in ToSet(Lex) : literal = [quoted |-> s] /\ MarkCell(k) = [s |-> s]
  <2>1. PICK s \in ToSet(Lex) : literal = [quoted |-> s] /\ MarkCell(k) = [s |-> s]
    BY <1>2
  <2>2. literal # Null /\ "number" \notin DOMAIN literal /\ literal.quoted = s
    BY <2>1 DEF Null
  <2>3. Degree(k) = IF MarkType \in NumberTypes THEN NumberIn([s |-> s]) ELSE Rank(job.source, MarkType, s)
    BY <2>1 DEF Degree
  <2> HIDE DEF literal
  <2>4. Above(job.source, MarkType, MarkCell(i), literal) <=>
            /\ MarkCell(i) # Null /\ ~(job.source = "oracle" /\ literal = [quoted |-> ""])
            /\ Degree(i) > Degree(k)
    BY <2>2, <2>3 DEF Above, Degree
  <2>5. QED BY <2>4 DEF IsAbove, literal
<1>3. QED BY <1>1, <1>2, RowHasMark

-----------------------------------------------------------------------------
(* The query and the mark of a page.                                       *)

Increases(s) == \A k, l \in 1..Len(s) : k < l => s[k] < s[l]

(* The query selects the rows above the literal, all of them and no        *)
(* others, in their order.                                                 *)
LEMMA QuerySelectsAll ==
  ASSUME NEW n \in Nat, NEW literal
  PROVE  /\ Query(n, literal) \in Seq(1..n)
         /\ ToSet(Query(n, literal)) = {i \in 1..n : IsAbove(i, literal)}
         /\ Increases(Query(n, literal))
<1> DEFINE Step(g, k) ==
      IF k = 0 THEN <<>> ELSE IF IsAbove(k, literal) THEN Append(g[k - 1], k) ELSE g[k - 1]
<1> DEFINE Solves(g, m) == g = [k \in 0..m |-> Step(g, k)]
<1>0. /\ 0 \in 0..n /\ n \in 0..n
      /\ \A m \in 0..(n - 1) : m \in Nat /\ m + 1 \in 0..n /\ m + 1 \in 1..n
      /\ \A m \in Nat : m + 1 # 0 /\ m + 1 - 1 = m /\ m \in 0..m /\ m + 1 \in 0..(m + 1)
  OBVIOUS
<1>1. \E g : Solves(g, n)
  <2> DEFINE H == {m \in 0..n : \E g : Solves(g, m)}
  <2>1. 0 \in H
    <3>1. Solves([k \in 0..0 |-> <<>>], 0)
      OBVIOUS
    <3> HIDE DEF Solves
    <3>2. QED BY <3>1, <1>0
  <2>2. ASSUME NEW m \in 0..(n - 1), m \in H PROVE m + 1 \in H
    <3>1. PICK g : Solves(g, m)
      BY <2>2
    <3> DEFINE h == [k \in 0..(m + 1) |-> IF k <= m THEN g[k] ELSE Step(g, m + 1)]
    <3>2. \A k \in 0..(m + 1) : h[k] = Step(h, k)
      <4> SUFFICES ASSUME NEW k \in 0..(m + 1) PROVE h[k] = Step(h, k)
        OBVIOUS
      <4>1. k # 0 => h[k - 1] = g[k - 1]
        BY <1>0
      <4>2. CASE k <= m
        <5>0. k \in 0..m
          BY <4>2, <1>0
        <5>1. g[k] = Step(g, k) /\ h[k] = g[k]
          <6> HIDE DEF Step
          <6> QED BY <3>1, <4>2, <5>0
        <5>2. QED BY <5>1, <4>1
      <4>3. CASE k = m + 1
        BY <4>1, <4>3, <1>0
      <4>4. QED BY <4>2, <4>3, <1>0
    <3>3. Solves(h, m + 1)
      <4> HIDE DEF Step
      <4> QED BY <3>2
    <3> HIDE DEF Solves
    <3>4. QED BY <3>3, <1>0
  <2>3. n \in H
    <3> HIDE DEF H
    <3>1. \A m \in 0..n : m \in H
      BY <2>1, <2>2, InductionTo
    <3>2. QED BY <3>1, <1>0
  <2>4. QED BY <2>3
<1> DEFINE f == CHOOSE g : Solves(g, n)
<1>2. f = [k \in 0..n |-> Step(f, k)]
  <2>1. Solves(f, n)
    <3> HIDE DEF Solves
    <3> QED BY <1>1
  <2>2. QED BY <2>1
<1>3. Query(n, literal) = f[n]
  BY DEF Query, IsAbove
<1> HIDE DEF f
<1> DEFINE H == {m \in 0..n : /\ f[m] \in Seq(1..n) /\ ToSet(f[m]) = {i \in 1..m : IsAbove(i, literal)}
                             /\ Increases(f[m])}
<1>4. 0 \in H
  <2>1. Increases(<<>>)
    BY DEF Increases
  <2>2. QED BY <1>2, <1>0, <2>1, ToSetEmpty
<1>5. ASSUME NEW m \in 0..(n - 1), m \in H PROVE m + 1 \in H
  <2>1. f[m + 1] = IF IsAbove(m + 1, literal) THEN Append(f[m], m + 1) ELSE f[m]
    <3>1. f[m + 1] = Step(f, m + 1)
      <4> HIDE DEF Step
      <4> QED BY <1>2, <1>0
    <3>2. QED BY <3>1, <1>0
  <2>2. m + 1 \in 1..n /\ 1..(m + 1) = (1..m) \cup {m + 1}
    BY <1>0
  <2>3. f[m] \in Seq(1..n) /\ ToSet(f[m]) = {i \in 1..m : IsAbove(i, literal)} /\ Increases(f[m])
    BY <1>5
  <2>4. CASE IsAbove(m + 1, literal)
    <3>1. ToSet(f[m + 1]) = ToSet(f[m]) \cup {m + 1} /\ f[m + 1] \in Seq(1..n)
      BY <2>1, <2>2, <2>3, <2>4, ToSetAppend, AppendProperties
    <3>2. Increases(f[m + 1])
      <4> DEFINE g == f[m]
                 h == f[m + 1]
      <4>1. g \in Seq(1..n) /\ h = Append(g, m + 1) /\ \A k \in 1..Len(g) : g[k] < m + 1
        <5>1. \A k \in 1..Len(g) : g[k] \in ToSet(g)
          BY <2>3, LenProperties DEF ToSet
        <5> HIDE DEF H
        <5>2. ToSet(g) \subseteq 1..m
          BY <2>3
        <5> HIDE DEF g
        <5>3. \A k \in 1..Len(g) : g[k] < m + 1
          BY <1>0, <5>1, <5>2
        <5>4. QED BY <2>1, <2>3, <2>4, <5>3 DEF g
      <4>2. Increases(g)
        BY <2>3
      <4> HIDE DEF g, h
      <4>3. /\ Len(h) = Len(g) + 1 /\ Len(g) \in Nat /\ h[Len(g) + 1] = m + 1
            /\ \A k \in 1..Len(g) : h[k] = g[k]
        BY <2>2, <4>1, AppendProperties
      <4>4. ASSUME NEW k \in 1..Len(h), NEW l \in 1..Len(h), k < l PROVE h[k] < h[l]
        <5>1. k \in 1..Len(g) /\ (l \in 1..Len(g) \/ l = Len(g) + 1)
          BY <4>3, <4>4
        <5>2. QED BY <4>1, <4>2, <4>3, <4>4, <5>1 DEF Increases
      <4>5. Increases(h)
        BY <4>4 DEF Increases
      <4>6. QED BY <4>5 DEF h
    <3>3. QED BY <3>1, <3>2, <2>2, <2>3, <2>4, <1>0
  <2>5. CASE ~IsAbove(m + 1, literal)
    BY <2>1, <2>2, <2>3, <2>5, <1>0
  <2>6. QED BY <2>4, <2>5
<1>6. n \in H
  <2> HIDE DEF H
  <2>1. \A m \in 0..n : m \in H
    BY <1>4, <1>5, InductionTo
  <2>2. QED BY <2>1, <1>0
<1>7. QED BY <1>3, <1>6

(* update_state goes through the page row by row; f has the best so far.   *)
Passed(f, page) ==
    f = [k \in 0..Len(page) |->
            IF k = 0 THEN NoMark
            ELSE LET v == MarkRead(page[k])
                 IN  IF v # Null /\ (f[k - 1] = NoMark \/ value_gt(v, f[k - 1])) THEN v ELSE f[k - 1]]
Best(f, page) == f[Len(page)]

LEMMA UpdateStateGoesOn ==
  ASSUME NEW S, NEW page \in Seq(S)
  PROVE  \E f : /\ Passed(f, page)
                /\ UpdateState(page) =
                      IF job.kind = "max" /\ Best(f, page) # NoMark /\ (mem = NoMark \/ value_gt(Best(f, page), mem))
                      THEN Best(f, page) ELSE mem
<1> DEFINE L == Len(page)
<1> DEFINE Step(g, k) ==
      IF k = 0 THEN NoMark
      ELSE LET v == MarkRead(page[k])
           IN  IF v # Null /\ (g[k - 1] = NoMark \/ value_gt(v, g[k - 1])) THEN v ELSE g[k - 1]
<1> DEFINE Solves(g, m) == g = [k \in 0..m |-> Step(g, k)]
<1>l. L \in Nat /\ DOMAIN page = 1..L
  BY LenProperties
<1> HIDE DEF L
<1>0. /\ 0 \in 0..L /\ L \in 0..L
      /\ \A m \in 0..(L - 1) : m \in Nat /\ m + 1 \in 0..L /\ m + 1 \in 1..L
      /\ \A m \in Nat : m + 1 # 0 /\ m + 1 - 1 = m /\ m \in 0..m /\ m + 1 \in 0..(m + 1)
  BY <1>l
<1>1. \E g : Solves(g, L)
  <2> DEFINE H == {m \in 0..L : \E g : Solves(g, m)}
  <2>1. 0 \in H
    <3>1. Solves([k \in 0..0 |-> NoMark], 0)
      OBVIOUS
    <3> HIDE DEF Solves
    <3>2. QED BY <3>1, <1>0
  <2>2. ASSUME NEW m \in 0..(L - 1), m \in H PROVE m + 1 \in H
    <3>1. PICK g : Solves(g, m)
      BY <2>2
    <3> DEFINE h == [k \in 0..(m + 1) |-> IF k <= m THEN g[k] ELSE Step(g, m + 1)]
    <3>2. \A k \in 0..(m + 1) : h[k] = Step(h, k)
      <4> SUFFICES ASSUME NEW k \in 0..(m + 1) PROVE h[k] = Step(h, k)
        OBVIOUS
      <4>1. k # 0 => h[k - 1] = g[k - 1]
        BY <1>0
      <4>2. CASE k <= m
        <5>0. k \in 0..m
          BY <4>2, <1>0
        <5>1. g[k] = Step(g, k) /\ h[k] = g[k]
          <6> HIDE DEF Step
          <6> QED BY <3>1, <4>2, <5>0
        <5>2. QED BY <5>1, <4>1
      <4>3. CASE k = m + 1
        BY <4>1, <4>3, <1>0
      <4>4. QED BY <4>2, <4>3, <1>0
    <3>3. Solves(h, m + 1)
      <4> HIDE DEF Step
      <4> QED BY <3>2
    <3> HIDE DEF Solves
    <3>4. QED BY <3>3, <1>0
  <2>3. L \in H
    <3> HIDE DEF H
    <3>1. \A m \in 0..L : m \in H
      BY <2>1, <2>2, <1>l, InductionTo
    <3>2. QED BY <3>1, <1>0
  <2>4. QED BY <2>3
<1> DEFINE f == CHOOSE g : Solves(g, L)
<1>2. f = [k \in 0..L |-> Step(f, k)]
  <2>1. Solves(f, L)
    <3> HIDE DEF Solves
    <3> QED BY <1>1
  <2>2. QED BY <2>1
<1>3. UpdateState(page) =
         IF job.kind = "max" /\ f[L] # NoMark /\ (mem = NoMark \/ value_gt(f[L], mem))
         THEN f[L] ELSE mem
  BY DEF UpdateState, L
<1> HIDE DEF f
<1>4. Passed(f, page)
  BY <1>2 DEF Passed, L
<1>5. QED BY <1>3, <1>4 DEF Best, L

(* The steps of the loop.                                                  *)
LEMMA BestSoFar ==
  ASSUME NEW S, NEW page \in Seq(S), NEW f, Passed(f, page)
  PROVE  /\ Len(page) \in Nat /\ f[0] = NoMark
         /\ \A m \in 0..(Len(page) - 1) :
               /\ page[m + 1] \in ToSet(page)
               /\ f[m + 1] = IF MarkRead(page[m + 1]) # Null /\ (f[m] = NoMark \/ value_gt(MarkRead(page[m + 1]), f[m]))
                          THEN MarkRead(page[m + 1]) ELSE f[m]
<1> DEFINE L == Len(page)
<1> DEFINE Step(k) ==
      IF k = 0 THEN NoMark
      ELSE LET v == MarkRead(page[k])
           IN  IF v # Null /\ (f[k - 1] = NoMark \/ value_gt(v, f[k - 1])) THEN v ELSE f[k - 1]
<1>1. L \in Nat /\ DOMAIN page = 1..L
  BY LenProperties
<1>2. f = [k \in 0..L |-> Step(k)]
  BY DEF Passed
<1> HIDE DEF L
<1>3. /\ 0 \in 0..L
      /\ \A m \in 0..(L - 1) : m + 1 \in 0..L /\ m + 1 \in 1..L /\ m + 1 # 0 /\ m + 1 - 1 = m
  BY <1>1
<1>4. \A k \in 0..L : f[k] = Step(k)
  <2> HIDE DEF Step
  <2> QED BY <1>2
<1>5. f[0] = NoMark
  BY <1>3, <1>4
<1>6. ASSUME NEW m \in 0..(L - 1)
      PROVE  /\ page[m + 1] \in ToSet(page)
             /\ f[m + 1] = IF MarkRead(page[m + 1]) # Null /\ (f[m] = NoMark \/ value_gt(MarkRead(page[m + 1]), f[m]))
                          THEN MarkRead(page[m + 1]) ELSE f[m]
  <2>1. page[m + 1] \in ToSet(page)
    BY <1>1, <1>3 DEF ToSet
  <2>2. f[m + 1] = Step(m + 1)
    <3> HIDE DEF Step
    <3> QED BY <1>3, <1>4
  <2>3. QED BY <1>3, <2>1, <2>2
<1>7. QED BY <1>1, <1>5, <1>6 DEF L

(* update_state keeps the mark or takes that of a row of the page.         *)
LEMMA UpdateStateTakesARow ==
  ASSUME NEW S, NEW page \in Seq(S)
  PROVE  \/ UpdateState(page) = mem
         \/ \E i \in ToSet(page) : MarkRead(i) # Null /\ UpdateState(page) = MarkRead(i)
<1> DEFINE L == Len(page)
<1>1. PICK f : /\ Passed(f, page)
               /\ UpdateState(page) =
                      IF job.kind = "max" /\ Best(f, page) # NoMark /\ (mem = NoMark \/ value_gt(Best(f, page), mem))
                      THEN Best(f, page) ELSE mem
  BY UpdateStateGoesOn
<1> DEFINE IsOfRow(v) == v = NoMark \/ \E i \in ToSet(page) : MarkRead(i) # Null /\ v = MarkRead(i)
<1> DEFINE H == {m \in 0..L : IsOfRow(f[m])}
<1>2. L \in Nat /\ 0 \in 0..L /\ L \in 0..L /\ \A m \in 0..(L - 1) : m + 1 \in 0..L
  BY BestSoFar, <1>1
<1>3. 0 \in H
  BY <1>1, <1>2, BestSoFar
<1>4. ASSUME NEW m \in 0..(L - 1), m \in H PROVE m + 1 \in H
  <2>1. \/ f[m + 1] = f[m]
        \/ MarkRead(page[m + 1]) # Null /\ f[m + 1] = MarkRead(page[m + 1]) /\ page[m + 1] \in ToSet(page)
    BY <1>1, BestSoFar
  <2>2. IsOfRow(f[m + 1])
    BY <1>4, <2>1
  <2>3. QED BY <1>2, <2>2
<1>5. IsOfRow(f[L])
  <2>1. \A m \in 0..L : m \in H
    <3> HIDE DEF H, L
    <3> QED BY <1>2, <1>3, <1>4, InductionTo
  <2>2. QED BY <1>2, <2>1
<1>6. QED BY <1>1, <1>5 DEF Best

LEMMA AskedTyped ==
  ASSUME have \in Nat
  PROVE  /\ Asked \in Seq(1..have)
         /\ ToSet(Asked) = IF UsesMark THEN {i \in 1..have : IsAbove(i, low)} ELSE 1..have
         /\ Increases(Asked)
<1>1. CASE UsesMark
  BY <1>1, QuerySelectsAll DEF Asked
<1>2. CASE ~UsesMark
  <2> DEFINE all == [i \in 1..have |-> i]
  <2>1. all \in Seq(1..have)
    BY FunctionIsSeq
  <2>2. ToSet(all) = 1..have
    BY DEF ToSet
  <2>3. Increases(all)
    BY DEF Increases
  <2>4. QED BY <1>2, <2>1, <2>2, <2>3 DEF Asked
<1>3. QED BY <1>1, <1>2

(* A page is the next rows of the query, and is empty only when the offset *)
(* has passed the last one.                                                *)
LEMMA PageTyped ==
  ASSUME NEW S, NEW all \in Seq(S), offset \in Nat, job.page \in Nat \ {0}
  PROVE  /\ Page(all) \in Seq(S)
         /\ ToSet(Page(all)) \subseteq ToSet(all)
         /\ Page(all) = <<>> => offset >= Len(all)
         /\ \A k \in 1..Len(all) :
                offset < k /\ k <= offset + job.page => all[k] \in ToSet(Page(all))
<1> DEFINE L == Len(all)
           last == IF offset + job.page < L THEN offset + job.page ELSE L
           page == SubSeq(all, offset + 1, last)
<1>0. Page(all) = page
  BY DEF Page
<1>1. L \in Nat /\ offset \in Nat /\ job.page \in Nat \ {0}
  BY LenProperties
<1>3. \A k \in 1..L : all[k] \in S /\ all[k] \in ToSet(all)
  BY <1>1, LenProperties, ElementOfSeq DEF ToSet
<1>4. CASE offset < L
  <2>0. offset + 1 \in 1..(L + 1) /\ last \in 0..L
    BY <1>1, <1>4
  <2>1. page \in Seq(S) /\ ToSet(page) = {all[i] : i \in (offset + 1)..last}
    <3> HIDE DEF last
    <3> QED BY <2>0, ToSetSubSeq
  <2>2. offset + 1 \in (offset + 1)..last /\ (offset + 1)..last \subseteq 1..L
    BY <1>1, <1>4
  <2>5. \A k \in 1..L : offset < k /\ k <= offset + job.page => k \in (offset + 1)..last
    BY <1>1
  <2> HIDE DEF page, last, L
  <2>3. ToSet(page) \subseteq ToSet(all) /\ ToSet(page) # {}
    BY <1>3, <2>1, <2>2
  <2>4. page # <<>>
    BY <2>3, ToSetEmpty
  <2>6. QED BY <1>0, <2>1, <2>3, <2>4, <2>5 DEF L
<1>5. CASE offset >= L
  <2>1. offset + 1 \in Int /\ last \in Int /\ last < offset + 1
    BY <1>1, <1>5
  <2>2. page = <<>>
    <3> HIDE DEF last
    <3> QED BY <2>1, SubSeqEmpty
  <2>3. page \in Seq(S) /\ ToSet(page) = {}
    <3> HIDE DEF page
    <3> QED BY <2>2, ToSetEmpty, EmptySeq
  <2> HIDE DEF page
  <2>4. QED BY <1>0, <1>1, <1>5, <2>2, <2>3
<1>6. QED BY <1>1, <1>4, <1>5

(* What depends on the job alone, or on the job and what else is named,    *)
(* stays with it.                                                          *)
LEMMA JobStays ==
  ASSUME job' = job
  PROVE  /\ \A i : MarkRead(i)' = MarkRead(i) /\ Mark(i)' = Mark(i)
         /\ \A i : MarkCell(i)' = MarkCell(i)
         /\ \A i, literal : IsAbove(i, literal)' <=> IsAbove(i, literal)
         /\ MarkType' = MarkType /\ StateFile' = StateFile
         /\ SharesFile' <=> SharesFile
         /\ UsesMark' <=> UsesMark
<1>1. /\ \A i : MarkCell(i)' = MarkCell(i)
      /\ MarkType' = MarkType /\ StateFile' = StateFile
  BY DEF MarkType, MarkCell, StateFile, safe_file_name
<1>2. \A i : MarkRead(i)' = MarkRead(i)
  BY DEF MarkRead, ValueAt, Row, Selected
<1>3. \A i : Mark(i)' = Mark(i)
  BY <1>2 DEF Mark
<1>4. \A i, literal : IsAbove(i, literal)' <=> IsAbove(i, literal)
  BY <1>1 DEF IsAbove
<1>5. SharesFile' <=> SharesFile
  BY <1>1 DEF SharesFile
<1>6. UsesMark' <=> UsesMark
  BY DEF UsesMark, Template
<1>7. QED BY <1>1, <1>2, <1>3, <1>4, <1>5, <1>6

LEMMA AskedStays ==
  ASSUME job' = job, have' = have, low' = low
  PROVE  Asked' = Asked
<1>1. UsesMark' <=> UsesMark
  BY JobStays
<1>2. Query(have, low)' = Query(have, low)
  BY DEF Query, MarkType, MarkCell
<1>3. QED BY <1>1, <1>2 DEF Asked

LEMMA FileMarkStays ==
  ASSUME job' = job, files' = files
  PROVE  FileMark' = FileMark
BY JobStays DEF FileMark

-----------------------------------------------------------------------------
(* The steps of a pass that leave the marks and the query alone: they go   *)
(* on, or the pass ends with Err.                                          *)
QuietStep == RunEtl \/ PushRow \/ Drain \/ Truncate \/ WriteBatch

LEMMA QuietSteps ==
  ASSUME QuietStep, faults \in Nat
  PROVE  /\ job' = job /\ have' = have /\ up' = up /\ mem' = mem /\ files' = files
         /\ low' = low /\ offset' = offset /\ from' = from /\ read' = read /\ passed' = passed
         /\ faults' \in Nat /\ (faults > 0 => faults' > 0)
         /\ \/ erred' = TRUE /\ step' = "idle"
            \/ erred' = erred /\ (step' = step \/ (step = "rows" /\ step' = "reading"))
<1>1. CASE RunEtl
  BY <1>1 DEF RunEtl, ReturnErr, sourceVars
<1>2. CASE PushRow
  BY <1>2 DEF PushRow, PushUpTo, sourceVars, historyVars
<1>3. CASE Drain
  BY <1>3 DEF Drain, sourceVars, historyVars
<1>4. CASE Truncate \/ WriteBatch
  <2>1. faults' \in {faults, faults + 1}
    BY <1>4 DEF Truncate, WriteBatch, Fault
  <2>2. /\ job' = job /\ have' = have /\ up' = up /\ mem' = mem /\ files' = files
        /\ read' = read /\ passed' = passed
        /\ low' = low /\ offset' = offset /\ from' = from
        /\ \/ erred' = TRUE /\ step' = "idle"
           \/ erred' = erred /\ step' = step
    BY <1>4 DEF Truncate, WriteBatch, ReturnErr, sourceVars, historyVars
  <2>3. faults' \in Nat /\ (faults > 0 => faults' > 0)
    BY <2>1
  <2>4. QED BY <2>2, <2>3
<1>5. QED BY <1>1, <1>2, <1>3, <1>4 DEF QuietStep

LEMMA StartSteps ==
  ASSUME StartPass, faults \in Nat
  PROVE  /\ job' = job /\ have' = have /\ up' = up /\ mem' = mem /\ files' = files
         /\ read' = read /\ passed' = passed /\ up /\ step = "idle"
         /\ faults' \in Nat /\ (faults > 0 => faults' > 0)
         /\ \/ erred' = TRUE /\ step' = "idle" /\ offset' = offset
            \/ erred' = erred /\ step' = "gone" /\ offset' = offset
            \/ /\ erred' = erred /\ step' = "reading" /\ offset' = 0 /\ from' = have
               /\ \E schema \in {Schema, ""} :
                     /\ low' = IF UsesMark THEN Resolved(schema) ELSE NoMark
                     /\ schema # Schema => faults' > 0
<1>0. faults + 1 \in Nat /\ faults + 1 > 0
  OBVIOUS
<1>1. PICK schema \in {Schema} \cup IF faults < MaxFaults THEN {""} ELSE {} :
         /\ faults' = IF schema = Schema THEN faults ELSE faults + 1
         /\ LET bad == SelectInSeq(Template, LAMBDA token : ~Expands(token))
            IN  IF bad = 0
                THEN /\ step' = "reading" /\ offset' = 0 /\ from' = have
                     /\ low' = IF UsesMark THEN Resolved(schema) ELSE NoMark
                     /\ UNCHANGED <<todo, out, buckets, batch, writerVars, erred>>
                ELSE IF Panics(Template[bad])
                THEN step' = "gone" /\ UNCHANGED <<low, offset, todo, out, buckets, batch, writerVars, from, erred>>
                ELSE ReturnErr
  BY DEF StartPass
<1>2. schema \in {Schema, ""}
  OBVIOUS
<1>3. faults' \in Nat /\ (faults > 0 => faults' > 0) /\ (schema # Schema => faults' > 0)
  <2>2. CASE schema = Schema
    BY <1>1, <2>2
  <2>3. CASE schema # Schema
    <3>1. faults' = faults + 1
      BY <1>1, <2>3
    <3>2. QED BY <1>0, <3>1
  <2>4. QED BY <2>2, <2>3
<1>4. \/ erred' = TRUE /\ step' = "idle" /\ offset' = offset
      \/ erred' = erred /\ step' = "gone" /\ offset' = offset
      \/ /\ erred' = erred /\ step' = "reading" /\ offset' = 0 /\ from' = have
         /\ low' = IF UsesMark THEN Resolved(schema) ELSE NoMark
  BY <1>1 DEF ReturnErr
<1>5. /\ job' = job /\ have' = have /\ up' = up /\ mem' = mem /\ files' = files
      /\ read' = read /\ passed' = passed /\ up /\ step = "idle"
  BY DEF StartPass, sourceVars, historyVars
<1>6. QED BY <1>2, <1>3, <1>4, <1>5

LEMMA NextPageSteps ==
  ASSUME NextPage
  PROVE  /\ job' = job /\ have' = have /\ up' = up /\ files' = files /\ low' = low /\ from' = from
         /\ passed' = passed /\ faults' = faults /\ step = "reading"
         /\ \/ /\ erred' = TRUE /\ step' = "idle"
               /\ mem' = mem /\ read' = read /\ offset' = offset
            \/ /\ erred' = erred /\ (UsesMark => Comparable(job.source, MarkType, low))
               /\ step' = IF Page(Asked) = <<>> THEN "draining" ELSE "rows"
               /\ mem' = UpdateState(Page(Asked)) /\ offset' = offset + job.page
               /\ DOMAIN read' = DOMAIN read \cup ToSet(Page(Asked))
               /\ \A i \in DOMAIN read' :
                     read'[i] = IF i \in ToSet(Page(Asked)) THEN have ELSE read[i]
<1> DEFINE page == Page(Asked)
<1>1. /\ job' = job /\ have' = have /\ up' = up /\ files' = files
      /\ passed' = passed /\ faults' = faults /\ step = "reading"
  BY DEF NextPage, sourceVars
<1>2. IF UsesMark /\ ~Comparable(job.source, MarkType, low)
      THEN ReturnErr /\ UNCHANGED <<mem, read>>
      ELSE /\ offset' = offset + job.page
           /\ step' = IF page = <<>> THEN "draining" ELSE "rows"
           /\ todo' = page /\ mem' = UpdateState(page)
           /\ read' = [i \in DOMAIN read \cup ToSet(page) |-> IF i \in ToSet(page) THEN have ELSE read[i]]
           /\ UNCHANGED <<low, out, buckets, batch, from, erred>>
  BY DEF NextPage
<1> HIDE DEF page
<1>3. CASE UsesMark /\ ~Comparable(job.source, MarkType, low)
  BY <1>1, <1>2, <1>3 DEF ReturnErr
<1>4. CASE ~(UsesMark /\ ~Comparable(job.source, MarkType, low))
  BY <1>1, <1>2, <1>4 DEF page
<1>5. QED BY <1>3, <1>4

-----------------------------------------------------------------------------
(* The type of the state.                                                  *)

LEMMA TypedAtFirst ==
  ASSUME PathInit
  PROVE  PathTyped
<1>1. JobIsGiven /\ have = job.initial
  BY DEF PathInit, JobIsGiven
<1>2. have \in 0..Len(job.rows)
  BY <1>1, JobFacts
<1>3. /\ passed = 0 /\ offset = 0 /\ faults = 0 /\ read = <<>> /\ mem = NoMark /\ files = <<>> /\ step = "idle"
  BY DEF PathInit
<1>4. DOMAIN read = {} /\ FileMark = NoMark
  BY <1>3 DEF FileMark
<1>5. passed \in 0..have
  <2>1. have \in Nat
    BY <1>1, <1>2, JobFacts
  <2>2. QED BY <1>3, <2>1
<1>6. QED BY <1>1, <1>2, <1>3, <1>4, <1>5 DEF PathTyped, JobIsGiven, InPass

\* What the type says of the numbers.
LEMMA Numbers ==
  ASSUME PathTyped
  PROVE  /\ JobIsGiven /\ have \in Nat /\ Len(job.rows) \in Nat /\ have <= Len(job.rows)
         /\ job.page \in Nat \ {0} /\ passed \in Nat /\ passed <= have
         /\ 1..have \subseteq 1..Len(job.rows)
<1>1. JobIsGiven /\ have \in 0..Len(job.rows) /\ passed \in 0..have
  BY DEF PathTyped, JobIsGiven
<1>2. Len(job.rows) \in Nat /\ job.page \in Nat \ {0}
  BY <1>1, JobFacts
<1>3. QED BY <1>1, <1>2

LEMMA SourceInsertTyped ==
  ASSUME PathTyped, SourceInsert
  PROVE  PathTyped'
<1>1. /\ job' = job /\ have' = have + 1 /\ have < Len(job.rows) /\ step = "idle" /\ step' = step
      /\ passed' = passed /\ offset' = offset /\ faults' = faults /\ read' = read /\ mem' = mem /\ files' = files
  BY DEF SourceInsert, passVars, historyVars
<1>2. have' \in 0..Len(job.rows) /\ have' \in Nat /\ have \in Nat /\ passed \in 0..have /\ have <= have'
  <2>1. have \in Nat /\ Len(job.rows) \in Nat /\ passed \in 0..have
    BY Numbers
  <2>2. QED BY <1>1, <2>1
<1>3. 0..have \subseteq 0..have' /\ 1..have \subseteq 1..have'
  BY <1>2
<1>4. FileMark' = FileMark
  BY <1>1, FileMarkStays
<1>5. QED BY <1>1, <1>2, <1>3, <1>4 DEF PathTyped, InPass

\* The steps that change neither the source nor what was read.
LEMMA ReadStays ==
  ASSUME PathTyped, job' = job, have' = have, read' = read, passed' = passed,
         offset' \in Nat, faults' \in Nat,
         mem' \in MarkValues \cup {NoMark}, FileMark' \in MarkFiles \cup {NoMark},
         InPass' => up' /\ from' = have'
  PROVE  PathTyped'
BY DEF PathTyped

(* After a page the mark is what it was or that of a row of the page.      *)
LEMMA MarkAfterPage ==
  ASSUME PathTyped
  PROVE  /\ ToSet(Page(Asked)) \subseteq 1..have
         /\ UsesMark => \A i \in ToSet(Page(Asked)) : IsAbove(i, low)
         /\ \/ UpdateState(Page(Asked)) = mem
            \/ /\ UpdateState(Page(Asked)) \in MarkValues
               /\ \E i \in ToSet(Page(Asked)) :
                     MarkRead(i) # Null /\ state_to_literal(UpdateState(Page(Asked))) = Mark(i)
<1>1. /\ Asked \in Seq(1..have)
      /\ ToSet(Asked) = IF UsesMark THEN {i \in 1..have : IsAbove(i, low)} ELSE 1..have
  BY Numbers, AskedTyped
<1>2. offset \in Nat /\ job.page \in Nat \ {0}
  BY Numbers DEF PathTyped
<1>3. Page(Asked) \in Seq(1..have) /\ ToSet(Page(Asked)) \subseteq ToSet(Asked)
  BY <1>1, <1>2, PageTyped
<1> DEFINE page == Page(Asked)
<1> HIDE DEF page
<1>4. \/ UpdateState(page) = mem
      \/ \E i \in ToSet(page) : MarkRead(i) # Null /\ UpdateState(page) = MarkRead(i)
  BY <1>3, UpdateStateTakesARow DEF page
<1>5. ASSUME NEW i \in ToSet(page), MarkRead(i) # Null, UpdateState(page) = MarkRead(i)
      PROVE  /\ UpdateState(page) \in MarkValues
             /\ state_to_literal(UpdateState(page)) = Mark(i)
  <2>1. i \in 1..Len(job.rows) /\ JobIsGiven
    BY <1>1, <1>3, Numbers DEF page
  <2>2. MarkRead(i) \in MarkValues
    BY <2>1, <1>5, RowHasMark
  <2>3. QED BY <1>5, <2>2 DEF Mark
<1>6. QED BY <1>1, <1>3, <1>4, <1>5 DEF page

LEMMA FileMarkAfterSave ==
  ASSUME Save
  PROVE  /\ FileMark' = IF mem = NoMark THEN NoMark ELSE ToJson(mem)
         /\ job' = job /\ have' = have /\ up' = up /\ mem' = mem /\ read' = read /\ passed' = from
         /\ low' = low /\ offset' = offset /\ from' = from /\ faults' = faults /\ erred' = erred
         /\ up /\ step = "draining" /\ step' = "idle"
<1>1. /\ job' = job /\ have' = have /\ up' = up /\ mem' = mem /\ read' = read /\ passed' = from
      /\ low' = low /\ offset' = offset /\ from' = from /\ faults' = faults /\ erred' = erred
      /\ up /\ step = "draining" /\ step' = "idle"
  BY DEF Save, sourceVars
<1>2. files' = Saved(StateFile, IF mem = NoMark THEN NoMark ELSE ToJson(mem))
  BY DEF Save
<1>3. FileMark' = IF mem = NoMark THEN NoMark ELSE ToJson(mem)
  BY <1>1, <1>2, JobStays DEF FileMark, Saved
<1>4. QED BY <1>1, <1>3

LEMMA FileMarkAfterNeighbour ==
  ASSUME NeighbourSaves
  PROVE  /\ FileMark' = IF SharesFile THEN ToJson(job.neighbour_mark) ELSE FileMark
         /\ job' = job /\ have' = have /\ up' = up /\ mem' = mem /\ read' = read /\ passed' = passed
         /\ low' = low /\ offset' = offset /\ from' = from /\ faults' = faults /\ erred' = erred
         /\ step' = step
<1>1. /\ job' = job /\ have' = have /\ up' = up /\ mem' = mem /\ read' = read /\ passed' = passed
      /\ low' = low /\ offset' = offset /\ from' = from /\ faults' = faults /\ erred' = erred
      /\ step' = step
  BY DEF NeighbourSaves, sourceVars, passVars, historyVars
<1>2. job.neighbour # <<>> /\ files' = Saved(safe_file_name(job.neighbour), ToJson(job.neighbour_mark))
  BY DEF NeighbourSaves
<1> DEFINE file == safe_file_name(job.neighbour)
           mark == ToJson(job.neighbour_mark)
<1>3. StateFile' = StateFile
  BY <1>1, JobStays
<1>4. SharesFile <=> file = StateFile
  BY <1>2 DEF SharesFile
<1> HIDE DEF file, mark
<1>5. files' = [f \in DOMAIN files \cup {file} |-> IF f = file THEN mark ELSE files[f]]
  BY <1>2 DEF Saved, file, mark
<1>6. FileMark' = IF file = StateFile THEN mark ELSE FileMark
  BY <1>3, <1>5 DEF FileMark
<1>7. QED BY <1>1, <1>4, <1>6 DEF mark

LEMMA RestartSteps ==
  ASSUME Restart
  PROVE  /\ mem' = IF FileMark = NoMark THEN NoMark ELSE FromJson(FileMark)
         /\ job' = job /\ have' = have /\ files' = files /\ read' = read /\ passed' = passed
         /\ low' = low /\ offset' = offset /\ from' = from /\ faults' = faults /\ erred' = erred
         /\ ~up /\ up' /\ step' = step
BY DEF Restart, FileMark, sourceVars, passVars, historyVars

LEMMA CrashSteps ==
  ASSUME Crash
  PROVE  /\ job' = job /\ have' = have /\ files' = files /\ read' = read /\ passed' = passed
         /\ mem' = NoMark /\ offset' = 0 /\ faults' = faults /\ erred' = erred
         /\ ~up' /\ step' = "idle"
BY DEF Crash, sourceVars

LEMMA TypedAfterStep ==
  ASSUME PathTyped, [PathNext]_pathVars
  PROVE  PathTyped'
<1> USE DEF InPass
<1>0. /\ mem \in MarkValues \cup {NoMark} /\ FileMark \in MarkFiles \cup {NoMark}
      /\ offset \in Nat /\ faults \in Nat /\ (InPass => up /\ from = have)
  BY DEF PathTyped
<1>1. CASE StartPass
  <2>1. FileMark' = FileMark
    BY <1>1, <1>0, StartSteps, FileMarkStays
  <2>2. offset' \in Nat /\ faults' \in Nat /\ (InPass' => up' /\ from' = have')
    <3>1. /\ faults' \in Nat /\ up' = up /\ up /\ have' = have
          /\ \/ step' \in {"idle", "gone"} /\ offset' = offset
             \/ step' = "reading" /\ offset' = 0 /\ from' = have
      BY <1>1, <1>0, StartSteps
    <3>2. QED BY <1>0, <3>1
  <2>3. /\ job' = job /\ have' = have /\ read' = read /\ passed' = passed
        /\ mem' \in MarkValues \cup {NoMark}
    BY <1>1, <1>0, StartSteps
  <2>4. QED BY <1>0, <2>1, <2>2, <2>3, ReadStays
<1>2. CASE NextPage
  <2>1. FileMark' = FileMark
    BY <1>2, NextPageSteps, FileMarkStays
  <2>2. CASE erred' = TRUE /\ step' = "idle" /\ mem' = mem /\ read' = read /\ offset' = offset
    BY <1>0, <1>2, <2>1, <2>2, NextPageSteps, ReadStays
  <2>3. CASE ~(erred' = TRUE /\ step' = "idle" /\ mem' = mem /\ read' = read /\ offset' = offset)
    <3> DEFINE page == Page(Asked)
    <3>1. /\ job' = job /\ have' = have /\ passed' = passed /\ faults' = faults
          /\ up' = up /\ from' = from /\ step = "reading"
          /\ mem' = UpdateState(page) /\ offset' = offset + job.page
          /\ DOMAIN read' = DOMAIN read \cup ToSet(page)
          /\ \A i \in DOMAIN read' : read'[i] = IF i \in ToSet(page) THEN have ELSE read[i]
      BY <1>2, <2>3, NextPageSteps
    <3>2. /\ ToSet(page) \subseteq 1..have
          /\ UpdateState(page) \in MarkValues \cup {NoMark}
      BY <1>0, MarkAfterPage
    <3> HIDE DEF page
    <3>3. offset' \in Nat
      <4>1. job.page \in Nat
        BY Numbers
      <4>2. QED BY <1>0, <3>1, <4>1
    <3>4. have \in 0..have
      BY Numbers
    <3>5. DOMAIN read \subseteq 1..have /\ \A k \in DOMAIN read : read[k] \in 0..have
      BY DEF PathTyped
    <3>6. DOMAIN read' \subseteq 1..have /\ \A k \in DOMAIN read' : read'[k] \in 0..have
      BY <3>1, <3>2, <3>4, <3>5
    <3>7. QED BY <1>0, <2>1, <3>1, <3>2, <3>3, <3>6 DEF PathTyped
  <2>4. QED BY <2>2, <2>3
<1>3. CASE QuietStep
  <2>1. FileMark' = FileMark
    BY <1>3, <1>0, QuietSteps, FileMarkStays
  <2>2. QED BY <1>0, <1>3, <2>1, QuietSteps, ReadStays
<1>4. CASE Save
  <2>1. FileMark' \in MarkFiles \cup {NoMark}
    BY <1>0, <1>4, FileMarkAfterSave, MarkSurvivesFile
  <2>2. passed' = have
    BY <1>0, <1>4, FileMarkAfterSave
  <2>3. have \in 0..have
    BY Numbers
  <2>4. QED BY <1>0, <1>4, <2>1, <2>2, <2>3, FileMarkAfterSave DEF PathTyped
<1>5. CASE SourceInsert
  BY <1>5, SourceInsertTyped
<1>6. CASE NeighbourSaves
  <2>1. job.neighbour_mark \in MarkValues \cup {NoMark}
    BY Numbers, JobFacts
  <2>2. ToJson(NoMark) = NoMark
    BY DEF ToJson, NoMark, Is, IsText
  <2>3. FileMark' \in MarkFiles \cup {NoMark}
    BY <1>0, <1>6, <2>1, <2>2, FileMarkAfterNeighbour, MarkSurvivesFile
  <2>4. QED BY <1>0, <1>6, <2>3, FileMarkAfterNeighbour, ReadStays
<1>7. CASE Crash
  <2>1. FileMark' = FileMark
    BY <1>7, CrashSteps, FileMarkStays
  <2>2. QED BY <1>0, <1>7, <2>1, CrashSteps, ReadStays
<1>8. CASE Restart
  <2>1. FileMark' = FileMark
    BY <1>8, RestartSteps, FileMarkStays
  <2>2. mem' \in MarkValues \cup {NoMark}
    BY <1>0, <1>8, RestartSteps, FileGivesMark
  <2>3. QED BY <1>0, <1>8, <2>1, <2>2, RestartSteps, ReadStays
<1>9. CASE UNCHANGED pathVars
  <2>1. /\ job' = job /\ have' = have /\ read' = read /\ passed' = passed /\ up' = up /\ step' = step
        /\ mem' = mem /\ files' = files /\ offset' = offset /\ faults' = faults /\ from' = from
    BY <1>9 DEF pathVars, sourceVars, passVars, historyVars
  <2>2. FileMark' = FileMark
    BY <2>1, FileMarkStays
  <2>3. QED BY <1>0, <2>1, <2>2, ReadStays
<1>10. QED BY <1>1, <1>2, <1>3, <1>4, <1>5, <1>6, <1>7, <1>8, <1>9 DEF PathNext, PathStep, QuietStep

(* The mark, in memory and in the file, has a type the state file can hold, *)
(* and what was read is a part of what the source had.                     *)
THEOREM PathTypeCorrect == PathSpec => []PathTyped
<1>1. PathInit => PathTyped
  BY TypedAtFirst
<1>2. PathTyped /\ [PathNext]_pathVars => PathTyped'
  BY TypedAfterStep
<1>3. QED BY <1>1, <1>2, PTL DEF PathSpec

-----------------------------------------------------------------------------
(* The counters, pages, buckets and batches.                               *)

Counted ==
    /\ passes \in 0..MaxPasses /\ faults \in 0..MaxFaults /\ crashes \in 0..MaxCrashes
    /\ {up, erred} \subseteq BOOLEAN
    /\ step \in {"idle", "reading", "rows", "draining", "gone"}
    /\ step # "idle" => up
Grown ==
    /\ have >= job.initial /\ from \in 0..have
    /\ todo \in Seq(1..have)
BucketFits(t) ==
    /\ buckets[t] \in Seq(ToSet(buckets[t]))
    /\ Len(buckets[t]) \in 1..(job.threshold - 1)
Bucketed ==
    /\ \A t \in DOMAIN buckets : BucketFits(t)
    /\ Len(batch.rows) <= job.threshold
    /\ DOMAIN target = DOMAIN job.tables
WriterTyped == truncated \subseteq DOMAIN target /\ attempt \in 0..job.retry
DataInv == PathTyped /\ Counted /\ Grown /\ Bucketed /\ WriterTyped

LEMMA CountedAfterStep ==
  ASSUME Counted, [PathNext]_pathVars
  PROVE  Counted'
<1>1. MaxPasses \in Nat /\ MaxFaults \in Nat /\ MaxCrashes \in Nat
  BY BoundsAssumption
<1>2. CASE StartPass
  <2>1. passes' \in 0..MaxPasses
    <3>1. passes' = passes + 1 /\ passes < MaxPasses
      BY <1>2 DEF StartPass
    <3>2. QED BY <1>1, <3>1 DEF Counted
  <2>2. faults' \in 0..MaxFaults
    <3>1. faults' = faults \/ (faults' = faults + 1 /\ faults < MaxFaults)
      BY <1>2 DEF StartPass
    <3>2. QED BY <1>1, <3>1 DEF Counted
  <2>3. crashes' = crashes /\ up' = up /\ up
    BY <1>2 DEF StartPass
  <2>4. faults \in Nat
    BY <1>1 DEF Counted
  <2>5. erred' = TRUE \/ erred' = erred
    BY <1>2, <2>4, StartSteps
  <2>6. step' \in {"idle", "gone", "reading"}
    BY <1>2, <2>4, StartSteps
  <2>7. QED BY <2>1, <2>2, <2>3, <2>5, <2>6 DEF Counted
<1>3. CASE NextPage
  <2>1. up' = up /\ faults' = faults /\ (erred' = TRUE \/ erred' = erred) /\ step' \in {"idle", "draining", "rows"}
    BY <1>3, NextPageSteps
  <2>2. passes' = passes /\ crashes' = crashes /\ up
    BY <1>3 DEF NextPage
  <2>3. QED BY <2>1, <2>2 DEF Counted
<1>4. CASE QuietStep
  <2>1. faults \in Nat
    BY <1>1 DEF Counted
  <2>2. /\ up' = up /\ (erred' = TRUE \/ erred' = erred)
        /\ step' = "idle" \/ step' = step \/ (step = "rows" /\ step' = "reading")
    BY <1>4, <2>1, QuietSteps
  <2>3. passes' = passes /\ crashes' = crashes
    BY <1>4 DEF QuietStep, RunEtl, PushRow, PushUpTo, Drain, Truncate, WriteBatch
  <2>4. faults' = faults \/ (faults' = faults + 1 /\ faults < MaxFaults)
    <3>1. CASE Truncate \/ WriteBatch
      BY <3>1 DEF Truncate, WriteBatch, Fault
    <3>2. CASE RunEtl \/ PushRow \/ Drain
      BY <3>2 DEF RunEtl, PushRow, PushUpTo, Drain
    <3>3. QED BY <1>4, <3>1, <3>2 DEF QuietStep
  <2>5. faults' \in 0..MaxFaults
    BY <1>1, <2>4 DEF Counted
  <2>6. QED BY <2>2, <2>3, <2>5 DEF Counted
<1>5. CASE Save
  BY <1>5 DEF Save, Counted
<1>6. CASE SourceInsert
  BY <1>6 DEF SourceInsert, Counted, passVars
<1>7. CASE NeighbourSaves
  BY <1>7 DEF NeighbourSaves, Counted, passVars
<1>8. CASE Crash
  <2>1. crashes' \in 0..MaxCrashes
    <3>1. crashes' = crashes + 1 /\ crashes < MaxCrashes
      BY <1>8 DEF Crash
    <3>2. QED BY <1>1, <3>1 DEF Counted
  <2>2. QED BY <1>8, <2>1 DEF Crash, Counted
<1>9. CASE Restart
  BY <1>9 DEF Restart, Counted, passVars
<1>10. CASE UNCHANGED pathVars
  BY <1>10 DEF pathVars, Counted, passVars
<1>11. QED BY <1>2, <1>3, <1>4, <1>5, <1>6, <1>7, <1>8, <1>9, <1>10 DEF PathNext, PathStep, QuietStep

LEMMA GrownAfterStep ==
  ASSUME PathTyped, Grown, [PathNext]_pathVars
  PROVE  Grown'
<1>1. /\ JobIsGiven /\ have \in Nat /\ job.initial \in Nat /\ job.page \in Nat \ {0}
      /\ offset \in Nat /\ faults \in Nat
  <2>1. Len(job.rows) \in Nat /\ job.initial \in 0..Len(job.rows)
    BY Numbers, JobFacts
  <2>2. QED BY <2>1, Numbers DEF PathTyped
<1>2. \A S : <<>> \in Seq(S)
  OBVIOUS
<1>3. ASSUME job' = job, have' = have, from' \in {from, have, 0}, todo' \in Seq(1..have) PROVE Grown'
  BY <1>1, <1>3 DEF Grown
<1>4. CASE StartPass
  <2>1. job' = job /\ have' = have
    BY <1>1, <1>4, StartSteps
  <2>2. from' \in {from, have} /\ (todo' = <<>> \/ todo' = todo)
    BY <1>4 DEF StartPass, ReturnErr
  <2>3. QED BY <1>2, <1>3, <2>1, <2>2 DEF Grown
<1>5. CASE NextPage
  <2>1. job' = job /\ have' = have /\ from' = from
    BY <1>5, NextPageSteps
  <2>2. todo' = <<>> \/ todo' = Page(Asked)
    BY <1>5 DEF NextPage, ReturnErr
  <2>3. Page(Asked) \in Seq(1..have)
    BY <1>1, AskedTyped, PageTyped
  <2>4. QED BY <1>2, <1>3, <2>1, <2>2, <2>3
<1>6. CASE QuietStep
  <2>1. job' = job /\ have' = have /\ from' = from
    BY <1>1, <1>6, QuietSteps
  <2>2. todo' \in {todo, <<>>} \/ (todo # <<>> /\ todo' = Tail(todo))
    <3>1. CASE RunEtl
      BY <3>1 DEF RunEtl, ReturnErr
    <3>2. CASE Truncate \/ WriteBatch
      BY <3>2 DEF Truncate, WriteBatch, ReturnErr
    <3>3. CASE PushRow \/ Drain
      BY <3>3 DEF PushRow, PushUpTo, Drain
    <3>4. QED BY <1>6, <3>1, <3>2, <3>3 DEF QuietStep
  <2>3. todo # <<>> => Tail(todo) \in Seq(1..have)
    BY HeadTailProperties DEF Grown
  <2>4. QED BY <1>2, <1>3, <2>1, <2>2, <2>3 DEF Grown
<1>7. CASE Save
  BY <1>3, <1>7 DEF Save, Grown, sourceVars
<1>8. CASE SourceInsert
  <2>1. job' = job /\ have' = have + 1 /\ from' = from /\ todo' = todo
    BY <1>8 DEF SourceInsert, passVars
  <2>2. 1..have \subseteq 1..(have + 1) /\ from \in 0..(have + 1) /\ have + 1 >= job.initial
    BY <1>1 DEF Grown
  <2>3. todo \in Seq(1..(have + 1))
    <3>1. \A S, T : S \subseteq T => Seq(S) \subseteq Seq(T)
      OBVIOUS
    <3>2. QED BY <2>2, <3>1 DEF Grown
  <2>4. QED BY <2>1, <2>2, <2>3 DEF Grown
<1>9. CASE NeighbourSaves
  BY <1>3, <1>9 DEF NeighbourSaves, Grown, sourceVars, passVars
<1>10. CASE Crash
  BY <1>2, <1>3, <1>10 DEF Crash, sourceVars
<1>11. CASE Restart
  BY <1>3, <1>11 DEF Restart, Grown, sourceVars, passVars
<1>12. CASE UNCHANGED pathVars
  BY <1>3, <1>12 DEF pathVars, Grown, sourceVars, passVars
<1>13. QED BY <1>4, <1>5, <1>6, <1>7, <1>8, <1>9, <1>10, <1>11, <1>12 DEF PathNext, PathStep, QuietStep

(* A row goes to the end of its bucket, which becomes the batch when it is *)
(* full.                                                                   *)
LEMMA PushFits ==
  ASSUME Bucketed, PushRow, job.threshold \in Nat \ {0}
  PROVE  Bucketed'
<1> DEFINE t == Head(out).table
           old == IF t \in DOMAIN buckets THEN buckets[t] ELSE <<>>
           row == Head(out).row
           bucket == Append(old, row)
           S == ToSet(old) \cup {row}
           full == Len(bucket) >= job.threshold
<1>1. /\ buckets' = IF full THEN Without(buckets, t) ELSE With(buckets, t, bucket)
      /\ batch' = IF full THEN [table |-> t, rows |-> bucket] ELSE NoBatch
      /\ job' = job /\ target' = target
  BY DEF PushRow, PushUpTo, sourceVars
<1>2. old \in Seq(ToSet(old)) /\ Len(old) \in 0..(job.threshold - 1)
  <2>1. CASE t \in DOMAIN buckets
    <3>1. BucketFits(t) /\ old = buckets[t]
      BY <2>1 DEF Bucketed
    <3>2. QED BY <3>1 DEF BucketFits
  <2>2. CASE t \notin DOMAIN buckets
    <3>1. old = <<>>
      BY <2>2
    <3>2. <<>> \in Seq(ToSet(<<>>)) /\ Len(<<>>) = 0
      OBVIOUS
    <3>3. 0 \in 0..(job.threshold - 1)
      OBVIOUS
    <3> HIDE DEF old
    <3>4. QED BY <3>1, <3>2, <3>3
  <2>3. QED BY <2>1, <2>2
<1>3. Len(bucket) = Len(old) + 1 /\ bucket \in Seq(ToSet(bucket))
  <2>1. old \in Seq(S) /\ row \in S
    BY <1>2
  <2>2. bucket \in Seq(S) /\ Len(bucket) = Len(old) + 1
    BY <2>1, AppendProperties
  <2>3. QED BY <2>2, OverItsElements
<1> HIDE DEF t, bucket, old
<1>4. Len(bucket) \in 1..job.threshold
  BY <1>2, <1>3
<1>5. Len(batch'.rows) <= job.threshold
  <2>1. Len(NoBatch.rows) = 0
    BY DEF NoBatch
  <2>2. QED BY <1>1, <1>4, <2>1
<1>6. \A k \in DOMAIN buckets' :
         \/ k = t /\ buckets'[k] = bucket /\ ~full
         \/ k \in DOMAIN buckets /\ buckets'[k] = buckets[k]
  <2>1. CASE full
    BY <1>1, <2>1 DEF Without
  <2>2. CASE ~full
    BY <1>1, <2>2 DEF With
  <2>3. QED BY <2>1, <2>2
<1>7. ASSUME NEW k \in DOMAIN buckets'
      PROVE  buckets'[k] \in Seq(ToSet(buckets'[k])) /\ Len(buckets'[k]) \in 1..(job.threshold - 1)
  <2>1. CASE buckets'[k] = bucket /\ ~full
    <3>1. Len(bucket) \in 1..(job.threshold - 1)
      BY <1>4, <2>1
    <3>2. QED BY <1>3, <2>1, <3>1
  <2>2. CASE k \in DOMAIN buckets /\ buckets'[k] = buckets[k]
    BY <2>2 DEF Bucketed, BucketFits
  <2>3. QED BY <1>6, <1>7, <2>1, <2>2
<1>8. QED BY <1>1, <1>5, <1>7 DEF Bucketed, BucketFits

LEMMA BucketedAfterStep ==
  ASSUME PathTyped, Bucketed, [PathNext]_pathVars
  PROVE  Bucketed'
<1>1. job.threshold \in Nat \ {0} /\ faults \in Nat
  BY Numbers, JobFacts DEF PathTyped
<1>2. Len(NoBatch.rows) = 0 /\ DOMAIN <<>> = {}
  BY DEF NoBatch
<1>3. ASSUME job' = job, DOMAIN target' = DOMAIN target, buckets' \in {buckets, <<>>}, batch' \in {batch, NoBatch}
      PROVE  Bucketed'
  <2>1. Len(batch'.rows) <= job.threshold
    BY <1>1, <1>2, <1>3 DEF Bucketed
  <2>2. \A t \in DOMAIN buckets' : t \in DOMAIN buckets /\ buckets'[t] = buckets[t]
    BY <1>2, <1>3
  <2>3. QED BY <1>3, <2>1, <2>2 DEF Bucketed, BucketFits
<1>4. CASE StartPass
  <2>1. job' = job /\ target' = target
    BY <1>4 DEF StartPass, sourceVars
  <2>2. buckets' \in {buckets, <<>>} /\ batch' \in {batch, NoBatch}
    BY <1>4 DEF StartPass, ReturnErr
  <2>3. QED BY <1>3, <2>1, <2>2
<1>5. CASE NextPage
  <2>1. job' = job /\ target' = target
    BY <1>5 DEF NextPage, sourceVars
  <2>2. buckets' \in {buckets, <<>>} /\ batch' \in {batch, NoBatch}
    BY <1>5 DEF NextPage, ReturnErr
  <2>3. QED BY <1>3, <2>1, <2>2
<1>6. CASE RunEtl
  <2>1. job' = job /\ target' = target
    BY <1>6 DEF RunEtl, sourceVars
  <2>2. buckets' \in {buckets, <<>>} /\ batch' \in {batch, NoBatch}
    BY <1>6 DEF RunEtl, ReturnErr
  <2>3. QED BY <1>3, <2>1, <2>2
<1>7. CASE PushRow
  BY <1>1, <1>7, PushFits
<1>8. CASE Drain
  <2>1. PICK t \in DOMAIN buckets : batch' = [table |-> t, rows |-> buckets[t]] /\ buckets' = Without(buckets, t)
    BY <1>8 DEF Drain
  <2>2. job' = job /\ target' = target
    BY <1>8 DEF Drain, sourceVars
  <2>3. Len(batch'.rows) <= job.threshold
    <3>1. Len(buckets[t]) \in 1..(job.threshold - 1)
      BY DEF Bucketed, BucketFits
    <3>2. QED BY <1>1, <2>1, <3>1
  <2>4. \A k \in DOMAIN buckets' : k \in DOMAIN buckets /\ buckets'[k] = buckets[k]
    BY <2>1 DEF Without
  <2>5. QED BY <2>2, <2>3, <2>4 DEF Bucketed, BucketFits
<1>9. CASE Truncate \/ WriteBatch
  <2>1. job' = job /\ DOMAIN target' = DOMAIN target
    BY <1>9 DEF Truncate, WriteBatch, sourceVars
  <2>2. buckets' \in {buckets, <<>>} /\ batch' \in {batch, NoBatch}
    BY <1>9 DEF Truncate, WriteBatch, ReturnErr
  <2>3. QED BY <1>3, <2>1, <2>2
<1>10. CASE Save
  BY <1>3, <1>10 DEF Save, sourceVars
<1>11. CASE SourceInsert
  BY <1>3, <1>11 DEF SourceInsert, passVars
<1>12. CASE NeighbourSaves
  BY <1>3, <1>12 DEF NeighbourSaves, sourceVars, passVars
<1>13. CASE Crash
  BY <1>3, <1>13 DEF Crash, sourceVars
<1>14. CASE Restart
  BY <1>3, <1>14 DEF Restart, sourceVars, passVars
<1>15. CASE UNCHANGED pathVars
  BY <1>3, <1>15 DEF pathVars, sourceVars, passVars
<1>16. QED BY <1>4, <1>5, <1>6, <1>7, <1>8, <1>9, <1>10, <1>11, <1>12, <1>13, <1>14, <1>15
          DEF PathNext, PathStep

\* A batch is tried again as long as it has been tried at most `retry` times.
LEMMA WriterTypedAfterStep ==
  ASSUME PathTyped, WriterTyped, [PathNext]_pathVars
  PROVE  WriterTyped'
<1>1. job.retry \in Nat
  BY Numbers, JobFacts DEF PathTyped
<1>2. ASSUME job' = job, DOMAIN target' = DOMAIN target, truncated' \in {truncated, {}}, attempt' \in {attempt, 0}
      PROVE  WriterTyped'
  BY <1>1, <1>2 DEF WriterTyped
<1>3. ASSUME job' = job, target' = target, truncated' \in {truncated, {}}, attempt' \in {attempt, 0}
      PROVE  WriterTyped'
  BY <1>2, <1>3
<1>4. CASE StartPass \/ NextPage \/ RunEtl
  BY <1>3, <1>4 DEF StartPass, NextPage, RunEtl, ReturnErr, sourceVars, writerVars
<1>5. CASE PushRow \/ Drain
  BY <1>3, <1>5 DEF PushRow, PushUpTo, Drain, sourceVars, writerVars
<1>6. CASE Truncate
  <2>1. job' = job /\ DOMAIN target' = DOMAIN target
    BY <1>6 DEF Truncate, sourceVars
  <2>2. \/ batch.table \in DOMAIN target /\ truncated' = truncated \cup {batch.table} /\ attempt' = attempt
        \/ truncated' = {} /\ attempt' = 0
    BY <1>6 DEF Truncate, ReturnErr
  <2>3. QED BY <1>2, <2>1, <2>2 DEF WriterTyped
<1>7. CASE WriteBatch
  <2>1. job' = job /\ DOMAIN target' = DOMAIN target
    BY <1>7 DEF WriteBatch, sourceVars
  <2>2. \/ truncated' = truncated /\ attempt' = 0
        \/ truncated' = truncated /\ attempt' = attempt + 1 /\ attempt < job.retry
        \/ truncated' = {} /\ attempt' = 0
    BY <1>7 DEF WriteBatch, ReturnErr
  <2>3. attempt < job.retry => attempt + 1 \in 0..job.retry
    BY <1>1 DEF WriterTyped
  <2>4. QED BY <1>1, <2>1, <2>2, <2>3 DEF WriterTyped
<1>8. CASE Save \/ Crash
  BY <1>3, <1>8 DEF Save, Crash, sourceVars
<1>9. CASE SourceInsert \/ NeighbourSaves \/ Restart
  BY <1>3, <1>9 DEF SourceInsert, NeighbourSaves, Restart, sourceVars, passVars, writerVars
<1>10. CASE UNCHANGED pathVars
  BY <1>3, <1>10 DEF pathVars, sourceVars, passVars, writerVars
<1>11. QED BY <1>4, <1>5, <1>6, <1>7, <1>8, <1>9, <1>10 DEF PathNext, PathStep

LEMMA DataTyped ==
  ASSUME DataInv
  PROVE  DataTypeOK
<1>1. /\ have \in job.initial..Len(job.rows) /\ {from, passed} \subseteq 0..have
      /\ offset \in Nat /\ DOMAIN read \subseteq 1..have
  <2>1. Len(job.rows) \in Nat /\ job.initial \in 0..Len(job.rows)
    BY Numbers, JobFacts DEF DataInv
  <2>2. have \in 0..Len(job.rows) /\ have >= job.initial
    BY DEF DataInv, PathTyped, Grown
  <2>3. {from, passed} \subseteq 0..have /\ offset \in Nat /\ DOMAIN read \subseteq 1..have
    BY DEF DataInv, PathTyped, Grown
  <2>4. QED BY <2>1, <2>2, <2>3
<1>2. ToSet(todo) \subseteq 1..have
  BY ToSetIn DEF DataInv, Grown
<1>3. QED BY <1>1, <1>2 DEF DataInv, Counted, Bucketed, BucketFits, WriterTyped, DataTypeOK

LEMMA DataInvariant == PathSpec => []DataInv
<1>1. PathInit => Counted /\ Grown /\ Bucketed /\ WriterTyped
  <2> SUFFICES ASSUME PathInit PROVE Counted /\ Grown /\ Bucketed /\ WriterTyped
    OBVIOUS
  <2>1. JobIsGiven /\ have = job.initial
    BY DEF PathInit, JobIsGiven
  <2>2. job.initial \in Nat /\ job.threshold \in Nat /\ job.retry \in Nat
    BY <2>1, JobFacts
  <2>3. Counted
    <3>1. 0 \in 0..MaxPasses /\ 0 \in 0..MaxFaults /\ 0 \in 0..MaxCrashes
      BY BoundsAssumption
    <3>2. passes = 0 /\ faults = 0 /\ crashes = 0 /\ up = TRUE /\ erred = FALSE /\ step = "idle"
      BY DEF PathInit
    <3>3. QED BY <3>1, <3>2 DEF Counted
  <2>4. Grown
    BY <2>1, <2>2 DEF PathInit, Grown
  <2>5. Bucketed
    <3>1. buckets = <<>> /\ Len(batch.rows) = 0 /\ target = job.tables
      BY DEF PathInit, NoBatch
    <3>2. QED BY <2>2, <3>1 DEF Bucketed
  <2>6. WriterTyped
    BY <2>2 DEF PathInit, WriterTyped
  <2>7. QED BY <2>3, <2>4, <2>5, <2>6
<1>2. Counted /\ [PathNext]_pathVars => Counted'
  BY CountedAfterStep
<1>3. PathTyped /\ Grown /\ [PathNext]_pathVars => Grown'
  BY GrownAfterStep
<1>4. PathTyped /\ Bucketed /\ [PathNext]_pathVars => Bucketed'
  BY BucketedAfterStep
<1>5. PathTyped /\ WriterTyped /\ [PathNext]_pathVars => WriterTyped'
  BY WriterTypedAfterStep
<1>6. PathTyped /\ Counted /\ Grown /\ Bucketed /\ WriterTyped => DataInv
  BY DEF DataInv
<1>7. QED BY <1>1, <1>2, <1>3, <1>4, <1>5, <1>6, PathTypeCorrect, PTL DEF PathSpec

(* Every variable keeps its type: the pages are of rows the source has, no *)
(* bucket is empty or reaches the threshold, no batch is over it.          *)
THEOREM DataTypeCorrect == PathSpec => []DataTypeOK
<1>1. DataInv => DataTypeOK
  BY DataTyped
<1>2. QED BY <1>1, DataInvariant, PTL

-----------------------------------------------------------------------------
(* Where the mark comes from.                                              *)

(* A literal keeps its origin, and a mark that is the next one of memory   *)
(* or file has the origin of its literal.                                  *)
LEMMA OriginStays ==
  ASSUME job' = job, DOMAIN read \subseteq DOMAIN read',
         mem' # NoMark => HasOrigin(state_to_literal(mem')),
         FileMark' # NoMark => HasOrigin(Literal(FileMark'))
  PROVE  MarksHaveOrigins'
<1>1. ASSUME NEW literal, HasOrigin(literal)
      PROVE  \/ \E i \in DOMAIN read' : Mark(i)' = literal
             \/ SharesFile' /\ literal = state_to_literal(job'.neighbour_mark)
  BY <1>1, JobStays DEF HasOrigin
<1>2. mem' # NoMark => \/ \E i \in DOMAIN read' : Mark(i)' = state_to_literal(mem')
                       \/ SharesFile' /\ state_to_literal(mem') = state_to_literal(job'.neighbour_mark)
  BY <1>1
<1>3. FileMark' # NoMark => \/ \E i \in DOMAIN read' : Mark(i)' = Literal(FileMark')
                            \/ SharesFile' /\ Literal(FileMark') = state_to_literal(job'.neighbour_mark)
  BY <1>1
<1>4. NoMark' = NoMark
  BY DEF NoMark
<1>5. QED BY <1>2, <1>3, <1>4 DEF MarksHaveOrigins, HasOrigin, Literal, NoMark

\* No step but these touches the mark or the file.
LEMMA MarksStay ==
  ASSUME MarksHaveOrigins, job' = job, mem' = mem \/ mem' = NoMark, FileMark' = FileMark,
         DOMAIN read \subseteq DOMAIN read'
  PROVE  MarksHaveOrigins'
BY OriginStays DEF MarksHaveOrigins

LEMMA OriginAfterStep ==
  ASSUME PathTyped, MarksHaveOrigins, [PathNext]_pathVars
  PROVE  MarksHaveOrigins'
<1>0. /\ mem \in MarkValues \cup {NoMark} /\ FileMark \in MarkFiles \cup {NoMark}
      /\ faults \in Nat
  BY DEF PathTyped
<1>1. CASE StartPass
  BY <1>0, <1>1, StartSteps, FileMarkStays, MarksStay
<1>2. CASE NextPage
  <2>1. FileMark' = FileMark /\ job' = job
    BY <1>2, NextPageSteps, FileMarkStays
  <2>2. CASE mem' = mem /\ read' = read
    BY <2>1, <2>2, MarksStay
  <2>3. CASE ~(mem' = mem /\ read' = read)
    <3> DEFINE page == Page(Asked)
    <3>1. mem' = UpdateState(page) /\ DOMAIN read' = DOMAIN read \cup ToSet(page)
      BY <1>2, <2>3, NextPageSteps
    <3>2. UpdateState(page) = mem \/ \E i \in ToSet(page) : state_to_literal(UpdateState(page)) = Mark(i)
      BY MarkAfterPage
    <3> HIDE DEF page
    <3>3. CASE mem' = mem
      BY <2>1, <3>1, <3>3, MarksStay
    <3>4. CASE \E i \in ToSet(page) : state_to_literal(mem') = Mark(i)
      <4>1. \E i \in DOMAIN read' : Mark(i)' = state_to_literal(mem')
        BY <2>1, <3>1, <3>4, JobStays
      <4>2. FileMark' # NoMark => HasOrigin(Literal(FileMark'))
        BY <2>1 DEF MarksHaveOrigins
      <4>3. FileMark' # NoMark => \/ \E i \in DOMAIN read' : Mark(i)' = Literal(FileMark')
                                  \/ SharesFile' /\ Literal(FileMark') = state_to_literal(job'.neighbour_mark)
        BY <2>1, <3>1, <4>2, JobStays DEF HasOrigin
      <4>4. QED BY <4>1, <4>3 DEF MarksHaveOrigins, HasOrigin, Literal, NoMark
    <3>5. QED BY <3>1, <3>2, <3>3, <3>4
  <2>4. QED BY <2>2, <2>3
<1>3. CASE QuietStep
  BY <1>0, <1>3, QuietSteps, FileMarkStays, MarksStay
<1>4. CASE Save
  <2>1. /\ job' = job /\ mem' = mem /\ read' = read
        /\ FileMark' = IF mem = NoMark THEN NoMark ELSE ToJson(mem)
    BY <1>4, FileMarkAfterSave
  <2>2. mem # NoMark => Literal(ToJson(mem)) = state_to_literal(mem)
    BY <1>0, MarkSurvivesFile
  <2>3. FileMark' # NoMark => HasOrigin(Literal(FileMark'))
    BY <2>1, <2>2 DEF MarksHaveOrigins
  <2>4. mem' # NoMark => HasOrigin(state_to_literal(mem'))
    BY <2>1 DEF MarksHaveOrigins
  <2>5. QED BY <2>1, <2>3, <2>4, OriginStays
<1>5. CASE SourceInsert
  <2>1. job' = job /\ mem' = mem /\ read' = read /\ files' = files
    BY <1>5 DEF SourceInsert, historyVars
  <2>2. QED BY <2>1, FileMarkStays, MarksStay
<1>6. CASE NeighbourSaves
  <2>1. /\ job' = job /\ mem' = mem /\ read' = read
        /\ FileMark' = IF SharesFile THEN ToJson(job.neighbour_mark) ELSE FileMark
    BY <1>6, FileMarkAfterNeighbour
  <2>2. job.neighbour_mark \in MarkValues \cup {NoMark} /\ ToJson(NoMark) = NoMark
    BY Numbers, JobFacts DEF ToJson, NoMark, Is, IsText
  <2>3. job.neighbour_mark # NoMark =>
          Literal(ToJson(job.neighbour_mark)) = state_to_literal(job.neighbour_mark)
    BY <2>2, MarkSurvivesFile
  <2>4. FileMark' # NoMark => HasOrigin(Literal(FileMark'))
    BY <2>1, <2>2, <2>3 DEF MarksHaveOrigins, HasOrigin
  <2>5. mem' # NoMark => HasOrigin(state_to_literal(mem'))
    BY <2>1 DEF MarksHaveOrigins
  <2>6. QED BY <2>1, <2>4, <2>5, OriginStays
<1>7. CASE Crash
  BY <1>7, CrashSteps, FileMarkStays, MarksStay
<1>8. CASE Restart
  <2>1. /\ job' = job /\ files' = files /\ read' = read
        /\ mem' = IF FileMark = NoMark THEN NoMark ELSE FromJson(FileMark)
    BY <1>8, RestartSteps
  <2>2. FileMark' = FileMark
    BY <2>1, FileMarkStays
  <2>3. mem' # NoMark => HasOrigin(state_to_literal(mem'))
    BY <2>1 DEF MarksHaveOrigins, Literal
  <2>4. FileMark' # NoMark => HasOrigin(Literal(FileMark'))
    BY <2>2 DEF MarksHaveOrigins
  <2>5. QED BY <2>1, <2>3, <2>4, OriginStays
<1>9. CASE UNCHANGED pathVars
  <2>1. job' = job /\ mem' = mem /\ read' = read /\ files' = files
    BY <1>9 DEF pathVars, sourceVars, historyVars
  <2>2. QED BY <2>1, FileMarkStays, MarksStay
<1>10. QED BY <1>1, <1>2, <1>3, <1>4, <1>5, <1>6, <1>7, <1>8, <1>9 DEF PathNext, PathStep, QuietStep

LEMMA MarksAlwaysHaveOrigins == PathSpec => []MarksHaveOrigins
<1>1. PathInit => MarksHaveOrigins
  <2> SUFFICES ASSUME PathInit PROVE MarksHaveOrigins
    OBVIOUS
  <2>1. mem = NoMark /\ files = <<>>
    BY DEF PathInit
  <2>2. FileMark = NoMark
    BY <2>1 DEF FileMark
  <2>3. QED BY <2>1, <2>2 DEF MarksHaveOrigins
<1>2. PathTyped /\ MarksHaveOrigins /\ [PathNext]_pathVars => MarksHaveOrigins'
  BY OriginAfterStep
<1>3. QED BY <1>1, <1>2, PathTypeCorrect, PTL DEF PathSpec

(* A job that has a mark has it from a row it read itself, before or after *)
(* any number of passes, errors and restarts, unless another job's name    *)
(* makes the same file name; and the literal in its query is that of the   *)
(* row, whether the mark went through the state file or not.               *)
THEOREM MarkComesFromARow == PathSpec => []MarkIsARowRead
<1>1. MarksHaveOrigins => MarkIsARowRead
  BY DEF MarksHaveOrigins, HasOrigin, MarkIsARowRead
<1>2. QED BY <1>1, MarksAlwaysHaveOrigins, PTL

-----------------------------------------------------------------------------
(* No row is passed over.                                                  *)

(* A row is not above its own mark, and a row above one that is above a    *)
(* mark is above that mark itself.                                         *)
LEMMA MarksAreOrdered ==
  ASSUME JobIsGiven, NEW k \in 1..Len(job.rows), MarkRead(k) # Null
  PROVE  /\ ~IsAbove(k, Mark(k))
         /\ \A i, j \in 1..Len(job.rows) :
               MarkRead(j) # Null /\ IsAbove(i, Mark(k)) /\ IsAbove(k, Mark(j)) => IsAbove(i, Mark(j))
<1>1. MarkCell(k) # Null /\ Degree(k) \in Int
  BY RowHasMark, DegreeTyped
<1>2. ~IsAbove(k, Mark(k))
  <2>1. ~(Degree(k) > Degree(k))
    <3>1. \A d \in Int : ~(d > d)
      OBVIOUS
    <3>2. QED BY <1>1, <3>1
  <2>2. QED BY <2>1, AboveMeansHigher
<1>3. ASSUME NEW i \in 1..Len(job.rows), NEW j \in 1..Len(job.rows),
             MarkRead(j) # Null, IsAbove(i, Mark(k)), IsAbove(k, Mark(j))
      PROVE  IsAbove(i, Mark(j))
  <2>1. MarkCell(i) # Null /\ Degree(i) > Degree(k)
    BY <1>3, AboveMeansHigher
  <2>2. Degree(k) > Degree(j) /\ ~(job.source = "oracle" /\ Mark(j) = [quoted |-> ""])
    BY <1>3, AboveMeansHigher
  <2>3. Degree(i) \in Int /\ Degree(j) \in Int
    BY <1>3, <2>1, RowHasMark, DegreeTyped
  <2>4. Degree(i) > Degree(j)
    <3>1. \A a, b, c \in Int : a > b /\ b > c => a > c
      OBVIOUS
    <3>2. QED BY <1>1, <2>1, <2>2, <2>3, <3>1
  <2>5. QED BY <1>3, <2>1, <2>2, <2>4, AboveMeansHigher
<1>4. QED BY <1>2, <1>3

LEMMA FirstRunGrows ==
  ASSUME job' = job, faults > 0 => faults' > 0
  PROVE  FirstRun \subseteq FirstRun'
BY JobStays DEF FirstRun

Careful == ~erred /\ job.kind = "max" /\ ~SharesFile
Accounts == FileMarkIsOld /\ \A i \in 1..passed : IsAccountedFor(i)

LEMMA AccountsStay ==
  ASSUME Accounts, job' = job, FileMark' = FileMark, read' = read, passed' = passed,
         faults > 0 => faults' > 0
  PROVE  Accounts'
<1>1. FileMarkIsOld'
  BY JobStays DEF Accounts, FileMarkIsOld, Literal, Null, NoMark
<1>2. ASSUME NEW i \in 1..passed
      PROVE  IsAccountedFor(i)'
  <2>1. IsAccountedFor(i)
    BY DEF Accounts
  <2>2. QED BY <2>1, JobStays, FirstRunGrows DEF IsAccountedFor, Literal, NoMark
<1>3. QED BY <1>1, <1>2 DEF Accounts

LEMMA AccountsOf ==
  /\ ByMark <=> /\ Accounts
                /\ up /\ step = "idle" => MarkIsFileMark
                /\ InPass => QueryGoesByFile /\ MarkIsOfQuery
  /\ RowsAreAccountedFor <=>
        (Careful => /\ IF UsesMark THEN ByMark ELSE 1..passed \subseteq DOMAIN read
                    /\ InPass => PagesAreRead)
BY DEF ByMark, RowsAreAccountedFor, Careful, Accounts

\* Between two passes.
LEMMA OutsideAPass ==
  ASSUME RowsAreAccountedFor, job' = job, FileMark' = FileMark, read' = read, passed' = passed,
         faults > 0 => faults' > 0, erred' = erred, ~InPass',
         ByMark /\ up' /\ step' = "idle" => MarkIsFileMark'
  PROVE  RowsAreAccountedFor'
<1>1. SUFFICES ASSUME Careful'
               PROVE  IF UsesMark' THEN ByMark' ELSE 1..passed' \subseteq DOMAIN read'
  BY AccountsOf DEF RowsAreAccountedFor, Careful
<1>2. Careful /\ (UsesMark' <=> UsesMark)
  BY <1>1, JobStays DEF Careful
<1>3. CASE UsesMark
  <2>1. ByMark
    BY <1>2, <1>3 DEF RowsAreAccountedFor, Careful
  <2>2. Accounts'
    BY <2>1, AccountsOf, AccountsStay
  <2>3. ByMark'
    BY <2>1, <2>2 DEF ByMark, Accounts
  <2>4. QED BY <1>2, <1>3, <2>3
<1>4. CASE ~UsesMark
  BY <1>2, <1>4 DEF RowsAreAccountedFor, Careful
<1>5. QED BY <1>3, <1>4

(* The probe of a custom select finds a type that gives the literal of the *)
(* column's own type, or, when the plugin reads the column as NULL, a      *)
(* literal that the database will not compare.                             *)
LEMMA ProbedLiteral ==
  ASSUME PathTyped, job.select, ProbedType # ""
  PROVE  \/ ReadAsNull(job.source, MarkType) /\ ~Comparable(job.source, MarkType, default_literal(ProbedType))
         \/ default_literal(ProbedType) = default_literal(MarkType)
<1> DEFINE sample == Query(have, Resolved(""))
           i == sample[1]
           cell == MarkCell(i)
<1>1. sample # <<>> /\ ProbedType = infer_type(MarkRead(i))
  BY DEF ProbedType
<1>2. i \in 1..have /\ IsAbove(i, Resolved(""))
  <2>1. sample \in Seq(1..have) /\ ToSet(sample) = {n \in 1..have : IsAbove(n, Resolved(""))}
    BY Numbers, QuerySelectsAll
  <2>0. sample # <<>>
    BY <1>1
  <2> HIDE DEF sample
  <2>3. sample[1] \in ToSet(sample)
    BY <2>0, <2>1, FirstIsElement
  <2>4. QED BY <2>1, <2>3
<1>3. cell # Null
  BY <1>2 DEF IsAbove, Above
<1>4. JobIsGiven /\ i \in 1..Len(job.rows) /\ job.mark \in DOMAIN job.types
  BY <1>2, Numbers, JobFacts
<1>5. MarkType \in NumberTypes \cup TimeTypes \cup TextTypes
  BY <1>4, JobFacts
<1>6. MarkRead(i) = Reads(job.source, MarkType, cell)
  BY <1>4 DEF MarkRead, ValueAt, Row, Selected, MarkType, MarkCell
<1> HIDE DEF cell, i
<1>7. CASE ReadAsNull(job.source, MarkType)
  <2>1. MarkRead(i) = Null
    BY <1>6, <1>7 DEF Reads
  <2>2. ProbedType = "varchar"
    BY <1>1, <2>1 DEF infer_type, Is, Null
  <2>3. default_literal(ProbedType) = [quoted |-> ""]
    BY <2>2 DEF default_literal, TimeTypes, TextTypes
  <2>4. "number" \notin DOMAIN [quoted |-> ""] /\ ~Parses("")
    BY ValuesAssumption DEF Parses
  <2>5. ~Comparable(job.source, MarkType, [quoted |-> ""])
    BY <1>7, <2>4 DEF Comparable, ReadAsNull, NumberTypes
  <2>6. QED BY <1>7, <2>3, <2>5
<1>8. CASE ~ReadAsNull(job.source, MarkType)
  <2>1. CASE MarkType \in {"bigint", "smallint"}
    <3>1. MarkRead(i) = IF cell.n < I64 THEN [int |-> cell.n] ELSE [uint |-> cell.n]
      BY <1>3, <1>6, <1>8, <2>1 DEF Reads, Int_, UInt
    <3>2. ProbedType = "bigint"
      BY <1>1, <3>1 DEF infer_type, Is
    <3>3. QED BY <2>1, <3>2 DEF default_literal, TimeTypes, TextTypes
  <2>2. CASE MarkType = "double"
    <3>1. MarkRead(i) = [float |-> cell.n]
      BY <1>3, <1>6, <1>8, <2>2 DEF Reads, Float
    <3>2. ProbedType = "double"
      BY <1>1, <3>1 DEF infer_type, Is
    <3>3. QED BY <2>2, <3>2
  <2>3. CASE MarkType = "decimal"
    <3>1. MarkRead(i) = [decimal |-> cell.s]
      BY <1>3, <1>6, <1>8, <2>3 DEF Reads, Decimal
    <3>2. ProbedType = "decimal"
      BY <1>1, <3>1 DEF infer_type, Is
    <3>3. QED BY <2>3, <3>2
  <2>4. CASE MarkType = "datetime"
    <3>1. MarkRead(i) = [date |-> cell.s]
      BY <1>3, <1>6, <1>8, <2>4 DEF Reads, Date
    <3>2. ProbedType = "datetime"
      BY <1>1, <3>1 DEF infer_type, Is
    <3>3. QED BY <2>4, <3>2
  <2>5. CASE MarkType = "varchar"
    <3>1. MarkRead(i) = [string |-> cell.s]
      BY <1>3, <1>6, <1>8, <2>5 DEF Reads, String
    <3>2. ProbedType = "varchar"
      BY <1>1, <3>1 DEF infer_type, Is
    <3>3. QED BY <2>5, <3>2
  <2>6. QED BY <1>5, <2>1, <2>2, <2>3, <2>4, <2>5 DEF NumberTypes, TimeTypes, TextTypes
<1>9. QED BY <1>7, <1>8

(* The literal of a query without a mark.                                  *)
LEMMA FirstLiteral ==
  ASSUME PathTyped, mem = NoMark, NEW schema \in {Schema, ""}
  PROVE  \/ ~Comparable(job.source, MarkType, Resolved(schema))
         \/ Resolved(schema) = default_literal(MarkType)
         \/ Resolved(schema) = [number |-> 0] /\ (job.select \/ schema # Schema)
<1>1. Resolved(schema) = IF schema = "" THEN [number |-> 0] ELSE default_literal(schema)
  BY DEF Resolved
<1>2. CASE schema = ""
  <2>1. ASSUME ~job.select PROVE Schema # ""
    <3>1. MarkType \in NumberTypes \cup TimeTypes \cup TextTypes
      BY Numbers, JobFacts
    <3>2. QED BY <2>1, <3>1 DEF Schema, NumberTypes, TimeTypes, TextTypes
  <2>2. QED BY <1>1, <1>2, <2>1
<1>3. CASE schema # "" /\ job.select
  BY <1>1, <1>3, ProbedLiteral DEF Schema
<1>4. CASE schema # "" /\ ~job.select
  BY <1>1, <1>4 DEF Schema
<1>5. QED BY <1>2, <1>3, <1>4

-----------------------------------------------------------------------------
(* The steps.                                                              *)

LEMMA ErrEndsTheClaim ==
  ASSUME erred' = TRUE
  PROVE  RowsAreAccountedFor'
BY DEF RowsAreAccountedFor

\* Within a pass, or before its end, with the same mark, file and query.
LEMMA PassGoesOn ==
  ASSUME RowsAreAccountedFor, job' = job, have' = have, up' = up, low' = low, offset' = offset,
         mem' = mem, FileMark' = FileMark, read' = read, passed' = passed,
         faults > 0 => faults' > 0, erred' = erred,
         step' = step \/ (step = "rows" /\ step' = "reading")
  PROVE  RowsAreAccountedFor'
<1>1. SUFFICES ASSUME Careful'
               PROVE  /\ IF UsesMark' THEN ByMark' ELSE 1..passed' \subseteq DOMAIN read'
                      /\ InPass' => PagesAreRead'
  BY DEF RowsAreAccountedFor, Careful
<1>2. /\ Careful /\ (UsesMark' <=> UsesMark) /\ (InPass' <=> InPass)
      /\ IF UsesMark THEN ByMark ELSE 1..passed \subseteq DOMAIN read
      /\ InPass => PagesAreRead
  BY <1>1, JobStays DEF Careful, RowsAreAccountedFor, InPass
<1>3. InPass' => PagesAreRead'
  <2>1. Asked' = Asked
    BY AskedStays
  <2>2. QED BY <1>2, <2>1 DEF PagesAreRead
<1>4. CASE UsesMark
  <2>1. ByMark
    BY <1>2, <1>4
  <2>2. Accounts'
    BY <2>1, AccountsOf, AccountsStay
  <2>3. MarkIsFileMark' <=> MarkIsFileMark
    BY DEF MarkIsFileMark, Literal, NoMark
  <2>4. MarkIsOfQuery => MarkIsOfQuery'
    BY <2>3, JobStays DEF MarkIsOfQuery, NoMark, Null
  <2>5. Comparable(job.source, MarkType, low)' <=> Comparable(job.source, MarkType, low)
    BY JobStays DEF Comparable
  <2>6. QueryGoesByFile => QueryGoesByFile'
    BY <2>5, FirstRunGrows DEF QueryGoesByFile, Literal, NoMark
  <2>7. ByMark'
    BY <1>2, <2>1, <2>2, <2>3, <2>4, <2>6 DEF ByMark, Accounts
  <2>8. QED BY <1>2, <1>3, <1>4, <2>7
<1>5. CASE ~UsesMark
  BY <1>2, <1>3, <1>5
<1>6. QED BY <1>4, <1>5

LEMMA StartAccounts ==
  ASSUME PathTyped, RowsAreAccountedFor, StartPass
  PROVE  RowsAreAccountedFor'
<1>1. /\ job' = job /\ have' = have /\ up' = up /\ mem' = mem /\ FileMark' = FileMark
      /\ read' = read /\ passed' = passed /\ up /\ step = "idle"
      /\ faults > 0 => faults' > 0
  <2>1. faults \in Nat
    BY DEF PathTyped
  <2>2. QED BY <2>1, StartSteps, FileMarkStays
<1>2. CASE erred' = TRUE
  BY <1>2, ErrEndsTheClaim
<1>3. CASE erred' = erred /\ step' = "gone"
  <2>1. ~InPass'
    BY <1>3 DEF InPass
  <2>2. step' # "idle"
    BY <1>3
  <2>3. QED BY <1>1, <1>3, <2>1, <2>2, OutsideAPass
<1>4. CASE /\ erred' = erred /\ step' = "reading" /\ offset' = 0 /\ from' = have
           /\ \E schema \in {Schema, ""} :
                 /\ low' = IF UsesMark THEN Resolved(schema) ELSE NoMark
                 /\ schema # Schema => faults' > 0
  <2>1. SUFFICES ASSUME Careful'
                 PROVE  /\ IF UsesMark' THEN ByMark' ELSE 1..passed' \subseteq DOMAIN read'
                        /\ InPass' => PagesAreRead'
    BY DEF RowsAreAccountedFor, Careful
  <2>2. /\ Careful /\ (UsesMark' <=> UsesMark)
        /\ IF UsesMark THEN ByMark ELSE 1..passed \subseteq DOMAIN read
    BY <1>1, <1>4, <2>1, JobStays DEF Careful, RowsAreAccountedFor
  <2>3. PagesAreRead'
    <3>1. \A n \in 1..Len(Asked') : ~(n <= 0)
      OBVIOUS
    <3>2. step' # "draining"
      BY <1>4
    <3>3. QED BY <1>4, <3>1, <3>2 DEF PagesAreRead
  <2>4. CASE UsesMark
    <3>1. ByMark /\ MarkIsFileMark
      BY <1>1, <2>2, <2>4 DEF ByMark
    <3>2. Accounts'
      BY <1>1, <3>1, AccountsOf, AccountsStay
    <3>3. MarkIsFileMark'
      BY <1>1, <3>1 DEF MarkIsFileMark, Literal, NoMark
    <3>4. PICK schema \in {Schema, ""} : low' = Resolved(schema) /\ (schema # Schema => faults' > 0)
      BY <1>4, <2>4
    <3>5. CASE FileMark # NoMark
      <4>1. low' = Literal(FileMark)
        BY <3>1, <3>4, <3>5 DEF MarkIsFileMark, Resolved
      <4>2. QueryGoesByFile'
        BY <1>1, <1>4, <3>5, <4>1 DEF QueryGoesByFile, Literal, NoMark
      <4>3. QED BY <1>4, <2>2, <2>3, <2>4, <3>2, <3>3, <4>2 DEF ByMark, Accounts, MarkIsOfQuery
    <3>6. CASE FileMark = NoMark
      <4>1. mem = NoMark
        BY <3>1, <3>6 DEF MarkIsFileMark
      <4>2. \/ ~Comparable(job.source, MarkType, low')
            \/ low' = default_literal(MarkType)
            \/ low' = [number |-> 0] /\ (job.select \/ faults' > 0)
        BY <3>4, <4>1, FirstLiteral
      <4>3. low' \in FirstRun' \/ ~Comparable(job.source, MarkType, low')
        BY <1>1, <4>2, JobStays DEF FirstRun
      <4>4. (~Comparable(job.source, MarkType, low))' <=> ~Comparable(job.source, MarkType, low')
        BY <1>1, JobStays DEF Comparable
      <4>5. QueryGoesByFile'
        BY <1>1, <1>4, <3>6, <4>3, <4>4 DEF QueryGoesByFile, NoMark
      <4>6. QED BY <1>4, <2>2, <2>3, <2>4, <3>2, <3>3, <4>5 DEF ByMark, Accounts, MarkIsOfQuery
    <3>7. QED BY <3>5, <3>6
  <2>5. CASE ~UsesMark
    BY <1>1, <2>2, <2>3, <2>5
  <2>6. QED BY <2>4, <2>5
<1>5. QED
  <2>1. faults \in Nat
    BY DEF PathTyped
  <2>2. QED BY <1>2, <1>3, <1>4, <2>1, StartSteps

(* A page brings no row that stands for another back to the query: the     *)
(* query goes by the mark of the file, and these rows are not above it.    *)
LEMMA PageAccounts ==
  ASSUME PathTyped, RowsAreAccountedFor, NextPage
  PROVE  RowsAreAccountedFor'
<1> DEFINE page == Page(Asked)
           T == ToSet(page)
<1>1. /\ job' = job /\ have' = have /\ up' = up /\ FileMark' = FileMark /\ low' = low /\ from' = from
      /\ passed' = passed /\ faults' = faults /\ step = "reading"
  BY NextPageSteps, FileMarkStays
<1>2. CASE erred' = TRUE
  BY <1>2, ErrEndsTheClaim
<1>3. CASE ~(erred' = TRUE)
  <2>1. /\ erred' = erred /\ (UsesMark => Comparable(job.source, MarkType, low))
        /\ step' = IF page = <<>> THEN "draining" ELSE "rows"
        /\ mem' = UpdateState(page) /\ offset' = offset + job.page
        /\ DOMAIN read' = DOMAIN read \cup T
        /\ \A i \in DOMAIN read' : read'[i] = IF i \in T THEN have ELSE read[i]
    BY <1>3, NextPageSteps
  <2>2. /\ T \subseteq 1..have
        /\ UsesMark => \A i \in T : IsAbove(i, low)
        /\ \/ UpdateState(page) = mem
           \/ /\ UpdateState(page) \in MarkValues
              /\ \E i \in T : MarkRead(i) # Null /\ state_to_literal(UpdateState(page)) = Mark(i)
    BY MarkAfterPage
  <2>3. /\ Asked \in Seq(1..have) /\ offset \in Nat /\ job.page \in Nat \ {0} /\ Len(Asked) \in Nat
        /\ page = <<>> => offset >= Len(Asked)
        /\ \A n \in 1..Len(Asked) : offset < n /\ n <= offset + job.page => Asked[n] \in T
    <3>1. Asked \in Seq(1..have) /\ offset \in Nat /\ job.page \in Nat \ {0}
      BY Numbers, AskedTyped DEF PathTyped
    <3>2. QED BY <3>1, PageTyped, LenProperties
  <2> HIDE DEF page, T
  <2>4. SUFFICES ASSUME Careful'
                 PROVE  /\ IF UsesMark' THEN ByMark' ELSE 1..passed' \subseteq DOMAIN read'
                        /\ InPass' => PagesAreRead'
    BY DEF RowsAreAccountedFor, Careful
  <2>5. /\ Careful /\ (UsesMark' <=> UsesMark) /\ InPass
        /\ IF UsesMark THEN ByMark ELSE 1..passed \subseteq DOMAIN read
        /\ PagesAreRead
    BY <1>1, <2>1, <2>4, JobStays DEF Careful, RowsAreAccountedFor, InPass
  <2>6. PagesAreRead'
    <3>1. Asked' = Asked
      BY <1>1, AskedStays
    <3>2. ASSUME NEW n \in 1..Len(Asked), n <= offset' PROVE Asked[n] \in DOMAIN read'
      <4>1. n <= offset \/ (offset < n /\ n <= offset + job.page)
        BY <2>1, <2>3, <3>2
      <4>2. CASE n <= offset
        BY <2>1, <2>5, <4>2 DEF PagesAreRead
      <4>3. CASE offset < n /\ n <= offset + job.page
        BY <2>1, <2>3, <4>3
      <4>4. QED BY <4>1, <4>2, <4>3
    <3>3. step' = "draining" => offset' >= Len(Asked)
      <4>1. SUFFICES ASSUME page = <<>> PROVE offset + job.page >= Len(Asked)
        BY <2>1
      <4>2. offset >= Len(Asked)
        BY <2>3, <4>1
      <4>3. QED BY <2>3, <4>2
    <3>4. QED BY <3>1, <3>2, <3>3 DEF PagesAreRead
  <2>7. CASE UsesMark
    <3>0. ByMark /\ QueryGoesByFile /\ MarkIsOfQuery
      BY <2>5, <2>7 DEF ByMark
    <3>1. \A k : ~IsAbove(k, low) => k \notin T
      BY <2>2, <2>7
    <3>2. \A k \in DOMAIN read : k \notin T => k \in DOMAIN read' /\ read'[k] = read[k]
      BY <2>1
    <3>3. DOMAIN read \subseteq 1..Len(job.rows) /\ JobIsGiven
      BY Numbers DEF PathTyped
    <3>4. FileMark # NoMark => low = Literal(FileMark)
      BY <3>0 DEF QueryGoesByFile
    <3>5. FileMarkIsOld'
      <4>1. SUFFICES ASSUME FileMark # NoMark
                     PROVE  \E k \in DOMAIN read' : /\ MarkRead(k) # Null /\ Mark(k) = Literal(FileMark)
                                                    /\ read'[k] <= passed
        BY <1>1, JobStays DEF FileMarkIsOld, Literal, NoMark, Null
      <4>2. PICK k \in DOMAIN read : /\ MarkRead(k) # Null /\ Mark(k) = Literal(FileMark)
                                     /\ read[k] <= passed
        BY <3>0, <4>1 DEF ByMark, FileMarkIsOld
      <4>3. k \notin T
        BY <3>1, <3>3, <3>4, <4>1, <4>2, MarksAreOrdered
      <4>4. QED BY <3>2, <4>2, <4>3
    <3>6. ASSUME NEW i \in 1..passed PROVE IsAccountedFor(i)'
      <4>1. IsAccountedFor(i)
        BY <3>0 DEF ByMark
      <4>2. CASE i \in DOMAIN read
        BY <2>1, <4>2 DEF IsAccountedFor
      <4>3. CASE FileMark # NoMark /\ \E k \in DOMAIN read :
                    read[k] < i /\ ~IsAbove(i, Mark(k)) /\ ~IsAbove(k, Literal(FileMark))
        <5>1. PICK k \in DOMAIN read :
                    read[k] < i /\ ~IsAbove(i, Mark(k)) /\ ~IsAbove(k, Literal(FileMark))
          BY <4>3
        <5>2. k \in DOMAIN read' /\ read'[k] = read[k]
          BY <3>1, <3>2, <3>4, <4>3, <5>1
        <5>3. QED BY <1>1, <4>3, <5>1, <5>2, JobStays DEF IsAccountedFor, Literal, NoMark
      <4>4. CASE \E literal \in FirstRun : ~IsAbove(i, literal)
        BY <1>1, <4>4, JobStays, FirstRunGrows DEF IsAccountedFor
      <4>5. QED BY <4>1, <4>2, <4>3, <4>4 DEF IsAccountedFor
    <3>7. QueryGoesByFile'
      <4>1. Comparable(job.source, MarkType, low)' <=> Comparable(job.source, MarkType, low)
        BY <1>1, JobStays DEF Comparable
      <4>2. QED BY <1>1, <2>1, <2>7, <3>0, <4>1, FirstRunGrows DEF QueryGoesByFile, Literal, NoMark
    <3>8. MarkIsOfQuery'
      <4>1. CASE mem' = mem /\ MarkIsFileMark
        BY <1>1, <4>1 DEF MarkIsOfQuery, MarkIsFileMark, Literal, NoMark
      <4>2. CASE mem' = mem /\ ~MarkIsFileMark
        BY <1>1, <2>1, <3>0, <4>2, JobStays DEF MarkIsOfQuery, NoMark, Null
      <4>3. CASE mem' # mem
        <5>1. PICK i \in T : MarkRead(i) # Null /\ state_to_literal(mem') = Mark(i)
          BY <2>1, <2>2, <4>3
        <5>2. mem' # NoMark
          BY <2>1, <2>2, <4>3, MarkSurvivesFile
        <5>3. i \in DOMAIN read' /\ IsAbove(i, low)
          BY <2>1, <2>2, <2>7
        <5>4. QED BY <1>1, <5>1, <5>2, <5>3, JobStays DEF MarkIsOfQuery, NoMark, Null
      <4>4. QED BY <4>1, <4>2, <4>3
    <3>9. step' # "idle"
      BY <2>1
    <3>10. ByMark'
      BY <1>1, <3>5, <3>6, <3>7, <3>8, <3>9 DEF ByMark
    <3>11. QED BY <2>5, <2>6, <2>7, <3>10
  <2>8. CASE ~UsesMark
    BY <1>1, <2>1, <2>5, <2>6, <2>8
  <2>9. QED BY <2>7, <2>8
<1>4. QED BY <1>2, <1>3

(* When the mark is saved, the rows the query did not select are below it: *)
(* those of this pass, and those of earlier ones that another row stood    *)
(* for, which stands for them still.                                       *)
LEMMA SaveAccounts ==
  ASSUME PathTyped, RowsAreAccountedFor, Save
  PROVE  RowsAreAccountedFor'
<1>1. /\ FileMark' = IF mem = NoMark THEN NoMark ELSE ToJson(mem)
      /\ job' = job /\ have' = have /\ up' = up /\ mem' = mem /\ read' = read /\ passed' = from
      /\ faults' = faults /\ erred' = erred
      /\ up /\ step = "draining" /\ step' = "idle"
  BY FileMarkAfterSave
<1>2. from = have /\ have \in Nat /\ passed \in Nat /\ passed <= have
  BY <1>1, Numbers DEF PathTyped, InPass
<1>3. /\ DOMAIN read \subseteq 1..Len(job.rows) /\ JobIsGiven
      /\ 1..have \subseteq 1..Len(job.rows)
      /\ \A k \in DOMAIN read : read[k] \in 0..have
      /\ mem \in MarkValues \cup {NoMark}
  BY Numbers DEF PathTyped
<1>4. SUFFICES ASSUME Careful'
               PROVE  IF UsesMark' THEN ByMark' ELSE 1..have \subseteq DOMAIN read
  BY <1>1, <1>2 DEF RowsAreAccountedFor, Careful, InPass
<1>5. /\ Careful /\ (UsesMark' <=> UsesMark) /\ InPass
      /\ IF UsesMark THEN ByMark ELSE 1..passed \subseteq DOMAIN read
      /\ PagesAreRead
  BY <1>1, <1>4, JobStays DEF Careful, RowsAreAccountedFor, InPass
<1>6. /\ Asked \in Seq(1..have)
      /\ ToSet(Asked) = IF UsesMark THEN {i \in 1..have : IsAbove(i, low)} ELSE 1..have
  BY <1>2, AskedTyped
<1>7. ToSet(Asked) \subseteq DOMAIN read
  <2>1. offset \in Nat /\ offset >= Len(Asked) /\ Len(Asked) \in Nat /\ DOMAIN Asked = 1..Len(Asked)
    BY <1>1, <1>5, <1>6, LenProperties DEF PagesAreRead, PathTyped
  <2>2. \A n \in 1..Len(Asked) : n <= offset
    BY <2>1
  <2>3. \A n \in 1..Len(Asked) : Asked[n] \in DOMAIN read
    BY <1>5, <2>2 DEF PagesAreRead
  <2>4. QED BY <2>1, <2>3 DEF ToSet
<1>8. CASE ~UsesMark
  BY <1>5, <1>6, <1>7, <1>8
<1>9. CASE UsesMark
  <2>1. ByMark /\ QueryGoesByFile /\ MarkIsOfQuery
    BY <1>5, <1>9 DEF ByMark
  <2>2. /\ IF FileMark # NoMark THEN low = Literal(FileMark) ELSE low \in FirstRun
    BY <1>1, <2>1 DEF QueryGoesByFile
  <2>3. /\ mem # NoMark => FileMark' # NoMark /\ Literal(FileMark') = state_to_literal(mem)
        /\ mem = NoMark => FileMark' = NoMark
    BY <1>1, <1>3, MarkSurvivesFile, FileGivesMark
  <2>4. MarkIsFileMark'
    BY <1>1, <2>3 DEF MarkIsFileMark, Literal, NoMark
  <2>5. FileMarkIsOld'
    <3>1. SUFFICES ASSUME mem # NoMark
                   PROVE  \E k \in DOMAIN read : /\ MarkRead(k) # Null /\ Mark(k) = state_to_literal(mem)
                                                 /\ read[k] <= have
      BY <1>1, <1>2, <2>3, JobStays DEF FileMarkIsOld, Literal, NoMark, Null
    <3>2. \A k \in DOMAIN read : read[k] <= have
      BY <1>2, <1>3
    <3>3. CASE MarkIsFileMark
      BY <2>1, <3>1, <3>2, <3>3 DEF ByMark, FileMarkIsOld, MarkIsFileMark
    <3>4. CASE ~MarkIsFileMark
      BY <2>1, <3>2, <3>4 DEF MarkIsOfQuery
    <3>5. QED BY <3>3, <3>4
  <2>6. ASSUME FileMark # NoMark, NEW k \in 1..Len(job.rows), ~IsAbove(k, low)
        PROVE  /\ FileMark' # NoMark
               /\ ~IsAbove(k, Literal(FileMark'))
    <3>1. mem # NoMark
      BY <2>1, <2>6 DEF MarkIsOfQuery, MarkIsFileMark
    <3>2. CASE MarkIsFileMark
      BY <2>2, <2>3, <2>6, <3>1, <3>2 DEF MarkIsFileMark
    <3>3. CASE ~MarkIsFileMark
      <4>1. PICK n \in DOMAIN read : MarkRead(n) # Null /\ Mark(n) = state_to_literal(mem) /\ IsAbove(n, low)
        BY <2>1, <3>3 DEF MarkIsOfQuery
      <4>2. PICK j \in DOMAIN read : MarkRead(j) # Null /\ Mark(j) = low
        BY <2>1, <2>2, <2>6 DEF ByMark, FileMarkIsOld
      <4>3. ~IsAbove(k, Mark(n))
        BY <1>3, <2>6, <4>1, <4>2, MarksAreOrdered
      <4>4. QED BY <2>3, <3>1, <4>1, <4>3
    <3>4. QED BY <3>2, <3>3
  <2>7. ASSUME NEW i \in 1..have PROVE IsAccountedFor(i)'
    <3>1. CASE i \in DOMAIN read
      BY <1>1, <3>1 DEF IsAccountedFor
    <3>2. CASE \E literal \in FirstRun : ~IsAbove(i, literal)
      BY <1>1, <3>2, JobStays, FirstRunGrows DEF IsAccountedFor
    <3>3. CASE i \notin DOMAIN read /\ ~\E literal \in FirstRun : ~IsAbove(i, literal)
      <4>1. ~IsAbove(i, low)
        BY <1>6, <1>7, <1>9, <3>3
      <4>2. FileMark # NoMark /\ low = Literal(FileMark)
        BY <2>2, <3>3, <4>1
      <4>3. \E k \in DOMAIN read : read[k] < i /\ ~IsAbove(i, Mark(k)) /\ ~IsAbove(k, low)
        <5>1. CASE i \in 1..passed
          BY <2>1, <3>3, <4>2, <5>1 DEF ByMark, IsAccountedFor
        <5>2. CASE i \notin 1..passed
          <6>1. PICK k \in DOMAIN read : MarkRead(k) # Null /\ Mark(k) = low /\ read[k] <= passed
            BY <2>1, <4>2 DEF ByMark, FileMarkIsOld
          <6>2. read[k] < i
            <7>1. read[k] \in Nat /\ i \in Nat /\ i > passed
              BY <1>2, <1>3, <5>2
            <7>2. QED BY <1>2, <6>1, <7>1
          <6>3. ~IsAbove(k, low)
            BY <1>3, <6>1, MarksAreOrdered
          <6>4. QED BY <4>1, <6>1, <6>2, <6>3
        <5>3. QED BY <5>1, <5>2
      <4>4. PICK k \in DOMAIN read : read[k] < i /\ ~IsAbove(i, Mark(k)) /\ ~IsAbove(k, low)
        BY <4>3
      <4>5. FileMark' # NoMark /\ ~IsAbove(k, Literal(FileMark'))
        BY <1>3, <2>6, <4>2, <4>4
      <4>6. QED BY <1>1, <4>4, <4>5, JobStays DEF IsAccountedFor, Literal, NoMark
    <3>4. QED BY <3>1, <3>2, <3>3
  <2>8. ~InPass'
    BY <1>1 DEF InPass
  <2>9. ByMark'
    BY <1>1, <1>2, <2>4, <2>5, <2>7, <2>8 DEF ByMark
  <2>10. QED BY <1>5, <1>9, <2>9
<1>10. QED BY <1>8, <1>9

LEMMA AccountsAfterStep ==
  ASSUME PathTyped, RowsAreAccountedFor, [PathNext]_pathVars
  PROVE  RowsAreAccountedFor'
<1>0. faults \in Nat /\ (InPass => up)
  BY DEF PathTyped
<1>1. CASE StartPass
  BY <1>1, StartAccounts
<1>2. CASE NextPage
  BY <1>2, PageAccounts
<1>3. CASE QuietStep
  <2>1. /\ job' = job /\ have' = have /\ up' = up /\ low' = low /\ offset' = offset /\ mem' = mem
        /\ FileMark' = FileMark /\ read' = read /\ passed' = passed /\ (faults > 0 => faults' > 0)
        /\ \/ erred' = TRUE
           \/ erred' = erred /\ (step' = step \/ (step = "rows" /\ step' = "reading"))
    BY <1>0, <1>3, QuietSteps, FileMarkStays
  <2>2. CASE erred' = TRUE
    BY <2>2, ErrEndsTheClaim
  <2>3. CASE ~(erred' = TRUE)
    BY <2>1, <2>3, PassGoesOn
  <2>4. QED BY <2>2, <2>3
<1>4. CASE Save
  BY <1>4, SaveAccounts
<1>5. CASE SourceInsert
  <2>1. /\ job' = job /\ mem' = mem /\ files' = files /\ read' = read /\ passed' = passed /\ up' = up
        /\ faults' = faults /\ erred' = erred /\ step = "idle" /\ step' = "idle"
    BY <1>5 DEF SourceInsert, passVars, historyVars
  <2>2. FileMark' = FileMark /\ ~InPass'
    BY <2>1, FileMarkStays DEF InPass
  <2>3. ByMark /\ up' => MarkIsFileMark'
    BY <2>1, <2>2 DEF ByMark, MarkIsFileMark, Literal, NoMark
  <2>4. QED BY <2>1, <2>2, <2>3, OutsideAPass
<1>6. CASE NeighbourSaves
  <2>1. /\ job' = job /\ have' = have /\ up' = up /\ low' = low /\ offset' = offset /\ mem' = mem
        /\ read' = read /\ passed' = passed /\ faults' = faults /\ erred' = erred /\ step' = step
        /\ FileMark' = IF SharesFile THEN ToJson(job.neighbour_mark) ELSE FileMark
    BY <1>6, FileMarkAfterNeighbour
  <2>2. CASE SharesFile
    <3>1. ~Careful'
      BY <2>1, <2>2, JobStays DEF Careful
    <3>2. QED BY <3>1 DEF RowsAreAccountedFor, Careful
  <2>3. CASE ~SharesFile
    BY <2>1, <2>3, PassGoesOn
  <2>4. QED BY <2>2, <2>3
<1>7. CASE Crash
  <2>1. /\ job' = job /\ files' = files /\ read' = read /\ passed' = passed /\ ~up'
        /\ faults' = faults /\ erred' = erred /\ step' = "idle"
    BY <1>7, CrashSteps
  <2>2. FileMark' = FileMark /\ ~InPass'
    BY <2>1, FileMarkStays DEF InPass
  <2>3. QED BY <2>1, <2>2, OutsideAPass
<1>8. CASE Restart
  <2>1. /\ job' = job /\ files' = files /\ read' = read /\ passed' = passed
        /\ faults' = faults /\ erred' = erred /\ step' = step /\ ~up
        /\ mem' = IF FileMark = NoMark THEN NoMark ELSE FromJson(FileMark)
    BY <1>8, RestartSteps
  <2>2. FileMark' = FileMark /\ ~InPass'
    BY <1>0, <2>1, FileMarkStays DEF InPass
  <2>3. MarkIsFileMark'
    <3>1. FileMark # NoMark => FromJson(FileMark) # NoMark
      BY FileGivesMark, MarkSurvivesFile DEF PathTyped
    <3>2. QED BY <2>1, <2>2, <3>1 DEF MarkIsFileMark, Literal, NoMark
  <2>4. QED BY <2>1, <2>2, <2>3, OutsideAPass
<1>9. CASE UNCHANGED pathVars
  <2>1. /\ job' = job /\ have' = have /\ up' = up /\ low' = low /\ offset' = offset /\ mem' = mem
        /\ files' = files /\ read' = read /\ passed' = passed /\ faults' = faults /\ erred' = erred
        /\ step' = step
    BY <1>9 DEF pathVars, sourceVars, passVars, historyVars
  <2>2. FileMark' = FileMark
    BY <2>1, FileMarkStays
  <2>3. QED BY <2>1, <2>2, PassGoesOn
<1>10. QED BY <1>1, <1>2, <1>3, <1>4, <1>5, <1>6, <1>7, <1>8, <1>9 DEF PathNext, PathStep, QuietStep

(* A pass that ends with Ok has read every row its source had when it      *)
(* started, or another row of that mark or a higher one stood for it       *)
(* before it was there, or the row is not above the literal of the first   *)
(* run, or two jobs share a file: for marks of any type, any number of     *)
(* passes, crashes and restarts, whatever rows come in between.            *)
THEOREM NoRowIsSkipped == PathSpec => []NothingSkipped
<1>1. PathInit => RowsAreAccountedFor
  <2> SUFFICES ASSUME PathInit PROVE RowsAreAccountedFor
    OBVIOUS
  <2>1. /\ mem = NoMark /\ files = <<>> /\ step = "idle" /\ passed = 0
    BY DEF PathInit
  <2>2. FileMark = NoMark /\ 1..passed = {} /\ ~InPass
    BY <2>1 DEF FileMark, InPass
  <2>3. QED BY <2>1, <2>2 DEF RowsAreAccountedFor, ByMark, FileMarkIsOld, MarkIsFileMark
<1>2. PathTyped /\ RowsAreAccountedFor /\ [PathNext]_pathVars => RowsAreAccountedFor'
  BY AccountsAfterStep
<1>3. RowsAreAccountedFor => NothingSkipped
  <2> SUFFICES ASSUME RowsAreAccountedFor, ~erred, job.kind = "max", NEW i \in 1..passed, ~SharesFile
               PROVE  \/ i \in DOMAIN read
                      \/ \E k \in DOMAIN read : read[k] < i /\ ~IsAbove(i, Mark(k))
                      \/ \E literal \in FirstRun : ~IsAbove(i, literal)
    BY DEF NothingSkipped, IsAbove
  <2>1. IF UsesMark THEN ByMark ELSE 1..passed \subseteq DOMAIN read
    BY DEF RowsAreAccountedFor
  <2>2. CASE UsesMark
    BY <2>1, <2>2 DEF ByMark, IsAccountedFor
  <2>3. CASE ~UsesMark
    BY <2>1, <2>3
  <2>4. QED BY <2>2, <2>3
<1>4. QED BY <1>1, <1>2, <1>3, PathTypeCorrect, PTL DEF PathSpec

-----------------------------------------------------------------------------
(* The mark is as high as the program's comparison can see.                *)

(* What the program compares marks by.  A decimal that has come back from  *)
(* the state file is a text that stands for its number.                    *)
Height(v) ==
    IF MarkType \in TextTypes \cup TimeTypes THEN Place(TextOf(v))
    ELSE IF IsText(v) THEN F64(Numeral[TextOf(v)]) ELSE AsF64(v)

(* A mark has the kind its column gives, or what the state file makes of   *)
(* that.                                                                   *)
Fits(v) ==
    /\ MarkType \in {"bigint", "smallint"} => Is("int", v) \/ Is("uint", v)
    /\ MarkType = "double" => Is("float", v)
    /\ MarkType = "decimal" => Is("decimal", v) \/ (crashes > 0 /\ Is("string", v))
    /\ MarkType \in TextTypes \cup TimeTypes => Is("string", v) \/ Is("date", v)
FileFits(f) ==
    /\ MarkType \in {"bigint", "smallint"} => Is("number", f)
    /\ MarkType = "double" => Is("real", f)
    /\ MarkType \in {"decimal"} \cup TextTypes \cup TimeTypes => Is("text", f)
MarksFit ==
    /\ crashes \in Nat /\ (~up => crashes > 0 /\ from = 0)
    /\ ~SharesFile => (mem # NoMark => Fits(mem)) /\ (FileMark # NoMark => FileFits(FileMark))

Unbeaten(i) ==
    \/ MarkRead(i) = Null
    \/ /\ mem # NoMark /\ Height(MarkRead(i)) <= Height(mem)
       /\ MarkType \in NumberTypes => IsNumber(mem)

(* No row that was read in the pass is higher than the mark, during the    *)
(* pass and until the source grows.  A mark that is a text where rows have *)
(* numbers is the one the pass started with.                               *)
Quiet == Settled /\ passed = have
MarkIsHighest ==
    /\ InPass => \A n \in 1..Len(Asked) : n <= offset => Unbeaten(Asked[n])
    /\ InPass /\ mem # NoMark /\ MarkType \in NumberTypes /\ ~IsNumber(mem) => state_to_literal(mem) = low
    /\ Quiet => \A n \in 1..Len(Asked) : Unbeaten(Asked[n]) /\ Asked[n] \in DOMAIN read

(* What the mark selects after a pass, the query of the pass selected.     *)
LowIsLower ==
    Quiet /\ mem # NoMark =>
        \A i \in 1..have : IsAbove(i, state_to_literal(mem)) =>
            \/ IsAbove(i, low)
            \/ \E first \in FirstRun : ~IsAbove(i, first)

HighestInv ==
    /\ MarksFit
    /\ ~erred /\ job.kind = "max" /\ ~SharesFile /\ UsesMark =>
          LowIsLower /\ (~OrdersDiffer => MarkIsHighest)

LEMMA Widths ==
  /\ One \in Nat \ {0} /\ Epsilon \in Nat \ {0} /\ Exact \in Nat \ {0}
  /\ \E e \in 1..Exact : Exact = One * (2 * e)
<1>1. One \in Nat \ {0} /\ Epsilon \in 1..One
  BY ValuesAssumption, Zenon
<1>2. I64 \in Whole \cap (Nat \ {0}) /\ Exact \in 1..I64 /\ \E e \in 1..Exact : Exact = One * (2 * e)
  BY ValuesAssumption, Zenon
<1>3. QED BY <1>1, <1>2

\* Whole ones of parts.
LEMMA Parts ==
  ASSUME NEW n \in Int
  PROVE  n \div One \in Int /\ One * (n \div One) <= n /\ n < One * (n \div One) + One
<1>1. One \in Nat \ {0}
  BY Widths
<1>2. QED BY <1>1

LEMMA PartsGrow ==
  ASSUME NEW a \in Int, NEW b \in Int, a <= b
  PROVE  /\ One * a \in Int /\ One * b \in Int /\ One * a <= One * b
         /\ One * (-a) = -(One * a) /\ One * (a + 1) = One * a + One
<1>1. One \in Nat \ {0}
  BY Widths
<1>2. QED BY <1>1

LEMMA NearestEvenNear ==
  ASSUME NEW k \in Int
  PROVE  /\ NearestEven[k] \in Int
         /\ NearestEven[k] = k \/ (k % 2 = 1 /\ (NearestEven[k] = k - 1 \/ NearestEven[k] = k + 1))
<1>1. NearestEven[k] = IF k % 2 = 0 THEN k ELSE IF k % 4 = 1 THEN k - 1 ELSE k + 1
  BY DEF NearestEven
<1>2. k % 2 \in {0, 1} /\ k - 1 \in Int /\ k + 1 \in Int
  OBVIOUS
<1>3. QED BY <1>1, <1>2

LEMMA NearestEvenMonotone ==
  ASSUME NEW j \in Int, NEW k \in Int, j <= k
  PROVE  NearestEven[j] <= NearestEven[k]
<1>1. CASE j = k
  BY <1>1, NearestEvenNear
<1>2. CASE j + 1 = k
  <2>1. ~(j % 2 = 1 /\ k % 2 = 1)
    BY <1>2
  <2>2. QED BY <1>2, <2>1, NearestEvenNear
<1>3. CASE j + 2 <= k
  BY <1>3, NearestEvenNear
<1>4. QED BY <1>1, <1>2, <1>3

LEMMA F64Typed ==
  ASSUME NEW n \in Int
  PROVE  /\ F64(n) \in Int
         /\ n \in -Exact..Exact => F64(n) = n
         /\ n \notin -Exact..Exact => F64(n) = One * NearestEven[n \div One]
<1>1. F64(n) = IF n \in -Exact..Exact THEN n ELSE One * NearestEven[n \div One]
  BY DEF F64, Nearest
<1>2. One * NearestEven[n \div One] \in Int
  <2>1. NearestEven[n \div One] \in Int
    BY Parts, NearestEvenNear
  <2>2. QED BY <2>1, Widths
<1>3. QED BY <1>1, <1>2

\* Exact is an even number of ones, which is an f64: what is beyond it stays
\* there.
LEMMA BeyondExact ==
  ASSUME NEW n \in Int
  PROVE  /\ Exact \in Int
         /\ n > Exact => F64(n) >= Exact
         /\ n < -Exact => F64(n) <= -Exact
<1> DEFINE q == n \div One
<1>1. PICK e \in 1..Exact : Exact = One * (2 * e)
  BY Widths
<1>2. One \in Nat \ {0} /\ Exact \in Nat /\ e \in Int
  BY <1>1, Widths
<1>3. q \in Int /\ One * q <= n /\ n < One * q + One /\ NearestEven[q] \in Int
  BY Parts, NearestEvenNear
<1> HIDE DEF q
<1>4. n > Exact \/ n < -Exact => F64(n) = One * NearestEven[q]
  <2>1. n > Exact \/ n < -Exact => n \notin -Exact..Exact
    BY <1>2
  <2>2. QED BY <2>1, F64Typed DEF q
<1>5. ASSUME n > Exact PROVE F64(n) >= Exact
  <2>1. q >= 2 * e
    <3>1. CASE q + 1 <= 2 * e
      <4>1. One * q + One <= One * (2 * e)
        BY <1>2, <1>3, <3>1, PartsGrow
      <4>2. QED BY <1>1, <1>2, <1>3, <1>5, <4>1
    <3>2. QED BY <1>2, <1>3, <3>1
  <2>2. NearestEven[2 * e] = 2 * e
    BY <1>2, NearestEvenNear
  <2>3. NearestEven[q] >= 2 * e
    BY <1>2, <1>3, <2>1, <2>2, NearestEvenMonotone
  <2>4. One * (2 * e) <= One * NearestEven[q]
    BY <1>2, <1>3, <2>3, PartsGrow
  <2>5. QED BY <1>1, <1>4, <1>5, <2>4
<1>6. ASSUME n < -Exact PROVE F64(n) <= -Exact
  <2>1. One * (-(2 * e)) = -Exact
    BY <1>1, <1>2, PartsGrow
  <2>2. q <= -(2 * e)
    <3>1. CASE -(2 * e) <= q
      <4>1. One * (-(2 * e)) <= One * q
        BY <1>2, <1>3, <3>1, PartsGrow
      <4>2. QED BY <1>2, <1>3, <1>6, <2>1, <4>1
    <3>2. QED BY <1>2, <1>3, <3>1
  <2>3. NearestEven[-(2 * e)] = -(2 * e)
    BY <1>2, NearestEvenNear
  <2>4. NearestEven[q] <= -(2 * e)
    BY <1>2, <1>3, <2>2, <2>3, NearestEvenMonotone
  <2>5. One * NearestEven[q] <= One * (-(2 * e))
    BY <1>2, <1>3, <2>4, PartsGrow
  <2>6. QED BY <1>4, <1>6, <2>1, <2>5
<1>7. QED BY <1>2, <1>5, <1>6

(* A larger number is never a smaller f64.                                 *)
LEMMA F64Monotone ==
  ASSUME NEW m \in Int, NEW n \in Int, m <= n
  PROVE  F64(m) <= F64(n)
<1>1. Exact \in Int /\ F64(m) \in Int /\ F64(n) \in Int
  BY BeyondExact, F64Typed
<1>2. CASE m \in -Exact..Exact \/ n \in -Exact..Exact
  BY <1>1, <1>2, BeyondExact, F64Typed
<1>3. CASE m \notin -Exact..Exact /\ n \notin -Exact..Exact
  <2>1. F64(m) = One * NearestEven[m \div One] /\ F64(n) = One * NearestEven[n \div One]
    BY <1>3, F64Typed
  <2>2. m \div One <= n \div One
    <3>1. CASE (n \div One) + 1 <= m \div One
      <4>1. One * ((n \div One) + 1) <= One * (m \div One) /\ One * ((n \div One) + 1) = One * (n \div One) + One
        BY <3>1, Parts, PartsGrow
      <4>2. /\ One * (n \div One) <= n /\ n < One * (n \div One) + One /\ One * (m \div One) <= m
            /\ One * (n \div One) \in Int /\ One * (m \div One) \in Int /\ One \in Int
        BY Parts, PartsGrow, Widths
      <4>3. QED BY <4>1, <4>2
    <3>2. QED BY <3>1, Parts
  <2>3. NearestEven[m \div One] <= NearestEven[n \div One]
    BY <2>2, Parts, NearestEvenMonotone
  <2>4. QED BY <2>1, <2>3, Parts, NearestEvenNear, PartsGrow
<1>4. QED BY <1>2, <1>3

(* A text has a place of its own.                                          *)
LEMMA PlaceOfText ==
  ASSUME NEW s \in ToSet(Lex)
  PROVE  Place(s) \in 1..Len(Lex) /\ Lex[Place(s)] = s
<1> DEFINE I == {i \in 1..Len(Lex) : Lex[i] = s}
<1>1. Place(s) = IF I # {} THEN Min(I) ELSE 0
  BY DEF Place, SelectInSeq
<1>2. Len(Lex) \in Nat /\ DOMAIN Lex = 1..Len(Lex)
  BY ValuesAssumption, LenProperties
<1>3. I # {} /\ I \subseteq Nat
  BY <1>2 DEF ToSet
<1>4. Min(I) \in I
  <2> HIDE DEF I
  <2>1. QED BY <1>3, LeastIsMin
<1>5. QED BY <1>1, <1>3, <1>4

LEMMA PlaceIsItsOwn ==
  ASSUME NEW s \in ToSet(Lex), NEW t \in ToSet(Lex), Place(s) = Place(t)
  PROVE  s = t
BY PlaceOfText

(* The height of a row's mark, and that of whatever stands for it.         *)
RowHeight(k) ==
    IF MarkType = "double" THEN Degree(k)
    ELSE IF MarkType \in NumberTypes THEN F64(Degree(k)) ELSE Place(MarkCell(k).s)

LEMMA RowHeightTyped ==
  ASSUME JobIsGiven, NEW k \in 1..Len(job.rows), MarkCell(k) # Null
  PROVE  RowHeight(k) \in Int
<1>1. Degree(k) \in Int /\ F64(Degree(k)) \in Int
  BY DegreeTyped, F64Typed
<1>2. Place(MarkCell(k).s) \in Int
  BY PlaceTyped
<1>3. QED BY <1>1, <1>2 DEF RowHeight

(* v is the mark of row k, or what the state file made of it.              *)
MarkOf(v, k) ==
    /\ MarkRead(k) # Null /\ v \in MarkValues
    /\ Fits(v) /\ state_to_literal(v) = Mark(k)

LEMMA MarkIsNumber ==
  ASSUME JobIsGiven, NEW k \in 1..Len(job.rows), NEW v, MarkOf(v, k),
         MarkType \in {"bigint", "smallint", "double"}
  PROVE  IsNumber(v) /\ AsF64(v) = RowHeight(k) /\ Height(v) = RowHeight(k) /\ ~IsText(v)
<1>1. MarkType \notin TextTypes \cup TimeTypes /\ MarkType \in NumberTypes
  BY DEF TextTypes, TimeTypes, NumberTypes
<1>2. Mark(k) = [number |-> Degree(k)]
  <2>1. PICK n \in Int : MarkCell(k) = [n |-> n]
    BY CellTyped, RowHasMark DEF MarkOf, NumberTypes
  <2>2. \A s : [n |-> n] # [s |-> s]
    <3>1. \A s : DOMAIN [n |-> n] # DOMAIN [s |-> s]
      OBVIOUS
    <3>2. QED BY <3>1
  <2>3. QED BY <1>1, <2>1, <2>2, RowHasMark DEF MarkOf
<1>3. CASE Is("int", v)
  <2>1. PICK n \in Int : v = [int |-> n]
    BY <1>3 DEF MarkOf, MarkValues, Is
  <2>2. MarkType # "double"
    BY <2>1 DEF MarkOf, Fits, Is
  <2>3. state_to_literal(v) = [number |-> n]
    BY <2>1 DEF state_to_literal, Is, IsText
  <2>4. n = Degree(k)
    BY <1>2, <2>3 DEF MarkOf
  <2>5. IsNumber(v) /\ AsF64(v) = F64(n) /\ ~IsText(v)
    BY <2>1 DEF IsNumber, AsF64, IsText, Is
  <2>6. QED BY <1>1, <2>2, <2>4, <2>5 DEF Height, RowHeight
<1>4. CASE Is("uint", v)
  <2>1. PICK n \in Nat : v = [uint |-> n]
    BY <1>4 DEF MarkOf, MarkValues, Is
  <2>2. MarkType # "double"
    BY <2>1 DEF MarkOf, Fits, Is
  <2>3. state_to_literal(v) = [number |-> n]
    BY <2>1 DEF state_to_literal, Is, IsText
  <2>4. n = Degree(k)
    BY <1>2, <2>3 DEF MarkOf
  <2>5. IsNumber(v) /\ AsF64(v) = F64(n) /\ ~IsText(v)
    BY <2>1 DEF IsNumber, AsF64, IsText, Is
  <2>6. QED BY <1>1, <2>2, <2>4, <2>5 DEF Height, RowHeight
<1>5. CASE Is("float", v)
  <2>1. PICK n \in Int : v = [float |-> n]
    BY <1>5 DEF MarkOf, MarkValues, Is
  <2>2. MarkType = "double"
    BY <2>1 DEF MarkOf, Fits, Is
  <2>3. state_to_literal(v) = [number |-> n]
    BY <2>1 DEF state_to_literal, Is, IsText
  <2>4. n = Degree(k)
    BY <1>2, <2>3 DEF MarkOf
  <2>5. IsNumber(v) /\ AsF64(v) = n /\ ~IsText(v)
    BY <2>1 DEF IsNumber, AsF64, IsText, Is
  <2>6. QED BY <1>1, <2>2, <2>4, <2>5 DEF Height, RowHeight
<1>6. QED BY <1>3, <1>4, <1>5 DEF MarkOf, Fits

LEMMA MarkIsQuoted ==
  ASSUME JobIsGiven, NEW k \in 1..Len(job.rows), NEW v, MarkOf(v, k),
         MarkType \in {"decimal"} \cup TextTypes \cup TimeTypes
  PROVE  /\ IsText(v) /\ MarkCell(k) # Null
         /\ \E s \in ToSet(Lex) : TextOf(v) = s /\ MarkCell(k) = [s |-> s]
         /\ Is("decimal", v) \/ Is("string", v) \/ Is("date", v)
<1>1. PICK s \in ToSet(Lex) : MarkCell(k) = [s |-> s]
  BY CellTyped, RowHasMark DEF MarkOf, NumberTypes, TextTypes, TimeTypes
<1>2. PICK t \in ToSet(Lex) : v \in {[decimal |-> t], [string |-> t], [date |-> t]}
  BY DEF MarkOf, MarkValues, Fits, Is
<1>3. IsText(v) /\ TextOf(v) = t /\ state_to_literal(v) = [quoted |-> t]
  BY <1>2 DEF IsText, TextOf, Is, state_to_literal
<1>4. v # Null /\ (Is("decimal", v) \/ Is("string", v) \/ Is("date", v))
  BY <1>2 DEF Is, Null
<1>5. Mark(k) = [quoted |-> s]
  <2>1. MarkRead(k) \in {[decimal |-> s], [string |-> s], [date |-> s]}
    <3>1. MarkRead(k) = Reads(job.source, MarkType, [s |-> s])
      BY <1>1 DEF MarkRead, ValueAt, Row, MarkType, MarkCell, MarkOf
    <3>2. QED BY <3>1 DEF Reads, Decimal, Date, String, MarkOf, TextTypes, TimeTypes
  <2>2. QED BY <2>1 DEF Mark, state_to_literal, Is, IsText, TextOf
<1>6. s = t
  <2>1. [quoted |-> s] = [quoted |-> t]
    BY <1>3, <1>5 DEF MarkOf
  <2>2. [quoted |-> s].quoted = s /\ [quoted |-> t].quoted = t
    OBVIOUS
  <2>3. QED BY <2>1, <2>2
<1>7. QED BY <1>1, <1>3, <1>4, <1>6, RowHasMark DEF MarkOf

LEMMA MarkIsDecimal ==
  ASSUME JobIsGiven, NEW k \in 1..Len(job.rows), NEW v, MarkOf(v, k), MarkType = "decimal"
  PROVE  /\ IsText(v) /\ TextOf(v) = MarkCell(k).s /\ TextOf(v) \in ToSet(Lex)
         /\ Height(v) = RowHeight(k)
         /\ IsNumber(v) => AsF64(v) = RowHeight(k)
         /\ IsNumber(v) \/ (crashes > 0 /\ Is("string", v))
<1>1. PICK s \in DOMAIN Numeral : MarkCell(k) = [s |-> s]
  BY CellTyped, RowHasMark DEF MarkOf
<1>2. IsText(v) /\ TextOf(v) = s /\ s \in ToSet(Lex)
  <2>1. \A t : [s |-> t] = [s |-> s] => t = s
    <3>1. \A t : [s |-> t].s = t
      OBVIOUS
    <3>2. QED BY <3>1
  <2>2. QED BY <1>1, <2>1, MarkIsQuoted, ValuesAssumption
<1>3. Degree(k) = Numeral[s]
  BY <1>1 DEF Degree, NumberTypes, NumberIn, Parses
<1>4. RowHeight(k) = F64(Numeral[s])
  BY <1>3 DEF RowHeight, NumberTypes
<1>5. Height(v) = F64(Numeral[s])
  BY <1>2 DEF Height, TextTypes, TimeTypes
<1>6. CASE Is("decimal", v)
  <2>1. v = [decimal |-> s]
    <3>1. PICK t \in ToSet(Lex) : v = [decimal |-> t]
      BY <1>6 DEF MarkOf, MarkValues, Is
    <3>2. TextOf(v) = t
      BY <3>1 DEF TextOf, Is
    <3>3. QED BY <1>2, <3>1, <3>2
  <2>2. IsNumber(v) /\ AsF64(v) = F64(Numeral[s])
    BY <2>1 DEF IsNumber, AsF64, Is, Parses
  <2>3. QED BY <1>1, <1>2, <1>4, <1>5, <2>2
<1>7. CASE ~Is("decimal", v)
  <2>1. crashes > 0 /\ Is("string", v)
    BY <1>7 DEF MarkOf, Fits
  <2>2. ~IsNumber(v)
    <3>1. PICK t \in ToSet(Lex) : v = [string |-> t]
      BY <2>1 DEF MarkOf, MarkValues, Is
    <3>2. QED BY <3>1 DEF IsNumber, Is
  <2>3. QED BY <1>1, <1>2, <1>4, <1>5, <2>1, <2>2
<1>8. QED BY <1>6, <1>7

LEMMA MarkIsText ==
  ASSUME JobIsGiven, NEW k \in 1..Len(job.rows), NEW v, MarkOf(v, k),
         MarkType \in TextTypes \cup TimeTypes
  PROVE  /\ IsText(v) /\ TextOf(v) = MarkCell(k).s /\ TextOf(v) \in ToSet(Lex)
         /\ ~IsNumber(v) /\ Height(v) = RowHeight(k)
<1>1. PICK s \in ToSet(Lex) : TextOf(v) = s /\ MarkCell(k) = [s |-> s]
  BY MarkIsQuoted
<1>2. IsText(v) /\ TextOf(v) = MarkCell(k).s
  BY <1>1, MarkIsQuoted
<1>3. ~IsNumber(v)
  <2>1. PICK t \in ToSet(Lex) : v \in {[string |-> t], [date |-> t]}
    BY DEF MarkOf, MarkValues, Fits, Is
  <2>2. QED BY <2>1 DEF IsNumber, Is
<1>4. Height(v) = RowHeight(k)
  BY <1>2 DEF Height, RowHeight, TextTypes, TimeTypes, NumberTypes
<1>5. QED BY <1>1, <1>2, <1>3, <1>4

(* The mark of a row fits its column, and is a number where the column is. *)
LEMMA RowsFit ==
  ASSUME JobIsGiven, NEW k \in 1..Len(job.rows), MarkRead(k) # Null
  PROVE  /\ MarkOf(MarkRead(k), k)
         /\ MarkType \in NumberTypes => IsNumber(MarkRead(k))
<1> DEFINE v == MarkRead(k)
           cell == MarkCell(k)
<1>1. v = Reads(job.source, MarkType, cell)
  BY DEF MarkRead, ValueAt, Row, MarkType, MarkCell
<1>2. v \in MarkValues /\ cell # Null /\ state_to_literal(v) = Mark(k)
  BY RowHasMark DEF Mark
<1>3. ~ReadAsNull(job.source, MarkType)
  BY <1>1 DEF Reads
<1>4. MarkType \in NumberTypes \cup TimeTypes \cup TextTypes
  BY JobFacts
<1> HIDE DEF v, cell
<1>5. CASE MarkType \in {"bigint", "smallint"}
  <2>1. v \in {[int |-> cell.n], [uint |-> cell.n]}
    BY <1>1, <1>2, <1>3, <1>5 DEF Reads, Int_, UInt
  <2>2. Is("int", v) \/ Is("uint", v)
    BY <2>1 DEF Is
  <2>3. Fits(v) /\ IsNumber(v)
    BY <1>5, <2>2 DEF Fits, IsNumber, TextTypes, TimeTypes
  <2>4. QED BY <1>2, <2>3 DEF MarkOf, v
<1>6. CASE MarkType = "double"
  <2>1. v = [float |-> cell.n]
    BY <1>1, <1>2, <1>3, <1>6 DEF Reads, Float
  <2>2. Is("float", v)
    BY <2>1 DEF Is
  <2>3. Fits(v) /\ IsNumber(v)
    BY <1>6, <2>2 DEF Fits, IsNumber, TextTypes, TimeTypes
  <2>4. QED BY <1>2, <2>3 DEF MarkOf, v
<1>7. CASE MarkType = "decimal"
  <2>1. v = [decimal |-> cell.s]
    BY <1>1, <1>2, <1>3, <1>7 DEF Reads, Decimal
  <2>2. Is("decimal", v) /\ v.decimal = cell.s
    BY <2>1 DEF Is
  <2>3. PICK s \in DOMAIN Numeral : cell = [s |-> s]
    BY <1>2, <1>7, CellTyped DEF cell
  <2>4. Parses(v.decimal)
    BY <2>2, <2>3 DEF Parses
  <2>5. Fits(v) /\ IsNumber(v)
    BY <1>7, <2>2, <2>4 DEF Fits, IsNumber, TextTypes, TimeTypes
  <2>6. QED BY <1>2, <2>5 DEF MarkOf, v
<1>8. CASE MarkType \in TimeTypes \cup TextTypes
  <2>1. v \in {[date |-> cell.s], [string |-> cell.s]}
    BY <1>1, <1>2, <1>3, <1>8 DEF Reads, Date, String, TimeTypes, TextTypes
  <2>2. Is("string", v) \/ Is("date", v)
    BY <2>1 DEF Is
  <2>3. Fits(v) /\ MarkType \notin NumberTypes
    BY <1>8, <2>2 DEF Fits, TextTypes, TimeTypes, NumberTypes
  <2>4. QED BY <1>2, <2>3 DEF MarkOf, v
<1>9. QED BY <1>4, <1>5, <1>6, <1>7, <1>8 DEF NumberTypes

LEMMA MarkHeight ==
  ASSUME JobIsGiven, NEW k \in 1..Len(job.rows), NEW v, MarkOf(v, k)
  PROVE  Height(v) = RowHeight(k) /\ RowHeight(k) \in Int
<1>1. RowHeight(k) \in Int
  BY RowHeightTyped, RowHasMark DEF MarkOf
<1>2. MarkType \in NumberTypes \cup TimeTypes \cup TextTypes
  BY JobFacts
<1>3. QED BY <1>1, <1>2, MarkIsNumber, MarkIsDecimal, MarkIsText DEF NumberTypes

(* Where texts are compared, two rows have the order of their texts.       *)
Agrees(j, k) ==
    MarkType \in TextTypes \/ (MarkType = "decimal" /\ crashes > 0) =>
        ~(Degree(j) < Degree(k) /\ Place(MarkCell(j).s) > Place(MarkCell(k).s))

(* value_gt compares marks of rows that agree by their heights.            *)
LEMMA MarksCompare ==
  ASSUME JobIsGiven, NEW j \in 1..Len(job.rows), NEW k \in 1..Len(job.rows), NEW v, NEW w,
         MarkOf(v, j), MarkOf(w, k), Agrees(j, k), Agrees(k, j)
  PROVE  IF value_gt(v, w) THEN RowHeight(k) <= RowHeight(j) ELSE RowHeight(j) <= RowHeight(k)
<1>0. RowHeight(j) \in Int /\ RowHeight(k) \in Int
  BY MarkHeight
<1>1. MarkType \in NumberTypes \cup TimeTypes \cup TextTypes
  BY JobFacts
<1>2. \A m, n \in Int : IF m > n THEN n <= m ELSE m <= n
  OBVIOUS
<1>3. CASE MarkType \in {"bigint", "smallint", "double"}
  <2>1. value_gt(v, w) <=> RowHeight(j) > RowHeight(k)
    BY <1>3, MarkIsNumber DEF value_gt
  <2>2. QED BY <1>0, <1>2, <2>1
<1>4. CASE MarkType \in TextTypes \cup TimeTypes
  <2>1. value_gt(v, w) <=> Place(TextOf(v)) > Place(TextOf(w))
    BY <1>4, MarkIsText DEF value_gt
  <2>2. Place(TextOf(v)) = RowHeight(j) /\ Place(TextOf(w)) = RowHeight(k)
    <3>1. MarkType # "double" /\ MarkType \notin NumberTypes
      BY <1>4 DEF TextTypes, TimeTypes, NumberTypes
    <3>2. QED BY <1>4, <3>1, MarkIsText DEF RowHeight
  <2>3. QED BY <1>0, <1>2, <2>1, <2>2
<1>5. CASE MarkType = "decimal" /\ IsNumber(v) /\ IsNumber(w)
  <2>1. value_gt(v, w) <=> RowHeight(j) > RowHeight(k)
    BY <1>5, MarkIsDecimal DEF value_gt
  <2>2. QED BY <1>0, <1>2, <2>1
<1>6. CASE MarkType = "decimal" /\ ~(IsNumber(v) /\ IsNumber(w))
  <2> DEFINE p == Place(MarkCell(j).s)
             q == Place(MarkCell(k).s)
  <2>1. value_gt(v, w) <=> p > q
    BY <1>6, MarkIsDecimal DEF value_gt
  <2>2. crashes > 0
    BY <1>6, MarkIsDecimal
  <2>3. p \in Int /\ q \in Int
    BY PlaceTyped
  <2>4. Degree(j) \in Int /\ Degree(k) \in Int
    BY DegreeTyped, RowHasMark DEF MarkOf
  <2>5. p = q => Degree(j) = Degree(k)
    <3>1. p = q => MarkCell(j).s = MarkCell(k).s
      BY <1>6, MarkIsDecimal, PlaceIsItsOwn
    <3>2. PICK s \in DOMAIN Numeral : MarkCell(j) = [s |-> s]
      BY <1>6, CellTyped, RowHasMark DEF MarkOf
    <3>3. PICK t \in DOMAIN Numeral : MarkCell(k) = [s |-> t]
      BY <1>6, CellTyped, RowHasMark DEF MarkOf
    <3>4. p = q => MarkCell(j) = MarkCell(k)
      BY <3>1, <3>2, <3>3
    <3>5. QED BY <1>6, <3>4 DEF Degree, NumberTypes
  <2>6. ~(Degree(j) < Degree(k) /\ p > q) /\ ~(Degree(k) < Degree(j) /\ q > p)
    BY <1>6, <2>2 DEF Agrees
  <2> HIDE DEF p, q
  <2>7. IF p > q THEN Degree(k) <= Degree(j) ELSE Degree(j) <= Degree(k)
    BY <2>3, <2>4, <2>5, <2>6
  <2>8. RowHeight(j) = F64(Degree(j)) /\ RowHeight(k) = F64(Degree(k))
    BY <1>6 DEF RowHeight, NumberTypes
  <2>9. QED BY <2>1, <2>4, <2>7, <2>8, F64Monotone
<1>7. QED BY <1>1, <1>3, <1>4, <1>5, <1>6 DEF NumberTypes

(* After a page the mark is as high as it was and as every mark of the     *)
(* page.  It stays what it was only if the page has no mark, or one that   *)
(* value_gt does not prefer.                                               *)
LEMMA HighestOfPage ==
  ASSUME JobIsGiven, job.kind = "max",
         NEW S, NEW page \in Seq(S), NEW R, ToSet(page) \subseteq R, R \subseteq 1..Len(job.rows),
         \A j, k \in R : MarkCell(j) # Null /\ MarkCell(k) # Null => Agrees(j, k),
         mem # NoMark => \E k \in R : MarkOf(mem, k)
  PROVE  LET after == UpdateState(page)
         IN  /\ mem # NoMark => after # NoMark
             /\ \A i \in ToSet(page) : MarkRead(i) # Null =>
                   after # NoMark /\ RowHeight(i) <= Height(after)
             /\ mem # NoMark => Height(mem) <= Height(after)
             /\ \/ after = mem /\ \A i \in ToSet(page) : MarkRead(i) = Null
                \/ \E i \in ToSet(page) : MarkRead(i) # Null /\ after = MarkRead(i)
                \/ /\ after = mem /\ mem # NoMark
                   /\ \E i \in ToSet(page) : MarkRead(i) # Null /\ ~value_gt(MarkRead(i), mem)
<1> DEFINE L == Len(page)
           after == UpdateState(page)
<1>1. PICK f : /\ Passed(f, page)
               /\ after = IF job.kind = "max" /\ Best(f, page) # NoMark /\ (mem = NoMark \/ value_gt(Best(f, page), mem))
                          THEN Best(f, page) ELSE mem
  BY UpdateStateGoesOn
<1>2. /\ ToSet(page) \subseteq R
      /\ \A i \in ToSet(page) : \E m \in 1..L : i = page[m]
  BY LenProperties DEF ToSet
<1>3. /\ L \in Nat /\ 0 \in 0..L /\ L \in 0..L
      /\ \A m \in 0..(L - 1) : m + 1 \in 0..L /\ m \in Nat
      /\ \A m \in 0..(L - 1) : \A n \in 1..(m + 1) : n \in 1..m \/ n = m + 1
  BY <1>1, BestSoFar
<1>4. f[0] = NoMark
  BY <1>1, BestSoFar
<1>5. \A m \in 0..(L - 1) :
         /\ page[m + 1] \in ToSet(page)
         /\ f[m + 1] = IF MarkRead(page[m + 1]) # Null /\ (f[m] = NoMark \/ value_gt(MarkRead(page[m + 1]), f[m]))
                       THEN MarkRead(page[m + 1]) ELSE f[m]
  BY <1>1, BestSoFar
\* Two marks of rows in R compare by their heights.
<1>6. ASSUME NEW i \in R, NEW k \in R, MarkRead(i) # Null, NEW w, MarkOf(w, k)
      PROVE  /\ RowHeight(i) \in Int /\ RowHeight(k) \in Int
             /\ Height(MarkRead(i)) = RowHeight(i) /\ Height(w) = RowHeight(k)
             /\ IF value_gt(MarkRead(i), w) THEN RowHeight(k) <= RowHeight(i) ELSE RowHeight(i) <= RowHeight(k)
  <2>1. MarkOf(MarkRead(i), i) /\ MarkCell(i) # Null /\ MarkCell(k) # Null
    BY <1>6, RowsFit, RowHasMark DEF MarkOf
  <2>2. Agrees(i, k) /\ Agrees(k, i)
    BY <2>1
  <2>3. QED BY <1>6, <2>1, <2>2, MarkHeight, MarksCompare
\* The best so far is the mark of a row, none of those before it is higher.
<1> DEFINE IsBest(v, m) ==
      \/ v = NoMark /\ \A n \in 1..m : MarkRead(page[n]) = Null
      \/ \E k \in ToSet(page) :
            /\ MarkRead(k) # Null /\ v = MarkRead(k)
            /\ \A n \in 1..m : MarkRead(page[n]) # Null => RowHeight(page[n]) <= RowHeight(k)
<1> DEFINE H == {m \in 0..L : IsBest(f[m], m)}
<1>7. 0 \in H
  BY <1>3, <1>4
<1>8. ASSUME NEW m \in 0..(L - 1), m \in H PROVE m + 1 \in H
  <2> DEFINE i == page[m + 1]
  <2>1. i \in ToSet(page) /\ i \in R
    BY <1>2, <1>5
  <2>2. \A n \in 1..(m + 1) : n \in 1..m \/ n = m + 1
    BY <1>3
  <2>3. f[m + 1] = IF MarkRead(i) # Null /\ (f[m] = NoMark \/ value_gt(MarkRead(i), f[m]))
                   THEN MarkRead(i) ELSE f[m]
    BY <1>5
  <2>4. \A k \in ToSet(page) : MarkRead(k) # Null => MarkOf(MarkRead(k), k) /\ MarkRead(k) # NoMark /\ k \in R
    BY <1>2, RowsFit, MarkSurvivesFile DEF MarkOf
  <2>5. \A n \in 1..m : page[n] \in ToSet(page)
    BY <1>3, LenProperties DEF ToSet
  <2>6. IsBest(f[m + 1], m + 1)
    <3>1. CASE MarkRead(i) = Null
      BY <1>8, <2>2, <2>3, <3>1
    <3>2. CASE MarkRead(i) # Null /\ f[m] = NoMark
      <4>1. \A n \in 1..m : MarkRead(page[n]) = Null
        BY <1>8, <2>4, <3>2
      <4>2. RowHeight(i) <= RowHeight(i)
        <5>1. RowHeight(i) \in Int
          BY <1>6, <2>1, <2>4, <3>2
        <5>2. QED BY <5>1
      <4>3. QED BY <2>1, <2>2, <2>3, <3>2, <4>1, <4>2
    <3>3. CASE MarkRead(i) # Null /\ f[m] # NoMark
      <4>1. PICK k \in ToSet(page) :
               /\ MarkRead(k) # Null /\ f[m] = MarkRead(k)
               /\ \A n \in 1..m : MarkRead(page[n]) # Null => RowHeight(page[n]) <= RowHeight(k)
        BY <1>8, <3>3
      <4>2. /\ RowHeight(i) \in Int /\ RowHeight(k) \in Int
            /\ IF value_gt(MarkRead(i), f[m]) THEN RowHeight(k) <= RowHeight(i) ELSE RowHeight(i) <= RowHeight(k)
        <5>1. i \in R /\ k \in R /\ MarkRead(i) # Null /\ MarkOf(f[m], k)
          BY <2>1, <2>4, <3>3, <4>1
        <5> HIDE DEF i
        <5>2. QED BY <1>6, <5>1
      <4>3. \A n \in 1..m : MarkRead(page[n]) # Null => RowHeight(page[n]) \in Int
        BY <1>6, <2>4, <2>5
      <4>4. CASE value_gt(MarkRead(i), f[m])
        <5>1. f[m + 1] = MarkRead(i)
          BY <2>3, <3>3, <4>4
        <5>2. \A n \in 1..(m + 1) : MarkRead(page[n]) # Null => RowHeight(page[n]) <= RowHeight(i)
          BY <2>2, <4>1, <4>2, <4>3, <4>4
        <5>3. QED BY <2>1, <3>3, <5>1, <5>2
      <4>5. CASE ~value_gt(MarkRead(i), f[m])
        <5>1. f[m + 1] = MarkRead(k)
          BY <2>3, <3>3, <4>1, <4>5
        <5>2. \A n \in 1..(m + 1) : MarkRead(page[n]) # Null => RowHeight(page[n]) <= RowHeight(k)
          BY <2>2, <4>1, <4>2, <4>3, <4>5
        <5>3. QED BY <4>1, <5>1, <5>2
      <4>6. QED BY <4>4, <4>5
    <3>4. QED BY <3>1, <3>2, <3>3
  <2>7. QED BY <1>3, <2>6
<1>9. IsBest(f[L], L)
  <2>1. \A m \in 0..L : m \in H
    <3> HIDE DEF H, L
    <3> QED BY <1>3, <1>7, <1>8, InductionTo
  <2>2. QED BY <1>3, <2>1
<1>10. CASE f[L] = NoMark
  <2>1. after = mem
    BY <1>1, <1>10 DEF Best
  <2>2. \A i \in ToSet(page) : MarkRead(i) = Null
    <3>1. \A k \in ToSet(page) : MarkRead(k) # Null => MarkRead(k) # NoMark
      BY <1>2, RowsFit, MarkSurvivesFile DEF MarkOf
    <3>2. \A n \in 1..L : MarkRead(page[n]) = Null
      BY <1>9, <1>10, <3>1
    <3>3. QED BY <1>2, <3>2
  <2>3. mem # NoMark => Height(mem) \in Int
    BY MarkHeight
  <2>4. QED BY <2>1, <2>2, <2>3
<1>11. CASE f[L] # NoMark
  <2>1. PICK k \in ToSet(page) :
               /\ MarkRead(k) # Null /\ f[L] = MarkRead(k)
               /\ \A n \in 1..L : MarkRead(page[n]) # Null => RowHeight(page[n]) <= RowHeight(k)
    BY <1>9, <1>11
  <2>2. k \in R /\ MarkOf(MarkRead(k), k) /\ Height(MarkRead(k)) = RowHeight(k) /\ RowHeight(k) \in Int
    BY <1>2, <2>1, RowsFit, MarkHeight
  <2>3. \A i \in ToSet(page) : MarkRead(i) # Null => RowHeight(i) <= RowHeight(k) /\ RowHeight(i) \in Int
    BY <1>2, <1>6, <2>1, <2>2
  <2>4. CASE mem = NoMark \/ value_gt(MarkRead(k), mem)
    <3>1. after = MarkRead(k) /\ after # NoMark
      BY <1>1, <1>11, <2>1, <2>4 DEF Best
    <3>2. mem # NoMark => Height(mem) <= Height(after)
      BY <1>6, <2>1, <2>2, <2>4, <3>1
    <3>3. QED BY <2>1, <2>2, <2>3, <3>1, <3>2
  <2>5. CASE mem # NoMark /\ ~value_gt(MarkRead(k), mem)
    <3>1. after = mem
      BY <1>1, <1>11, <2>1, <2>5 DEF Best
    <3>2. RowHeight(k) <= Height(mem) /\ Height(mem) \in Int
      BY <1>6, <2>1, <2>2, <2>5
    <3>3. \A i \in ToSet(page) : MarkRead(i) # Null => RowHeight(i) <= Height(mem)
      BY <2>2, <2>3, <3>2
    <3>4. Height(mem) <= Height(mem)
      BY <3>2
    <3>5. QED BY <2>1, <2>5, <3>1, <3>3, <3>4
  <2>6. QED BY <2>4, <2>5
<1>12. QED BY <1>10, <1>11

(* A decimal that is higher is preferred to one the file has made a text.  *)
LEMMA HigherIsPreferred ==
  ASSUME JobIsGiven, NEW j \in 1..Len(job.rows), NEW k \in 1..Len(job.rows), NEW v, NEW w,
         MarkOf(v, j), MarkOf(w, k), Agrees(k, j),
         MarkType \in NumberTypes, ~IsNumber(w), Degree(j) > Degree(k)
  PROVE  value_gt(v, w)
<1>1. MarkType = "decimal"
  BY MarkIsNumber DEF NumberTypes
<1> DEFINE p == Place(MarkCell(j).s)
           q == Place(MarkCell(k).s)
<1>2. crashes > 0 /\ (value_gt(v, w) <=> p > q)
  BY <1>1, MarkIsDecimal DEF value_gt
<1>3. Degree(j) \in Int /\ Degree(k) \in Int /\ p \in Int /\ q \in Int
  BY DegreeTyped, RowHasMark, PlaceTyped DEF MarkOf
<1>4. p # q
  <2>1. p = q => MarkCell(j).s = MarkCell(k).s
    BY <1>1, MarkIsDecimal, PlaceIsItsOwn
  <2>2. PICK s \in DOMAIN Numeral : MarkCell(j) = [s |-> s]
    BY <1>1, CellTyped, RowHasMark DEF MarkOf
  <2>3. PICK t \in DOMAIN Numeral : MarkCell(k) = [s |-> t]
    BY <1>1, CellTyped, RowHasMark DEF MarkOf
  <2>4. p = q => MarkCell(j) = MarkCell(k)
    BY <2>1, <2>2, <2>3
  <2>5. p = q => Degree(j) = Degree(k)
    BY <1>1, <2>4 DEF Degree, NumberTypes
  <2> HIDE DEF p, q
  <2>6. QED BY <1>3, <2>5
<1>5. ~(Degree(k) < Degree(j) /\ q > p)
  BY <1>1, <1>2 DEF Agrees
<1> HIDE DEF p, q
<1>6. QED BY <1>2, <1>3, <1>4, <1>5

-----------------------------------------------------------------------------
(* Marks keep their kinds.                                                 *)

LEMMA FileKeepsFit ==
  ASSUME JobIsGiven
  PROVE  /\ \A v \in MarkValues : Fits(v) => FileFits(ToJson(v))
         /\ \A f \in MarkFiles : FileFits(f) /\ crashes > 0 => Fits(FromJson(f))
<1>0. MarkType \in NumberTypes \cup TimeTypes \cup TextTypes
  BY JobFacts
<1>1. ASSUME NEW v \in MarkValues, Fits(v) PROVE FileFits(ToJson(v))
  <2>1. CASE Is("int", v) \/ Is("uint", v)
    <3>1. MarkType \in {"bigint", "smallint"}
      <4>1. ~Is("float", v) /\ ~Is("decimal", v) /\ ~Is("string", v) /\ ~Is("date", v)
        BY <2>1 DEF MarkValues, Is
      <4>2. QED BY <1>0, <1>1, <4>1 DEF Fits, NumberTypes
    <3>2. Is("number", ToJson(v))
      <4>1. \E n : v = [int |-> n] \/ v = [uint |-> n]
        BY <2>1 DEF MarkValues, Is
      <4>2. QED BY <4>1 DEF ToJson, Is, IsText
    <3>3. QED BY <3>1, <3>2 DEF FileFits, TextTypes, TimeTypes
  <2>2. CASE Is("float", v)
    <3>1. MarkType = "double"
      <4>1. ~Is("int", v) /\ ~Is("uint", v) /\ ~Is("decimal", v) /\ ~Is("string", v) /\ ~Is("date", v)
        BY <2>2 DEF MarkValues, Is
      <4>2. QED BY <1>0, <1>1, <4>1 DEF Fits, NumberTypes
    <3>2. Is("real", ToJson(v))
      <4>1. \E n : v = [float |-> n]
        BY <2>2 DEF MarkValues, Is
      <4>2. QED BY <4>1 DEF ToJson, Is, IsText
    <3>3. QED BY <3>1, <3>2 DEF FileFits, TextTypes, TimeTypes
  <2>3. CASE Is("decimal", v) \/ Is("string", v) \/ Is("date", v)
    <3>1. MarkType \notin {"bigint", "smallint", "double"}
      <4>1. ~Is("int", v) /\ ~Is("uint", v) /\ ~Is("float", v)
        BY <2>3 DEF MarkValues, Is
      <4>2. QED BY <1>0, <1>1, <4>1 DEF Fits, NumberTypes
    <3>2. Is("text", ToJson(v))
      <4>1. \E s : v \in {[decimal |-> s], [string |-> s], [date |-> s]}
        BY <2>3 DEF MarkValues, Is
      <4>2. QED BY <4>1 DEF ToJson, Is, IsText
    <3>3. QED BY <3>1, <3>2 DEF FileFits
  <2>4. QED BY <2>1, <2>2, <2>3 DEF MarkValues, Is
<1>2. ASSUME NEW f \in MarkFiles, FileFits(f), crashes > 0 PROVE Fits(FromJson(f))
  <2>1. CASE Is("number", f)
    <3>1. PICK n : f = [number |-> n]
      BY <2>1 DEF MarkFiles, Is
    <3>2. Is("int", FromJson(f)) \/ Is("uint", FromJson(f))
      BY <3>1 DEF FromJson, Is, Int_, UInt
    <3>3. ~Is("real", f) /\ ~Is("text", f)
      BY <3>1 DEF Is
    <3>4. MarkType \in {"bigint", "smallint"}
      BY <1>0, <1>2, <3>3 DEF FileFits, NumberTypes
    <3>5. QED BY <3>2, <3>4 DEF Fits, TextTypes, TimeTypes
  <2>2. CASE Is("real", f)
    <3>1. PICK n : f = [real |-> n]
      BY <2>2 DEF MarkFiles, Is
    <3>2. Is("float", FromJson(f))
      BY <3>1 DEF FromJson, Is, Float
    <3>3. ~Is("number", f) /\ ~Is("text", f)
      BY <3>1 DEF Is
    <3>4. MarkType = "double"
      BY <1>0, <1>2, <3>3 DEF FileFits, NumberTypes
    <3>5. QED BY <3>2, <3>4 DEF Fits, TextTypes, TimeTypes
  <2>3. CASE Is("text", f)
    <3>1. PICK s : f = [text |-> s]
      BY <2>3 DEF MarkFiles, Is
    <3>2. Is("string", FromJson(f))
      BY <3>1 DEF FromJson, Is, String
    <3>3. ~Is("number", f) /\ ~Is("real", f)
      BY <3>1 DEF Is
    <3>4. MarkType \in {"decimal"} \cup TextTypes \cup TimeTypes
      BY <1>0, <1>2, <3>3 DEF FileFits, NumberTypes
    <3>5. QED BY <1>2, <3>2, <3>4 DEF Fits, TextTypes, TimeTypes
  <2>4. QED BY <2>1, <2>2, <2>3 DEF MarkFiles, Is
<1>3. QED BY <1>1, <1>2

LEMMA CrashesStay ==
  ASSUME StartPass \/ NextPage \/ QuietStep \/ Save \/ SourceInsert \/ NeighbourSaves \/ Restart
  PROVE  crashes' = crashes
BY DEF StartPass, NextPage, QuietStep, RunEtl, PushRow, PushUpTo, Drain, Truncate, WriteBatch, Save, SourceInsert,
       NeighbourSaves, Restart

LEMMA MarksFitStays ==
  ASSUME MarksFit, job' = job, crashes' = crashes, up' = up, up \/ from' = from,
         ~SharesFile /\ mem' # NoMark => Fits(mem'),
         ~SharesFile /\ FileMark' # NoMark => FileFits(FileMark')
  PROVE  MarksFit'
<1>1. (SharesFile' <=> SharesFile) /\ MarkType' = MarkType
  BY JobStays
<1>2. ~SharesFile' /\ mem' # NoMark => Fits(mem)'
  BY <1>1 DEF Fits
<1>3. ~SharesFile' /\ FileMark' # NoMark => FileFits(FileMark)'
  BY <1>1 DEF FileFits
<1>4. QED BY <1>1, <1>2, <1>3 DEF MarksFit, NoMark

LEMMA SourceInsertSteps ==
  ASSUME SourceInsert
  PROVE  /\ job' = job /\ have' = have + 1 /\ up' = up /\ mem' = mem /\ files' = files
         /\ read' = read /\ passed' = passed /\ from' = from /\ step = "idle" /\ step' = "idle"
BY DEF SourceInsert, passVars, historyVars

LEMMA MarksFitAfterStep ==
  ASSUME PathTyped, MarksFit, [PathNext]_pathVars
  PROVE  MarksFit'
<1>0. /\ JobIsGiven /\ mem \in MarkValues \cup {NoMark} /\ FileMark \in MarkFiles \cup {NoMark}
      /\ faults \in Nat /\ (InPass => up)
  BY Numbers DEF PathTyped
<1>f. /\ crashes \in Nat /\ (~up => crashes > 0 /\ from = 0)
      /\ ~SharesFile /\ mem # NoMark => Fits(mem)
      /\ ~SharesFile /\ FileMark # NoMark => FileFits(FileMark)
  BY DEF MarksFit
<1>1. CASE StartPass
  <2>1. FileMark' = FileMark
    BY <1>0, <1>1, StartSteps, FileMarkStays
  <2>2. QED BY <1>0, <1>f, <1>1, <2>1, StartSteps, CrashesStay, MarksFitStays
<1>2. CASE NextPage
  <2> DEFINE page == Page(Asked)
  <2>1. FileMark' = FileMark
    BY <1>2, NextPageSteps, FileMarkStays
  <2>2. page \in Seq(1..have) /\ ToSet(page) \subseteq 1..have /\ 1..have \subseteq 1..Len(job.rows)
    <3>1. Asked \in Seq(1..have) /\ offset \in Nat /\ job.page \in Nat \ {0}
      BY Numbers, AskedTyped DEF PathTyped
    <3>2. page \in Seq(1..have)
      BY <3>1, PageTyped
    <3>3. QED BY <3>2, Numbers, MarkAfterPage
  <2>3. mem' = mem \/ mem' = UpdateState(page)
    BY <1>2, NextPageSteps
  <2> HIDE DEF page
  <2>4. \/ mem' = mem
        \/ \E i \in ToSet(page) : MarkRead(i) # Null /\ mem' = MarkRead(i)
    BY <2>2, <2>3, UpdateStateTakesARow
  <2>5. ~SharesFile /\ mem' # NoMark => Fits(mem')
    <3>1. \A i \in ToSet(page) : MarkRead(i) # Null => Fits(MarkRead(i))
      BY <1>0, <2>2, RowsFit DEF MarkOf
    <3>2. QED BY <1>f, <2>4, <3>1
  <2>6. up /\ up' = up /\ job' = job
    BY <1>0, <1>2, NextPageSteps DEF InPass
  <2>7. QED BY <1>f, <1>2, <2>1, <2>5, <2>6, CrashesStay, MarksFitStays
<1>3. CASE QuietStep
  <2>1. FileMark' = FileMark
    BY <1>0, <1>3, QuietSteps, FileMarkStays
  <2>2. QED BY <1>0, <1>f, <1>3, <2>1, QuietSteps, CrashesStay, MarksFitStays
<1>4. CASE Save
  <2>1. mem # NoMark => (Fits(mem) => FileFits(ToJson(mem)))
    BY <1>0, FileKeepsFit
  <2>2. ~SharesFile /\ FileMark' # NoMark => FileFits(FileMark')
    BY <1>f, <1>4, <2>1, FileMarkAfterSave
  <2>3. QED BY <1>f, <1>4, <2>2, FileMarkAfterSave, CrashesStay, MarksFitStays
<1>5. CASE SourceInsert
  <2>1. FileMark' = FileMark
    BY <1>5, SourceInsertSteps, FileMarkStays
  <2>2. QED BY <1>f, <1>5, <2>1, SourceInsertSteps, CrashesStay, MarksFitStays
<1>6. CASE NeighbourSaves
  BY <1>f, <1>6, FileMarkAfterNeighbour, CrashesStay, MarksFitStays
<1>7. CASE Crash
  <2>1. FileMark' = FileMark /\ (SharesFile' <=> SharesFile) /\ MarkType' = MarkType
    BY <1>7, CrashSteps, FileMarkStays, JobStays
  <2>2. crashes' = crashes + 1 /\ from' = 0 /\ mem' = NoMark
    BY <1>7 DEF Crash
  <2>3. crashes' \in Nat /\ crashes' > 0
    BY <1>f, <2>2
  <2>4. ~SharesFile' /\ FileMark' # NoMark => FileFits(FileMark)'
    BY <1>f, <2>1 DEF FileFits, NoMark
  <2>5. QED BY <2>2, <2>3, <2>4 DEF MarksFit, NoMark
<1>8. CASE Restart
  <2>1. FileMark' = FileMark /\ (SharesFile' <=> SharesFile) /\ MarkType' = MarkType
    BY <1>8, RestartSteps, FileMarkStays, JobStays
  <2>2. crashes' = crashes /\ up' /\ ~up
    BY <1>8, CrashesStay, RestartSteps
  <2>3. mem' = IF FileMark = NoMark THEN NoMark ELSE FromJson(FileMark)
    BY <1>8, RestartSteps
  <2>4. ~SharesFile /\ mem' # NoMark => Fits(mem')
    BY <1>0, <1>f, <2>2, <2>3, FileKeepsFit
  <2>5. ~SharesFile' /\ mem' # NoMark => Fits(mem)'
    BY <2>1, <2>2, <2>4 DEF Fits
  <2>6. ~SharesFile' /\ FileMark' # NoMark => FileFits(FileMark)'
    BY <1>f, <2>1 DEF FileFits, NoMark
  <2>7. QED BY <1>f, <2>2, <2>5, <2>6 DEF MarksFit, NoMark
<1>9. CASE UNCHANGED pathVars
  <2>1. job' = job /\ mem' = mem /\ files' = files /\ up' = up /\ from' = from /\ crashes' = crashes
    BY <1>9 DEF pathVars, sourceVars, passVars
  <2>2. FileMark' = FileMark
    BY <2>1, FileMarkStays
  <2>3. QED BY <1>f, <2>1, <2>2, MarksFitStays
<1>10. QED BY <1>1, <1>2, <1>3, <1>4, <1>5, <1>6, <1>7, <1>8, <1>9 DEF PathNext, PathStep, QuietStep

-----------------------------------------------------------------------------
(* The mark stays the highest.                                             *)

Claimed == Careful /\ UsesMark

LEMMA MarkHasRow ==
  ASSUME PathTyped, MarksFit, RowsAreAccountedFor, Claimed, mem # NoMark,
         InPass \/ (up /\ step = "idle")
  PROVE  \E k \in DOMAIN read : MarkOf(mem, k)
<1>1. ByMark /\ mem \in MarkValues /\ Fits(mem)
  BY DEF Claimed, Careful, RowsAreAccountedFor, MarksFit, PathTyped
<1>2. \/ MarkIsFileMark
      \/ \E k \in DOMAIN read : MarkRead(k) # Null /\ Mark(k) = state_to_literal(mem)
  BY <1>1 DEF ByMark, MarkIsOfQuery
<1>3. CASE MarkIsFileMark
  <2>1. FileMark # NoMark /\ state_to_literal(mem) = Literal(FileMark)
    BY <1>3 DEF MarkIsFileMark
  <2>2. PICK k \in DOMAIN read : MarkRead(k) # Null /\ Mark(k) = Literal(FileMark)
    BY <1>1, <2>1 DEF ByMark, FileMarkIsOld
  <2>3. QED BY <1>1, <2>1, <2>2 DEF MarkOf
<1>4. CASE \E k \in DOMAIN read : MarkRead(k) # Null /\ Mark(k) = state_to_literal(mem)
  BY <1>1, <1>4 DEF MarkOf
<1>5. QED BY <1>2, <1>3, <1>4

LEMMA RowsAgree ==
  ASSUME job' = job, crashes' = crashes, ~OrdersDiffer'
  PROVE  \A j, k \in DOMAIN read' : MarkCell(j) # Null /\ MarkCell(k) # Null => Agrees(j, k)
<1>1. /\ \A i : Degree(i)' = Degree(i) /\ MarkCell(i)' = MarkCell(i)
      /\ MarkType' = MarkType
  BY JobStays DEF Degree
<1>2. QED BY <1>1 DEF OrdersDiffer, Agrees, Null

\* Steps after which the mark, the query and what was read are the same.
LEMMA HighestStays ==
  ASSUME LowIsLower /\ (~OrdersDiffer => MarkIsHighest),
         job' = job, have' = have, up' = up, low' = low, offset' = offset, from' = from,
         mem' = mem, read' = read, passed' = passed, crashes' = crashes, erred' = erred,
         faults > 0 => faults' > 0,
         step' = step \/ (step = "rows" /\ step' = "reading")
  PROVE  LowIsLower' /\ (~OrdersDiffer' => MarkIsHighest')
<1>1. /\ \A i : Degree(i)' = Degree(i) /\ MarkCell(i)' = MarkCell(i) /\ MarkRead(i)' = MarkRead(i)
      /\ \A i, literal : IsAbove(i, literal)' <=> IsAbove(i, literal)
      /\ MarkType' = MarkType
  BY JobStays DEF Degree
<1>2. Asked' = Asked
  BY AskedStays
<1>3. OrdersDiffer' <=> OrdersDiffer
  BY <1>1 DEF OrdersDiffer, Null
<1>4. (Quiet' <=> Quiet) /\ (InPass' <=> InPass)
  BY DEF Quiet, Settled, InPass
<1>5. \A i : Unbeaten(i)' <=> Unbeaten(i)
  BY <1>1 DEF Unbeaten, Height, NoMark, Null
<1>6. LowIsLower'
  <2>1. \A i, first : IsAbove(i, first)' <=> IsAbove(i, first)
    BY <1>1
  <2>2. FirstRun \subseteq FirstRun'
    BY FirstRunGrows
  <2>3. ASSUME Quiet, mem # NoMark, NEW i \in 1..have, IsAbove(i, state_to_literal(mem))
        PROVE  IsAbove(i, low) \/ \E first \in FirstRun' : ~IsAbove(i, first)
    BY <2>2, <2>3 DEF LowIsLower
  <2>4. QED BY <1>1, <1>4, <2>3 DEF LowIsLower, NoMark
<1>7. MarkIsHighest => MarkIsHighest'
  BY <1>1, <1>2, <1>4, <1>5 DEF MarkIsHighest, NoMark
<1>8. QED BY <1>3, <1>6, <1>7

\* Outside a pass, and not after one that returned Ok.
LEMMA NothingIsClaimed ==
  ASSUME ~InPass', ~Quiet'
  PROVE  LowIsLower' /\ MarkIsHighest'
BY DEF LowIsLower, MarkIsHighest

LEMMA StartHighest ==
  ASSUME PathTyped, RowsAreAccountedFor, StartPass, Claimed'
  PROVE  LowIsLower' /\ (~OrdersDiffer' => MarkIsHighest')
<1>1. /\ job' = job /\ have' = have /\ up' = up /\ mem' = mem /\ read' = read /\ up /\ step = "idle"
      /\ \/ erred' = TRUE
         \/ erred' = erred /\ step' = "gone"
         \/ /\ erred' = erred /\ step' = "reading" /\ offset' = 0
            /\ \E schema : low' = IF UsesMark THEN Resolved(schema) ELSE NoMark
  <2>1. faults \in Nat
    BY DEF PathTyped
  <2>2. QED BY <2>1, StartSteps
<1>2. erred' # TRUE /\ UsesMark /\ MarkType' = MarkType
  BY <1>1, JobStays DEF Claimed, Careful
<1>3. CASE step' = "gone"
  BY <1>3, NothingIsClaimed DEF InPass, Quiet, Settled
<1>4. CASE step' = "reading" /\ offset' = 0 /\ \E schema : low' = Resolved(schema)
  <2>1. ~Quiet'
    BY <1>4 DEF Quiet, Settled
  <2>2. mem # NoMark => low' = state_to_literal(mem)
    BY <1>4 DEF Resolved
  <2>3. \A n \in 1..Len(Asked') : ~(n <= 0)
    OBVIOUS
  <2>4. QED BY <1>1, <1>4, <2>1, <2>2, <2>3 DEF LowIsLower, MarkIsHighest, NoMark
<1>5. QED BY <1>1, <1>2, <1>3, <1>4

LEMMA PageHighest ==
  ASSUME PathTyped, MarksFit, RowsAreAccountedFor, NextPage, Claimed, Claimed',
         ~OrdersDiffer => MarkIsHighest
  PROVE  LowIsLower' /\ (~OrdersDiffer' => MarkIsHighest')
<1> DEFINE page == Page(Asked)
           T == ToSet(page)
           R == DOMAIN read'
           after == UpdateState(page)
<1>1. /\ job' = job /\ have' = have /\ up' = up /\ low' = low /\ step = "reading" /\ crashes' = crashes
      /\ erred' = erred
      /\ step' = IF page = <<>> THEN "draining" ELSE "rows"
      /\ mem' = after /\ offset' = offset + job.page
      /\ R = DOMAIN read \cup T
  <2>1. erred' # TRUE
    BY DEF Claimed, Careful
  <2>2. QED BY <2>1, NextPageSteps, CrashesStay
<1>2. /\ Asked \in Seq(1..have) /\ offset \in Nat /\ job.page \in Nat \ {0} /\ Len(Asked) \in Nat
      /\ page \in Seq(1..have)
      /\ \A n \in 1..Len(Asked) : offset < n /\ n <= offset + job.page => Asked[n] \in T
  <2>1. Asked \in Seq(1..have) /\ offset \in Nat /\ job.page \in Nat \ {0}
    BY Numbers, AskedTyped DEF PathTyped
  <2>2. QED BY <2>1, PageTyped, LenProperties
<1>3. /\ JobIsGiven /\ T \subseteq 1..have /\ 1..have \subseteq 1..Len(job.rows)
      /\ DOMAIN read \subseteq 1..have
      /\ \A i \in T : IsAbove(i, low)
  BY Numbers, MarkAfterPage DEF PathTyped, Claimed
<1> HIDE DEF T, page
<1>4. InPass /\ job.kind = "max" /\ step' # "idle"
  BY <1>1 DEF InPass, Claimed, Careful
<1>5. LowIsLower'
  BY <1>4 DEF LowIsLower, Quiet, Settled
<1>6. ASSUME ~OrdersDiffer' PROVE MarkIsHighest'
  <2>1. \A j, k \in R : MarkCell(j) # Null /\ MarkCell(k) # Null => Agrees(j, k)
    BY <1>1, <1>6, RowsAgree
  <2>2. ~OrdersDiffer
    <3>1. /\ \A i : Degree(i)' = Degree(i) /\ MarkCell(i)' = MarkCell(i)
          /\ MarkType' = MarkType
      BY <1>1, JobStays DEF Degree
    <3>2. QED BY <1>1, <1>6, <3>1 DEF OrdersDiffer, Null
  <2>3. MarkIsHighest
    BY <2>2
  <2>4. mem # NoMark => \E k \in DOMAIN read : MarkOf(mem, k)
    BY <1>4, MarkHasRow
  <2>5. mem # NoMark => \E k \in R : MarkOf(mem, k)
    BY <1>1, <2>4
  <2>6. R \subseteq 1..Len(job.rows) /\ T \subseteq R
    BY <1>1, <1>3
  <2>7. /\ mem # NoMark => after # NoMark
        /\ \A i \in T : MarkRead(i) # Null => after # NoMark /\ RowHeight(i) <= Height(after)
        /\ mem # NoMark => Height(mem) <= Height(after)
        /\ \/ after = mem /\ \A i \in T : MarkRead(i) = Null
           \/ \E i \in T : MarkRead(i) # Null /\ after = MarkRead(i)
           \/ /\ after = mem /\ mem # NoMark
              /\ \E i \in T : MarkRead(i) # Null /\ ~value_gt(MarkRead(i), mem)
    <3> HIDE DEF R
    <3> QED BY <1>2, <1>3, <1>4, <2>1, <2>5, <2>6, HighestOfPage DEF T
  <2>8. \A i \in T : MarkRead(i) # Null /\ MarkType \in NumberTypes => IsNumber(MarkRead(i))
    BY <1>1, <2>6, <1>3, RowsFit
  \* A text in a column of numbers stays only if the page has no mark.
  <2>9. ASSUME MarkType \in NumberTypes, after # NoMark, ~IsNumber(after)
        PROVE  after = mem /\ \A i \in T : MarkRead(i) = Null
    <3>1. SUFFICES ASSUME after = mem, NEW i \in T, MarkRead(i) # Null, ~value_gt(MarkRead(i), mem)
                   PROVE  FALSE
      BY <2>7, <2>8, <2>9
    <3>2. PICK k \in DOMAIN read : MarkOf(mem, k)
      BY <2>4, <2>9, <3>1
    <3>3. low = Mark(k)
      BY <1>4, <2>3, <2>9, <3>1, <3>2 DEF MarkIsHighest, MarkOf
    <3>4. IsAbove(i, Mark(k)) /\ i \in R /\ k \in R /\ i \in 1..Len(job.rows) /\ k \in 1..Len(job.rows)
      BY <1>1, <1>3, <2>6, <3>3
    <3>5. Degree(i) > Degree(k)
      BY <1>3, <3>2, <3>4, AboveMeansHigher DEF MarkOf
    <3>6. MarkOf(MarkRead(i), i) /\ MarkCell(i) # Null /\ MarkCell(k) # Null
      BY <1>3, <3>1, <3>2, <3>4, RowsFit, RowHasMark DEF MarkOf
    <3>7. Agrees(k, i)
      BY <2>1, <3>4, <3>6
    <3>8. QED BY <1>3, <2>9, <3>1, <3>2, <3>4, <3>5, <3>6, <3>7, HigherIsPreferred
  <2>10. after # NoMark => Height(after) \in Int
    <3>1. \A i \in T : MarkRead(i) # Null => Height(MarkRead(i)) \in Int
      BY <1>3, <2>6, RowsFit, MarkHeight
    <3>2. mem # NoMark => Height(mem) \in Int
      BY <1>3, <2>5, <2>6, MarkHeight
    <3>3. QED BY <2>7, <3>1, <3>2
  <2>11. ASSUME NEW n \in 1..Len(Asked), n <= offset'
         PROVE  \/ MarkRead(Asked[n]) = Null
                \/ /\ after # NoMark /\ Height(MarkRead(Asked[n])) <= Height(after)
                   /\ MarkType \in NumberTypes => IsNumber(after)
    <3> DEFINE i == Asked[n]
    <3>0. i \in 1..have
      BY <1>2, ElementOfSeq
    <3>1. n <= offset \/ (offset < n /\ n <= offset + job.page)
      BY <1>1, <1>2, <2>11
    <3>2. CASE n <= offset
      <4>1. Unbeaten(i)
        BY <1>4, <2>3, <3>2 DEF MarkIsHighest
      <4>2. SUFFICES ASSUME MarkRead(i) # Null
                     PROVE  /\ after # NoMark /\ Height(MarkRead(i)) <= Height(after)
                            /\ MarkType \in NumberTypes => IsNumber(after)
        OBVIOUS
      <4>3. mem # NoMark /\ Height(MarkRead(i)) <= Height(mem) /\ (MarkType \in NumberTypes => IsNumber(mem))
        BY <4>1, <4>2 DEF Unbeaten
      <4>4. Height(MarkRead(i)) \in Int /\ Height(mem) \in Int
        BY <1>3, <2>5, <2>6, <3>0, <4>2, <4>3, RowsFit, MarkHeight
      <4>5. Height(MarkRead(i)) <= Height(after)
        <5>1. \A a, b, c \in Int : a <= b /\ b <= c => a <= c
          OBVIOUS
        <5>2. QED BY <2>7, <2>10, <4>3, <4>4, <5>1
      <4>6. MarkType \in NumberTypes => IsNumber(after)
        BY <2>7, <2>9, <4>3
      <4>7. QED BY <2>7, <4>3, <4>5, <4>6
    <3>3. CASE offset < n /\ n <= offset + job.page
      <4>1. i \in T
        BY <1>2, <3>3
      <4>2. SUFFICES ASSUME MarkRead(i) # Null
                     PROVE  /\ after # NoMark /\ Height(MarkRead(i)) <= Height(after)
                            /\ MarkType \in NumberTypes => IsNumber(after)
        OBVIOUS
      <4>3. after # NoMark /\ RowHeight(i) <= Height(after)
        BY <2>7, <4>1, <4>2
      <4>4. Height(MarkRead(i)) = RowHeight(i)
        BY <1>3, <2>6, <4>1, <4>2, RowsFit, MarkHeight
      <4>5. MarkType \in NumberTypes => IsNumber(after)
        BY <2>9, <4>1, <4>2, <4>3
      <4>6. QED BY <4>3, <4>4, <4>5
    <3>4. QED BY <3>1, <3>2, <3>3
  <2>12. after # NoMark /\ MarkType \in NumberTypes /\ ~IsNumber(after) => state_to_literal(after) = low
    BY <1>4, <2>3, <2>9 DEF MarkIsHighest
  <2>13. /\ \A i : MarkRead(i)' = MarkRead(i)
         /\ MarkType' = MarkType
         /\ Asked' = Asked
    BY <1>1, JobStays, AskedStays
  <2>14. \A n \in 1..Len(Asked') : n <= offset' => Unbeaten(Asked[n])'
    <3>1. SUFFICES ASSUME NEW n \in 1..Len(Asked), n <= offset'
                   PROVE  Unbeaten(Asked[n])'
      BY <2>13
    <3>2. /\ MarkRead(Asked[n])' = MarkRead(Asked[n])
          /\ Height(MarkRead(Asked[n]))' = Height(MarkRead(Asked[n]))
      BY <2>13 DEF Height
    <3>3. Height(mem)' = Height(after)
      BY <1>1, <2>13 DEF Height
    <3> HIDE DEF after
    <3>4. QED BY <1>1, <2>11, <2>13, <3>1, <3>2, <3>3 DEF Unbeaten, NoMark, Null
  <2> HIDE DEF after
  <2>15. ~Quiet'
    BY <1>4 DEF Quiet, Settled
  <2>16. QED BY <1>1, <2>12, <2>13, <2>14, <2>15 DEF MarkIsHighest, NoMark
<1>7. QED BY <1>5, <1>6

LEMMA SaveHighest ==
  ASSUME PathTyped, RowsAreAccountedFor, Save, Claimed, ~OrdersDiffer => MarkIsHighest
  PROVE  LowIsLower' /\ (~OrdersDiffer' => MarkIsHighest')
<1>1. /\ job' = job /\ have' = have /\ up' = up /\ mem' = mem /\ read' = read /\ passed' = from
      /\ low' = low /\ offset' = offset /\ faults' = faults /\ erred' = erred
      /\ up /\ step = "draining" /\ step' = "idle" /\ crashes' = crashes
  BY FileMarkAfterSave, CrashesStay
<1>2. ByMark /\ QueryGoesByFile /\ MarkIsOfQuery /\ PagesAreRead /\ InPass /\ ~InPass'
  BY <1>1 DEF Claimed, Careful, RowsAreAccountedFor, ByMark, InPass
<1>3. /\ JobIsGiven /\ 1..have \subseteq 1..Len(job.rows)
      /\ DOMAIN read \subseteq 1..Len(job.rows)
      /\ Asked \in Seq(1..have) /\ offset \in Nat
  BY Numbers, AskedTyped DEF PathTyped
<1>4. /\ \A i : Degree(i)' = Degree(i) /\ MarkCell(i)' = MarkCell(i) /\ MarkRead(i)' = MarkRead(i)
      /\ \A i, literal : IsAbove(i, literal)' <=> IsAbove(i, literal)
      /\ MarkType' = MarkType /\ Asked' = Asked
  BY <1>1, JobStays, AskedStays DEF Degree
<1>5. LowIsLower'
  <2>1. SUFFICES ASSUME mem # NoMark, NEW i \in 1..have, IsAbove(i, state_to_literal(mem))
                 PROVE  IsAbove(i, low) \/ \E first \in FirstRun : ~IsAbove(i, first)
    BY <1>1, <1>4, FirstRunGrows DEF LowIsLower, NoMark
  <2>2. CASE MarkIsFileMark
    BY <1>2, <2>1, <2>2 DEF MarkIsFileMark, QueryGoesByFile
  <2>3. CASE ~MarkIsFileMark /\ FileMark # NoMark
    <3>1. PICK k \in DOMAIN read : MarkRead(k) # Null /\ Mark(k) = state_to_literal(mem) /\ IsAbove(k, low)
      BY <1>2, <2>3 DEF MarkIsOfQuery
    <3>2. PICK j \in DOMAIN read : MarkRead(j) # Null /\ Mark(j) = low
      BY <1>2, <2>3 DEF ByMark, FileMarkIsOld, QueryGoesByFile
    <3>3. QED BY <1>3, <2>1, <3>1, <3>2, MarksAreOrdered
  <2>4. CASE ~MarkIsFileMark /\ FileMark = NoMark
    BY <1>1, <1>2, <2>4 DEF QueryGoesByFile
  <2>5. QED BY <2>2, <2>3, <2>4
<1>6. ASSUME ~OrdersDiffer' PROVE MarkIsHighest'
  <2>1. MarkIsHighest
    BY <1>1, <1>4, <1>6 DEF OrdersDiffer, Null
  <2>2. \A n \in 1..Len(Asked) : n <= offset
    <3>1. offset >= Len(Asked) /\ Len(Asked) \in Nat
      BY <1>1, <1>2, <1>3, LenProperties DEF PagesAreRead
    <3>2. QED BY <1>3, <3>1
  <2>3. \A n \in 1..Len(Asked) : Unbeaten(Asked[n]) /\ Asked[n] \in DOMAIN read
    BY <1>2, <2>1, <2>2 DEF MarkIsHighest, PagesAreRead
  <2>4. \A i : Unbeaten(i)' <=> Unbeaten(i)
    BY <1>1, <1>4 DEF Unbeaten, Height, NoMark, Null
  <2>5. QED BY <1>1, <1>2, <1>4, <2>3, <2>4 DEF MarkIsHighest
<1>7. QED BY <1>5, <1>6

LEMMA HighestAfterStep ==
  ASSUME PathTyped, RowsAreAccountedFor, HighestInv, [PathNext]_pathVars
  PROVE  HighestInv'
<1>1. MarksFit /\ MarksFit'
  BY MarksFitAfterStep DEF HighestInv
<1>2. SUFFICES ASSUME Claimed' PROVE LowIsLower' /\ (~OrdersDiffer' => MarkIsHighest')
  BY <1>1 DEF HighestInv, Claimed, Careful
<1>3. faults \in Nat /\ passed <= have /\ have \in Nat /\ passed \in Nat
  BY Numbers DEF PathTyped
<1>4. ASSUME Claimed PROVE LowIsLower /\ (~OrdersDiffer => MarkIsHighest)
  BY <1>4 DEF HighestInv, Claimed, Careful
<1>5. ASSUME job' = job, erred' = erred PROVE Claimed
  BY <1>2, <1>5, JobStays DEF Claimed, Careful
<1>6. CASE StartPass
  BY <1>2, <1>6, StartHighest
<1>7. CASE NextPage
  <2>1. job' = job /\ (erred' = TRUE \/ erred' = erred)
    BY <1>7, NextPageSteps
  <2>2. Claimed
    BY <1>2, <1>5, <2>1 DEF Claimed, Careful
  <2>3. QED BY <1>1, <1>2, <1>4, <1>7, <2>2, PageHighest
<1>8. CASE QuietStep
  <2>1. /\ job' = job /\ have' = have /\ up' = up /\ mem' = mem /\ low' = low /\ offset' = offset
        /\ from' = from /\ read' = read /\ passed' = passed /\ (faults > 0 => faults' > 0)
        /\ \/ erred' = TRUE
           \/ erred' = erred /\ (step' = step \/ (step = "rows" /\ step' = "reading"))
        /\ crashes' = crashes
    BY <1>3, <1>8, QuietSteps, CrashesStay
  <2>2. erred' = erred
    BY <1>2, <2>1 DEF Claimed, Careful
  <2>3. erred' # TRUE
    BY <1>2 DEF Claimed, Careful
  <2>4. QED BY <1>4, <1>5, <2>1, <2>2, <2>3, HighestStays
<1>9. CASE Save
  <2>1. Claimed
    BY <1>5, <1>9, FileMarkAfterSave
  <2>2. QED BY <1>4, <1>9, <2>1, SaveHighest
<1>10. CASE SourceInsert
  <2>1. have' = have + 1 /\ passed' = passed /\ step' = "idle"
    BY <1>10, SourceInsertSteps
  <2>2. passed' # have'
    BY <1>3, <2>1
  <2>3. ~InPass' /\ ~Quiet'
    BY <2>1, <2>2 DEF InPass, Quiet
  <2>4. QED BY <2>3, NothingIsClaimed
<1>11. CASE NeighbourSaves
  BY <1>4, <1>5, <1>11, FileMarkAfterNeighbour, CrashesStay, HighestStays
<1>12. CASE Crash
  <2>1. ~InPass' /\ ~Quiet'
    BY <1>12, CrashSteps DEF InPass, Quiet, Settled
  <2>2. QED BY <2>1, NothingIsClaimed
<1>13. CASE Restart
  <2>1. from' = from /\ from = 0 /\ step' = step /\ ~up /\ passed' = passed
    BY <1>1, <1>13, RestartSteps DEF MarksFit
  <2>2. ~InPass'
    BY <2>1 DEF InPass, PathTyped
  <2>3. ~Quiet'
    BY <1>3, <2>1 DEF Quiet, Settled
  <2>4. QED BY <2>2, <2>3, NothingIsClaimed
<1>14. CASE UNCHANGED pathVars
  <2>1. /\ job' = job /\ have' = have /\ up' = up /\ low' = low /\ offset' = offset /\ from' = from
        /\ mem' = mem /\ read' = read /\ passed' = passed /\ crashes' = crashes /\ erred' = erred
        /\ faults' = faults /\ step' = step
    BY <1>14 DEF pathVars, sourceVars, passVars, historyVars
  <2>2. QED BY <1>4, <1>5, <2>1, HighestStays
<1>15. QED BY <1>6, <1>7, <1>8, <1>9, <1>10, <1>11, <1>12, <1>13, <1>14
          DEF PathNext, PathStep, QuietStep

(* What the mark selects again is a row with a mark.                       *)
LEMMA RowIsRead ==
  ASSUME JobIsGiven, NEW i \in 1..Len(job.rows), NEW k \in 1..Len(job.rows),
         MarkRead(k) # Null, MarkCell(i) # Null
  PROVE  MarkRead(i) # Null
<1>1. /\ MarkRead(i) = Reads(job.source, MarkType, MarkCell(i))
      /\ MarkRead(k) = Reads(job.source, MarkType, MarkCell(k))
  <2>1. job.mark \in Selected
    BY DEF MarkRead, Row, ValueAt
  <2>2. QED BY <2>1 DEF MarkRead, Row, ValueAt, MarkType, MarkCell
<1>2. ~ReadAsNull(job.source, MarkType)
  BY <1>1 DEF Reads
<1>3. QED BY <1>1, <1>2 DEF Reads, Int_, UInt, Float, Decimal, Date, String, Null

(* A row the mark selects again although it was read has the f64 of the    *)
(* mark, or no database orders it like the program does.                   *)
LEMMA OnlyF64Hides ==
  ASSUME JobIsGiven, NEW i \in 1..Len(job.rows), NEW k \in 1..Len(job.rows), NEW v,
         MarkOf(v, k), MarkRead(i) # Null, MarkCell(i) # Null, MarkCell(k) # Null,
         Agrees(k, i), Degree(i) > Degree(k), Height(MarkRead(i)) <= Height(v),
         MarkType \in NumberTypes => IsNumber(v)
  PROVE  IsNumber(v) /\ AsF64(MarkRead(i)) = AsF64(v)
<1>1. /\ MarkOf(MarkRead(i), i) /\ (MarkType \in NumberTypes => IsNumber(MarkRead(i)))
      /\ MarkType \in NumberTypes \cup TimeTypes \cup TextTypes
  BY RowsFit, JobFacts
<1>2. /\ RowHeight(i) \in Int /\ RowHeight(k) \in Int /\ RowHeight(i) <= RowHeight(k)
      /\ Degree(i) \in Int /\ Degree(k) \in Int
  BY <1>1, MarkHeight, DegreeTyped
<1>3. CASE MarkType = "double"
  <2>1. RowHeight(i) = Degree(i) /\ RowHeight(k) = Degree(k)
    BY <1>3 DEF RowHeight
  <2>2. QED BY <1>2, <2>1
<1>4. CASE MarkType \in {"bigint", "smallint", "decimal"}
  <2>1. RowHeight(i) = F64(Degree(i)) /\ RowHeight(k) = F64(Degree(k))
    BY <1>4 DEF RowHeight, NumberTypes
  <2>2. F64(Degree(k)) <= F64(Degree(i))
    BY <1>2, F64Monotone
  <2>3. RowHeight(i) = RowHeight(k)
    BY <1>2, <2>1, <2>2
  <2>4. CASE MarkType \in {"bigint", "smallint"}
    BY <1>1, <2>3, <2>4, MarkIsNumber
  <2>5. CASE MarkType = "decimal"
    <3>1. MarkType \in NumberTypes
      BY <2>5 DEF NumberTypes
    <3>2. QED BY <1>1, <2>3, <2>5, <3>1, MarkIsDecimal
  <2>6. QED BY <1>4, <2>4, <2>5
<1>5. CASE MarkType \in TimeTypes \cup TextTypes
  <2>1. PICK s \in ToSet(Lex) : MarkCell(i) = [s |-> s]
    BY <1>1, <1>5, MarkIsQuoted
  <2>2. PICK t \in ToSet(Lex) : MarkCell(k) = [s |-> t]
    BY <1>5, MarkIsQuoted
  <2>3. MarkType \notin NumberTypes /\ Place(s) \in Int /\ Place(t) \in Int
    BY <1>5, PlaceTyped DEF NumberTypes, TimeTypes, TextTypes
  <2>4. RowHeight(i) = Place(s) /\ RowHeight(k) = Place(t)
    BY <1>5, <2>1, <2>2, <2>3 DEF RowHeight, NumberTypes, TimeTypes, TextTypes
  <2>5. Degree(i) = Rank(job.source, MarkType, s) /\ Degree(k) = Rank(job.source, MarkType, t)
    BY <2>1, <2>2, <2>3 DEF Degree
  <2>6. CASE MarkType \in TextTypes /\ job.source # "oracle"
    <3>1. ~(Place(t) > Place(s))
      BY <1>2, <2>1, <2>2, <2>6 DEF Agrees
    <3>2. Place(t) = Place(s)
      BY <1>2, <2>3, <2>4, <3>1
    <3>3. s = t
      BY <3>2, PlaceIsItsOwn
    <3>4. QED BY <1>2, <2>5, <3>3
  <2>7. CASE ~(MarkType \in TextTypes /\ job.source # "oracle")
    <3>1. Degree(i) = Place(s) /\ Degree(k) = Place(t)
      BY <2>5, <2>7 DEF Rank
    <3>2. QED BY <1>2, <2>3, <2>4, <3>1
  <2>8. QED BY <2>6, <2>7
<1>6. QED BY <1>1, <1>3, <1>4, <1>5 DEF NumberTypes

LEMMA CausesAreKnown ==
  ASSUME PathTyped, RowsAreAccountedFor, HighestInv
  PROVE  RereadsHaveACause
<1> DEFINE literal == IF mem = NoMark THEN low ELSE state_to_literal(mem)
<1>1. SUFFICES ASSUME Settled, passed = have, UsesMark, job.kind = "max", ~SharesFile,
                      NEW i \in ToSet(Query(have, literal)), ~OrdersDiffer,
                      ~\E first \in FirstRun : ~IsAbove(i, first)
               PROVE  \/ mem = NoMark /\ MarkRead(i) = Null
                      \/ IsNumber(mem) /\ AsF64(MarkRead(i)) = AsF64(mem)
  BY DEF RereadsHaveACause, IsAbove
<1>2. Claimed /\ Quiet /\ LowIsLower /\ MarkIsHighest /\ MarksFit
  BY <1>1 DEF Claimed, Careful, Quiet, Settled, HighestInv
<1>3. /\ JobIsGiven /\ have \in Nat /\ 1..have \subseteq 1..Len(job.rows)
      /\ DOMAIN read \subseteq 1..Len(job.rows)
  BY Numbers DEF PathTyped
<1>4. i \in 1..have /\ IsAbove(i, literal)
  BY <1>1, <1>3, QuerySelectsAll
<1>5. IsAbove(i, low) => Unbeaten(i) /\ i \in DOMAIN read
  <2>1. SUFFICES ASSUME IsAbove(i, low) PROVE Unbeaten(i) /\ i \in DOMAIN read
    OBVIOUS
  <2>2. i \in ToSet(Asked) /\ Asked \in Seq(1..have)
    BY <1>1, <1>3, <1>4, <2>1, AskedTyped
  <2>3. PICK n \in 1..Len(Asked) : i = Asked[n]
    BY <2>2, LenProperties DEF ToSet
  <2>4. QED BY <1>2, <2>3 DEF MarkIsHighest
<1>6. CASE mem = NoMark
  BY <1>4, <1>5, <1>6 DEF Unbeaten
<1>7. CASE mem # NoMark
  <2>1. PICK k \in DOMAIN read : MarkOf(mem, k)
    BY <1>2, <1>7, MarkHasRow DEF Quiet, Settled
  <2>2. IsAbove(i, Mark(k)) /\ MarkRead(k) # Null
    BY <1>4, <1>7, <2>1 DEF MarkOf
  <2>3. MarkCell(i) # Null /\ Degree(i) > Degree(k) /\ MarkCell(k) # Null
    BY <1>3, <1>4, <2>2, AboveMeansHigher, RowHasMark
  <2>4. Unbeaten(i) /\ i \in DOMAIN read
    BY <1>1, <1>2, <1>4, <1>5, <1>7 DEF LowIsLower
  <2>5. MarkRead(i) # Null
    BY <1>3, <1>4, <2>2, <2>3, RowIsRead
  <2>6. /\ Height(MarkRead(i)) <= Height(mem)
        /\ MarkType \in NumberTypes => IsNumber(mem)
    BY <2>4, <2>5 DEF Unbeaten
  <2>7. Agrees(k, i)
    BY <1>1, <2>3, <2>4 DEF OrdersDiffer, Agrees
  <2>8. QED BY <1>3, <2>1, <2>3, <2>4, <2>5, <2>6, <2>7, OnlyF64Hides
<1>8. QED BY <1>6, <1>7

(* After a pass that returned Ok and until the source grows, the rows the  *)
(* mark selects again have one of the causes that are named: marks no      *)
(* plugin reads, orders that differ, marks that are one f64, the literal   *)
(* of the first run, another job's mark.  For every page length, any       *)
(* number of rows, passes, crashes and restarts.                           *)
THEOREM RereadsAreExplained == PathSpec => []RereadsHaveACause
<1>1. PathInit => RowsAreAccountedFor /\ HighestInv
  <2> SUFFICES ASSUME PathInit PROVE RowsAreAccountedFor /\ HighestInv
    OBVIOUS
  <2>1. /\ mem = NoMark /\ files = <<>> /\ step = "idle" /\ passed = 0 /\ up = TRUE /\ crashes = 0
    BY DEF PathInit
  <2>2. FileMark = NoMark /\ 1..passed = {} /\ ~InPass /\ ~Quiet
    BY <2>1 DEF FileMark, InPass, Quiet, Settled
  <2>3. RowsAreAccountedFor
    BY <2>1, <2>2 DEF RowsAreAccountedFor, ByMark, FileMarkIsOld, MarkIsFileMark
  <2>4. MarksFit
    BY <2>1, <2>2 DEF MarksFit
  <2>5. QED BY <2>2, <2>3, <2>4 DEF HighestInv, LowIsLower, MarkIsHighest
<1>2. PathTyped /\ RowsAreAccountedFor /\ [PathNext]_pathVars => RowsAreAccountedFor'
  BY AccountsAfterStep
<1>3. PathTyped /\ RowsAreAccountedFor /\ HighestInv /\ [PathNext]_pathVars => HighestInv'
  BY HighestAfterStep
<1>4. PathTyped /\ RowsAreAccountedFor /\ HighestInv => RereadsHaveACause
  BY CausesAreKnown
<1>5. QED BY <1>1, <1>2, <1>3, <1>4, PathTypeCorrect, PTL DEF PathSpec

-----------------------------------------------------------------------------
(* The filter and the WHERE clause.                                        *)

\* What ordering decides an operator, d being the sign of left less right.
Decides(op, same, d) ==
    \/ op = "eq" /\ same
    \/ op = "ne" /\ ~same
    \/ op = "gt" /\ d > 0
    \/ op = "gte" /\ d >= 0
    \/ op = "lt" /\ d < 0
    \/ op = "lte" /\ d <= 0

\* '' by a name, for the solvers that have no such string.
Empty == ""

(* '' is the first text.                                                   *)
LEMMA EmptyIsFirst ==
  ASSUME NEW s \in ToSet(Lex), s # Empty
  PROVE  Place(Empty) - Place(s) < 0
<1>1. Place(s) \in 1..Len(Lex) /\ Lex[Place(s)] = s
  BY PlaceOfText
<1>2. /\ Lex \in Seq(STRING)
      /\ \A i \in DOMAIN Lex : Lex[i] = Empty => i = 1
  BY ValuesAssumption, Zenon DEF Empty
<1>3. DOMAIN Lex = 1..Len(Lex) /\ Len(Lex) \in Nat
  BY <1>2, LenProperties
<1>4. CASE Empty \in ToSet(Lex)
  <2>1. Place(Empty) \in 1..Len(Lex) /\ Lex[Place(Empty)] = Empty
    BY <1>4, PlaceOfText
  <2>2. Place(Empty) = 1
    BY <1>2, <1>3, <2>1
  <2>3. Place(s) # 1
    BY <1>1, <2>1, <2>2
  <2>4. QED BY <1>1, <1>3, <2>2, <2>3
<1>5. CASE Empty \notin ToSet(Lex)
  <2> DEFINE I == {i \in 1..Len(Lex) : Lex[i] = Empty}
  <2>1. Place(Empty) = IF I # {} THEN Min(I) ELSE 0
    BY DEF Place, SelectInSeq
  <2>2. I = {}
    BY <1>3, <1>5 DEF ToSet
  <2>3. Place(Empty) = 0
    BY <2>1, <2>2
  <2>4. QED BY <1>1, <1>3, <2>3
<1>6. QED BY <1>4, <1>5

LEMMA FilterDecides ==
  ASSUME NEW e \in Conditions(job.types), NEW row, Order(ValueAt(row, e.column), e.literal) \in Int
  PROVE  LET l == ValueAt(row, e.column)
         IN  eval_condition(e, row).ok <=> Decides(e.op, equal(l, e.literal), Order(l, e.literal))
<1> DEFINE l == ValueAt(row, e.column)
           same == equal(l, e.literal)
           d == Order(l, e.literal)
<1>1. e.op \in {"eq", "ne", "gt", "gte", "lt", "lte"} /\ "ref" \notin DOMAIN e
  BY DEF Conditions
<1>2. eval_condition(e, row) =
        CASE e.op \in {"eq", "ne"} -> Ok(same <=> e.op = "eq")
          [] e.op \in {"is", "not"} /\ e.literal = Null -> Ok((l = Null) <=> e.op = "is")
          [] e.op \in {"gt", "gte", "lt", "lte"} -> Ok(d \in Sides(e.op))
          [] OTHER -> Err
  BY <1>1 DEF eval_condition
<1>3. d \in Int
  OBVIOUS
<1> HIDE DEF l, same, d
<1>4. ASSUME NEW b, eval_condition(e, row) = Ok(b)
      PROVE  eval_condition(e, row).ok = b
  BY <1>4 DEF Ok
<1>5. CASE e.op \in {"eq", "ne"}
  <2> DEFINE b == same <=> e.op = "eq"
  <2>1. eval_condition(e, row) = Ok(b)
    BY <1>2, <1>5
  <2>2. Decides(e.op, same, d) <=> b
    BY <1>5 DEF Decides
  <2> HIDE DEF b
  <2>3. eval_condition(e, row).ok <=> Decides(e.op, same, d)
    BY <1>4, <2>1, <2>2
  <2>4. QED BY <2>3 DEF l, same, d
<1>6. CASE e.op \in {"gt", "gte", "lt", "lte"}
  <2> DEFINE b == d \in Sides(e.op)
  <2>1. eval_condition(e, row) = Ok(b)
    BY <1>2, <1>6
  <2>2. Decides(e.op, same, d) <=> b
    BY <1>3, <1>6 DEF Decides, Sides
  <2> HIDE DEF b
  <2>3. eval_condition(e, row).ok <=> Decides(e.op, same, d)
    BY <1>4, <2>1, <2>2
  <2>4. QED BY <2>3 DEF l, same, d
<1>7. QED BY <1>1, <1>5, <1>6

LEMMA SqlDecides ==
  ASSUME NEW e \in Conditions(job.types), NEW cell
  PROVE  LET literal == state_to_literal(e.literal)
             d == IF "number" \in DOMAIN literal THEN NumberIn(cell) - literal.number
                  ELSE Collated(job.types[e.column], cell.s, literal.quoted)
         IN  SqlHolds(e, cell) <=> Decides(e.op, d = 0, d)
<1> DEFINE literal == state_to_literal(e.literal)
           d == IF "number" \in DOMAIN literal THEN NumberIn(cell) - literal.number
                ELSE Collated(job.types[e.column], cell.s, literal.quoted)
<1>1. e.op \in {"eq", "ne", "gt", "gte", "lt", "lte"}
  BY DEF Conditions
<1>2. SqlHolds(e, cell) =
        CASE e.op = "eq" -> d = 0 [] e.op = "ne" -> d # 0
          [] e.op = "gt" -> d > 0 [] e.op = "gte" -> d >= 0
          [] e.op = "lt" -> d < 0 [] e.op = "lte" -> d <= 0
  BY DEF SqlHolds
<1> HIDE DEF d
<1>3. SqlHolds(e, cell) <=> Decides(e.op, d = 0, d)
  BY <1>1, <1>2 DEF Decides
<1>4. QED BY <1>3 DEF d

(* What a column is read as: nothing, a number or a text of the cell.      *)
LEMMA CellIsRead ==
  ASSUME JobIsGiven, NEW i \in 1..Len(job.rows), NEW c \in DOMAIN job.types,
         ValueAt(Row(i), c) # Null
  PROVE  \/ \E n \in Int : /\ job.rows[i][c] = [n |-> n]
                           /\ ValueAt(Row(i), c) \in {[int |-> n], [uint |-> n], [float |-> n]}
         \/ \E s \in ToSet(Lex) : /\ job.rows[i][c] = [s |-> s]
                                  /\ ValueAt(Row(i), c) \in {[decimal |-> s], [date |-> s], [string |-> s]}
<1> DEFINE cell == job.rows[i][c]
           type == job.types[c]
<1>1. ValueAt(Row(i), c) = Reads(job.source, type, cell)
  BY DEF ValueAt, Row
<1>2. cell # Null /\ ~ReadAsNull(job.source, type)
  BY <1>1 DEF Reads
<1>3. type \in NumberTypes \cup TimeTypes \cup TextTypes /\ cell \in Cells(type)
  BY JobsAssumption DEF JobIsGiven
<1>4. ValueAt(Row(i), c) =
        CASE type \in {"bigint", "smallint"} -> IF cell.n < I64 THEN Int_(cell.n) ELSE UInt(cell.n)
          [] type = "double" -> Float(cell.n)
          [] type = "decimal" -> Decimal(cell.s)
          [] type = "datetime" -> Date(cell.s)
          [] OTHER -> String(cell.s)
  BY <1>1, <1>2 DEF Reads
<1> HIDE DEF cell, type
<1>5. CASE type \in {"bigint", "smallint", "double"}
  <2>1. PICK n \in Int : cell = [n |-> n]
    BY <1>2, <1>3, <1>5 DEF Cells, Whole, NumberTypes
  <2>2. ValueAt(Row(i), c) \in {Int_(n), UInt(n), Float(n)}
    BY <1>4, <1>5, <2>1
  <2>3. QED BY <2>1, <2>2 DEF Int_, UInt, Float, cell
<1>6. CASE type \in {"decimal", "datetime", "varchar"}
  <2>1. PICK s \in ToSet(Lex) : cell = [s |-> s]
    BY <1>2, <1>3, <1>6, ValuesAssumption DEF Cells, NumberTypes
  <2>2. ValueAt(Row(i), c) \in {Decimal(s), Date(s), String(s)}
    BY <1>4, <1>6, <2>1
  <2>3. QED BY <2>1, <2>2 DEF Decimal, Date, String, cell
<1>7. QED BY <1>3, <1>5, <1>6 DEF NumberTypes, TimeTypes, TextTypes

(* The literals of conditions, and what the source database makes of them. *)
LEMMA LiteralIsRead ==
  ASSUME NEW e \in Conditions(job.types)
  PROVE  /\ e.literal # Null /\ e.column \in DOMAIN job.types
         /\ \/ /\ \E n \in Int : /\ e.literal \in {[int |-> n], [float |-> n]}
                                 /\ state_to_literal(e.literal) = [number |-> n]
               /\ IsNumber(e.literal) /\ ~IsText(e.literal)
            \/ /\ \E s \in ToSet(Lex) : /\ e.literal = [string |-> s]
                                        /\ state_to_literal(e.literal) = [quoted |-> s]
               /\ ~IsNumber(e.literal) /\ TextOrEmpty(e.literal) = state_to_literal(e.literal).quoted
<1>1. /\ e.literal \in [int : Int] \cup [float : Int] \cup [string : ToSet(Lex)]
      /\ e.column \in DOMAIN job.types
  <2>1. Whole \subseteq Int
    BY DEF Whole
  <2>2. QED BY <2>1 DEF Conditions
<1>2. CASE e.literal \in [int : Int] \cup [float : Int]
  <2>1. PICK n \in Int : e.literal \in {[int |-> n], [float |-> n]}
    BY <1>2
  <2>2. state_to_literal(e.literal) = [number |-> n]
    BY <2>1 DEF state_to_literal, Is, IsText
  <2>3. IsNumber(e.literal) /\ ~IsText(e.literal) /\ e.literal # Null
    BY <2>1 DEF IsNumber, IsText, Is, Null
  <2>4. QED BY <1>1, <2>1, <2>2, <2>3
<1>3. CASE e.literal \in [string : ToSet(Lex)]
  <2>1. PICK s \in ToSet(Lex) : e.literal = [string |-> s]
    BY <1>3
  <2>2. state_to_literal(e.literal) = [quoted |-> s] /\ TextOrEmpty(e.literal) = s
    BY <2>1 DEF state_to_literal, Is, IsText, TextOf, TextOrEmpty
  <2>3. ~IsNumber(e.literal) /\ e.literal # Null
    BY <2>1 DEF IsNumber, Is, Null
  <2>4. QED BY <1>1, <2>1, <2>2, <2>3
<1>4. QED BY <1>1, <1>2, <1>3

LEMMA NullPasses ==
  ASSUME NEW e \in Conditions(job.types), NEW row, ValueAt(row, e.column) = Null
  PROVE  eval_condition(e, row).ok <=>
            e.op \in {"ne", "lte"} \cup
                     IF state_to_literal(e.literal) = [quoted |-> Empty] \/ IsNumber(e.literal) THEN {"gte"} ELSE {"lt"}
<1> DEFINE r == e.literal
           empty == state_to_literal(r) = [quoted |-> Empty] \/ IsNumber(r)
           d == Order(Null, r)
<1>1. ~equal(Null, r)
  BY DEF equal
<1>2. d = Place(Empty) - Place(TextOrEmpty(r))
  <2>1. ~IsNumber(Null) /\ ~IsText(Null)
    BY DEF IsNumber, Null, Is, IsText
  <2>2. TextOrEmpty(Null) = Empty
    BY <2>1, Zenon DEF TextOrEmpty, Empty
  <2>3. QED BY <2>1, <2>2 DEF Order
<1>3. /\ empty => TextOrEmpty(r) = Empty
      /\ ~empty => TextOrEmpty(r) \in ToSet(Lex) /\ TextOrEmpty(r) # Empty
  <2>1. CASE IsNumber(r)
    <3>1. ~IsText(r)
      BY <2>1, LiteralIsRead
    <3>2. TextOrEmpty(r) = Empty
      BY <3>1, Zenon DEF TextOrEmpty, Empty
    <3>3. QED BY <2>1, <3>2
  <2>2. CASE ~IsNumber(r)
    <3>1. PICK s \in ToSet(Lex) : state_to_literal(r) = [quoted |-> s] /\ TextOrEmpty(r) = state_to_literal(r).quoted
      BY <2>2, LiteralIsRead
    <3>2. TextOrEmpty(r) = s /\ (empty <=> s = Empty)
      BY <2>2, <3>1
    <3>3. QED BY <3>2
  <2>3. QED BY <2>1, <2>2
<1> HIDE DEF empty, r, d
<1>4. d \in Int /\ (empty => d = 0) /\ (~empty => d < 0)
  <2>1. Place(Empty) \in Int /\ Place(TextOrEmpty(r)) \in Int
    BY PlaceTyped
  <2>2. CASE empty
    BY <1>2, <1>3, <2>1, <2>2
  <2>3. CASE ~empty
    BY <1>2, <1>3, <2>1, <2>3, EmptyIsFirst
  <2>4. QED BY <2>2, <2>3
<1>5. eval_condition(e, row).ok <=> Decides(e.op, equal(Null, r), d)
  BY <1>4, FilterDecides DEF r, d
<1>6. e.op \in {"eq", "ne", "gt", "gte", "lt", "lte"}
  BY DEF Conditions
<1>7. Decides(e.op, equal(Null, r), d) <=> e.op \in {"ne", "lte"} \cup IF empty THEN {"gte"} ELSE {"lt"}
  <2>1. CASE empty
    BY <1>1, <1>4, <1>6, <2>1 DEF Decides
  <2>2. CASE ~empty
    BY <1>1, <1>4, <1>6, <2>2 DEF Decides
  <2>3. QED BY <2>1, <2>2
<1>8. QED BY <1>5, <1>7 DEF r, empty

LEMMA FilterIsWhere ==
  ASSUME JobIsGiven, NEW i \in 1..Len(job.rows), NEW e \in Conditions(job.types),
         LET v == ValueAt(Row(i), e.column)
             cell == job.rows[i][e.column]
             literal == state_to_literal(e.literal)
         IN  \/ /\ IsNumber(e.literal) /\ IsNumber(v)
                /\ {literal.number, NumberIn(cell)} \subseteq -Exact..Exact
             \/ /\ Is("string", e.literal) /\ Is("string", v)
                /\ InOneOrder(job.types[e.column], cell.s, literal.quoted)
  PROVE  LET x == NumberIn(job.rows[i][e.column])
             n == state_to_literal(e.literal).number
             tooClose == /\ IsNumber(e.literal) /\ e.op \in {"eq", "ne"} /\ x # n
                         /\ x - n \in -(Epsilon - 1)..(Epsilon - 1)
         IN  (eval_condition(e, Row(i)).ok <=> SqlHolds(e, job.rows[i][e.column])) <=> ~tooClose
<1> DEFINE c == e.column
           v == ValueAt(Row(i), c)
           cell == job.rows[i][c]
           r == e.literal
           literal == state_to_literal(r)
           d == IF "number" \in DOMAIN literal THEN NumberIn(cell) - literal.number
                ELSE Collated(job.types[c], cell.s, literal.quoted)
<1>1. v # Null /\ c \in DOMAIN job.types /\ r # Null
  <2>1. ~IsNumber(Null) /\ ~Is("string", Null)
    BY DEF IsNumber, Is, Null
  <2>2. QED BY <2>1, LiteralIsRead
<1>2. /\ Order(v, r) \in Int => (eval_condition(e, Row(i)).ok <=> Decides(e.op, equal(v, r), Order(v, r)))
      /\ SqlHolds(e, cell) <=> Decides(e.op, d = 0, d)
  BY FilterDecides, SqlDecides
<1>3. \/ \E n \in Int : cell = [n |-> n] /\ v \in {[int |-> n], [uint |-> n], [float |-> n]}
      \/ \E s \in ToSet(Lex) : cell = [s |-> s] /\ v \in {[decimal |-> s], [date |-> s], [string |-> s]}
  BY <1>1, CellIsRead
<1>4. CASE /\ IsNumber(r) /\ IsNumber(v)
           /\ {literal.number, NumberIn(cell)} \subseteq -Exact..Exact
  <2>1. \A n \in -Exact..Exact : F64(n) = n
    BY BeyondExact, F64Typed
  <2>2. PICK m \in Int : r \in {[int |-> m], [float |-> m]} /\ literal = [number |-> m]
    BY <1>4, LiteralIsRead
  <2>3. AsF64(r) = m /\ literal.number = m /\ "number" \in DOMAIN literal
    <3>1. m \in -Exact..Exact
      BY <1>4, <2>2
    <3>2. AsF64(r) \in {F64(m), m}
      BY <2>2 DEF AsF64, Is
    <3>3. QED BY <2>1, <2>2, <3>1, <3>2
  <2>4. AsF64(v) = NumberIn(cell)
    <3>1. CASE \E n \in Int : cell = [n |-> n] /\ v \in {[int |-> n], [uint |-> n], [float |-> n]}
      <4>1. PICK n \in Int : cell = [n |-> n] /\ v \in {[int |-> n], [uint |-> n], [float |-> n]}
        BY <3>1
      <4>2. NumberIn(cell) = n /\ n \in -Exact..Exact
        BY <1>4, <4>1, NumberTyped
      <4>3. AsF64(v) \in {F64(n), n}
        BY <4>1 DEF AsF64, Is
      <4>4. QED BY <2>1, <4>2, <4>3
    <3>2. CASE \E s \in ToSet(Lex) : cell = [s |-> s] /\ v \in {[decimal |-> s], [date |-> s], [string |-> s]}
      <4>1. PICK s \in ToSet(Lex) : cell = [s |-> s] /\ v \in {[decimal |-> s], [date |-> s], [string |-> s]}
        BY <3>2
      <4>2. v = [decimal |-> s] /\ Parses(s)
        BY <1>4, <4>1 DEF IsNumber, Is
      <4>3. NumberIn(cell) = Numeral[s] /\ AsF64(v) = F64(Numeral[s])
        BY <4>1, <4>2 DEF NumberIn, AsF64, Is
      <4>4. QED BY <1>4, <2>1, <4>3
    <3>3. QED BY <1>3, <3>1, <3>2
  <2>5. NumberIn(cell) \in Int
    BY <1>3, NumberTyped
  <2>6. d = NumberIn(cell) - m /\ Order(v, r) = NumberIn(cell) - m
    BY <1>4, <2>3, <2>4 DEF Order
  <2>7. equal(v, r) <=> NumberIn(cell) - m \in (1 - Epsilon)..(Epsilon - 1)
    BY <1>1, <1>4, <2>3, <2>4 DEF equal
  <2> DEFINE x == NumberIn(cell)
             near == x - m \in (1 - Epsilon)..(Epsilon - 1)
             tooClose == e.op \in {"eq", "ne"} /\ x # m /\ x - m \in -(Epsilon - 1)..(Epsilon - 1)
  <2>8. x \in Int /\ IsNumber(r) /\ literal.number = m
    BY <1>4, <2>3, <2>5
  <2>9. Epsilon \in Nat \ {0}
    BY Widths
  <2> HIDE DEF v, r, cell, literal, d, x
  <2>10. (d = 0 <=> x = m) /\ (x = m => near) /\ (near <=> x - m \in -(Epsilon - 1)..(Epsilon - 1))
    BY <2>6, <2>8, <2>9 DEF x
  <2>11. /\ eval_condition(e, Row(i)).ok <=> Decides(e.op, near, d)
         /\ SqlHolds(e, cell) <=> Decides(e.op, x = m, d)
    <3>1. Order(v, r) = d /\ d \in Int
      BY <2>6, <2>8 DEF x
    <3>2. eval_condition(e, Row(i)).ok <=> Decides(e.op, near, d)
      <4>1. equal(v, r) <=> near
        BY <2>7 DEF x
      <4>2. Decides(e.op, equal(v, r), d) <=> Decides(e.op, near, d)
        BY <4>1 DEF Decides
      <4>3. QED BY <1>2, <3>1, <4>2
    <3>3. Decides(e.op, d = 0, d) <=> Decides(e.op, x = m, d)
      BY <2>10 DEF Decides
    <3>4. QED BY <1>2, <3>2, <3>3
  <2>12. (Decides(e.op, near, d) <=> Decides(e.op, x = m, d)) <=> ~tooClose
    <3>1. CASE e.op \in {"eq", "ne"}
      BY <2>10, <3>1 DEF Decides
    <3>2. CASE e.op \notin {"eq", "ne"}
      BY <3>2 DEF Decides
    <3>3. QED BY <3>1, <3>2
  <2>13. QED BY <2>8, <2>11, <2>12 DEF v, r, cell, literal, x
<1>5. CASE /\ Is("string", r) /\ Is("string", v)
           /\ InOneOrder(job.types[c], cell.s, literal.quoted)
  <2>0. /\ \/ \E m \in Int : r \in {[int |-> m], [float |-> m]}
           \/ \E t \in ToSet(Lex) : r = [string |-> t] /\ literal = [quoted |-> t]
        /\ Is("string", r) /\ Is("string", v)
    BY <1>5, LiteralIsRead
  <2> HIDE DEF v, r, cell, literal
  <2>1. PICK s \in ToSet(Lex) : cell = [s |-> s] /\ v = [string |-> s]
    BY <1>3, <2>0 DEF Is
  <2>2. PICK t \in ToSet(Lex) : r = [string |-> t] /\ literal = [quoted |-> t]
    BY <2>0 DEF Is
  <2> USE DEF v, r, cell, literal
  <2>3. "number" \notin DOMAIN literal /\ literal.quoted = t /\ cell.s = s
    BY <2>1, <2>2
  <2>4. d = Collated(job.types[c], s, t)
    BY <2>3
  <2>5. Order(v, r) = Place(s) - Place(t) /\ (equal(v, r) <=> s = t)
    <3>1. ~IsNumber(v) /\ TextOrEmpty(v) = s /\ TextOrEmpty(r) = t
      BY <2>1, <2>2 DEF IsNumber, Is, TextOrEmpty, IsText, TextOf
    <3>2. v # Null /\ r # Null /\ (v = r <=> s = t)
      BY <2>1, <2>2 DEF Null
    <3> HIDE DEF v, r
    <3>3. QED BY <3>1, <3>2 DEF Order, equal
  <2>6. InOneOrder(job.types[c], s, t)
    BY <1>5, <2>3
  <2> HIDE DEF v, r, cell, literal, d
  <2>7. Place(s) \in Int /\ Place(t) \in Int /\ d \in Int
    <3>1. Rank(job.source, job.types[c], s) \in Int /\ Rank(job.source, job.types[c], t) \in Int
      BY CollateAssumption, PlaceTyped DEF Rank
    <3>2. QED BY <2>4, <3>1, PlaceTyped DEF Collated
  <2>8. (d > 0 <=> Place(s) > Place(t)) /\ (d < 0 <=> Place(s) < Place(t))
    BY <2>4, <2>6 DEF InOneOrder
  <2>9. d = 0 <=> s = t
    BY <2>7, <2>8, PlaceIsItsOwn
  <2>10. (Order(v, r) > 0 <=> d > 0) /\ (Order(v, r) < 0 <=> d < 0) /\ Order(v, r) \in Int
    BY <2>5, <2>7, <2>8
  <2>11. (Order(v, r) >= 0 <=> d >= 0) /\ (Order(v, r) <= 0 <=> d <= 0)
    BY <2>7, <2>10
  <2>12. eval_condition(e, Row(i)).ok <=> SqlHolds(e, cell)
    BY <1>2, <2>5, <2>9, <2>10, <2>11 DEF v, r, cell, Decides
  <2>13. ~IsNumber(r)
    BY <2>2 DEF IsNumber, Is
  <2>14. QED BY <2>12, <2>13 DEF r, cell
<1>6. QED BY <1>4, <1>5

(* For all rows, types, databases and conditions: the filter of a job and  *)
(* the WHERE clause of its source keep the same rows, NULL aside, and      *)
(* numbers that `eq` and `ne` cannot tell apart.                           *)
THEOREM FiltersAreWheres == PathSpec => []FiltersLikeWhere
<1>1. ASSUME PathTyped, DataTypeOK PROVE FiltersLikeWhere
  <2>1. JobIsGiven /\ ToSet(todo) \subseteq 1..Len(job.rows)
    BY <1>1, Numbers DEF DataTypeOK
  <2>2. job.conditions \subseteq Conditions(job.types)
    BY <2>1, JobsAssumption DEF JobIsGiven
  <2>3. SUFFICES ASSUME NEW i \in ToSet(todo), NEW e \in job.conditions
                 PROVE  LET v == ValueAt(Row(i), e.column)
                            cell == job.rows[i][e.column]
                            literal == state_to_literal(e.literal)
                            kept == eval_condition(e, Row(i)).ok
                            numbers == /\ IsNumber(e.literal) /\ IsNumber(v)
                                       /\ {literal.number, NumberIn(cell)} \subseteq -Exact..Exact
                            tooClose == /\ numbers /\ e.op \in {"eq", "ne"} /\ NumberIn(cell) # literal.number
                                        /\ NumberIn(cell) - literal.number \in -(Epsilon - 1)..(Epsilon - 1)
                            texts == /\ Is("string", e.literal) /\ Is("string", v)
                                     /\ ~(job.source = "oracle" /\ literal = [quoted |-> Empty])
                                     /\ InOneOrder(job.types[e.column], cell.s, literal.quoted)
                            others == IF literal = [quoted |-> Empty] \/ IsNumber(e.literal) THEN {"gte"} ELSE {"lt"}
                        IN  /\ v = Null => (kept <=> e.op \in {"ne", "lte"} \cup others)
                            /\ numbers \/ texts => ((kept <=> SqlHolds(e, cell)) <=> ~tooClose)
    BY DEF FiltersLikeWhere, Empty
  <2>4. i \in 1..Len(job.rows) /\ e \in Conditions(job.types)
    BY <2>1, <2>2
  <2>5. ~IsNumber(e.literal) \/ ~Is("string", e.literal)
    <3>1. CASE IsNumber(e.literal)
      <4>1. PICK n \in Int : e.literal \in {[int |-> n], [float |-> n]}
        BY <2>4, <3>1, LiteralIsRead
      <4>2. QED BY <4>1 DEF Is
    <3>2. QED BY <3>1
  <2> DEFINE v == ValueAt(Row(i), e.column)
             cell == job.rows[i][e.column]
             literal == state_to_literal(e.literal)
             kept == eval_condition(e, Row(i)).ok
             numbers == /\ IsNumber(e.literal) /\ IsNumber(v)
                        /\ {literal.number, NumberIn(cell)} \subseteq -Exact..Exact
             tooClose == /\ e.op \in {"eq", "ne"} /\ NumberIn(cell) # literal.number
                         /\ NumberIn(cell) - literal.number \in -(Epsilon - 1)..(Epsilon - 1)
             texts == /\ Is("string", e.literal) /\ Is("string", v)
                      /\ InOneOrder(job.types[e.column], cell.s, literal.quoted)
  <2>6. v = Null => (kept <=> e.op \in {"ne", "lte"} \cup
                        IF literal = [quoted |-> Empty] \/ IsNumber(e.literal) THEN {"gte"} ELSE {"lt"})
    BY <2>4, NullPasses
  <2>7. numbers \/ texts => ((kept <=> SqlHolds(e, cell)) <=> ~(IsNumber(e.literal) /\ tooClose))
    BY <2>1, <2>4, FilterIsWhere
  <2>8. texts => ~IsNumber(e.literal)
    BY <2>5
  <2>9. numbers => IsNumber(e.literal)
    OBVIOUS
  <2> HIDE DEF kept, tooClose
  <2>10. QED BY <2>6, <2>7, <2>8, <2>9 DEF kept, tooClose
<1>2. PathTyped /\ DataTypeOK => FiltersLikeWhere
  BY <1>1
<1>3. QED BY <1>2, PathTypeCorrect, DataTypeCorrect, PTL
=============================================================================
