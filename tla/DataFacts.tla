----------------------------- MODULE DataFacts -----------------------------
(***************************************************************************)
(* Facts about naturals, sequences and their elements that the proofs of   *)
(* the other modules cite.                                                 *)
(***************************************************************************)
EXTENDS Integers, Sequences, SequencesExt, FiniteSetsExt, WellFoundedInduction, SequenceTheorems, TLAPS

(* A set of naturals that is not empty has a least element. *)
LEMMA LeastNatural ==
  ASSUME NEW T, T \subseteq Nat, T # {}
  PROVE  \E m \in T : \A n \in T : m <= n
<1>1. PICK m \in T : \A n \in T : ~ (<<n, m>> \in OpToRel(<, Nat))
  BY NatLessThanWellFounded, WFMin
<1>2. \A n \in T : ~ (n < m)
  BY <1>1 DEF OpToRel
<1>3. QED BY <1>2

(* Min is the least element of a set of naturals that is not empty. *)
LEMMA LeastIsMin ==
  ASSUME NEW T, T \subseteq Nat, T # {}
  PROVE  Min(T) \in T /\ \A n \in T : Min(T) <= n
<1>1. \E m \in T : \A n \in T : m <= n
  BY LeastNatural
<1>2. QED BY <1>1 DEF Min

(* Induction up to a bound; H is the set of the numbers a claim holds for. *)
LEMMA InductionTo ==
  ASSUME NEW N \in Nat, NEW H, 0 \in H,
         \A n \in 0..(N - 1) : n \in H => n + 1 \in H
  PROVE  \A n \in 0..N : n \in H
<1> DEFINE T == (0..N) \ H
<1>1. SUFFICES ASSUME T # {} PROVE FALSE
  OBVIOUS
<1>2. T \subseteq Nat
  OBVIOUS
<1>3. PICK m \in T : \A n \in T : m <= n
  <2> HIDE DEF T
  <2> QED BY <1>1, <1>2, LeastNatural
<1>4. m - 1 \in 0..(N - 1) /\ m = (m - 1) + 1
  OBVIOUS
<1>5. m - 1 \in H
  BY <1>3, <1>4
<1>6. QED BY <1>4, <1>5

(* Max is the largest element of a bounded set that is not empty.          *)
LEMMA LargestNatural ==
  ASSUME NEW N \in Nat, NEW T, T \subseteq 0..N, T # {}
  PROVE  Max(T) \in T /\ \A n \in T : n <= Max(T)
<1> DEFINE D == {n \in Nat : N - n \in T}
<1>1. D \subseteq Nat /\ D # {}
  <2>1. PICK n \in T : TRUE
    OBVIOUS
  <2>2. N - n \in D
    BY <2>1
  <2>3. QED BY <2>2
<1>2. PICK m \in D : \A k \in D : m <= k
  <2> HIDE DEF D
  <2> QED BY <1>1, LeastNatural
<1>3. \A n \in T : N - n \in D
  OBVIOUS
<1>4. N - m \in T /\ \A n \in T : N - m >= n
  BY <1>2, <1>3
<1>5. QED BY <1>4 DEF Max

-----------------------------------------------------------------------------
(* The elements of a sequence. *)

LEMMA ToSetEmpty == ToSet(<<>>) = {}
BY DEF ToSet

LEMMA ToSetIn ==
  ASSUME NEW S, NEW s \in Seq(S)
  PROVE  ToSet(s) \subseteq S
BY DEF ToSet

LEMMA ToSetAppend ==
  ASSUME NEW S, NEW s \in Seq(S), NEW e \in S
  PROVE  ToSet(Append(s, e)) = ToSet(s) \cup {e}
<1>1. DOMAIN s = 1..Len(s) /\ DOMAIN Append(s, e) = 1..(Len(s) + 1)
  BY AppendProperties, LenProperties
<1>2. \A i \in 1..Len(s) : Append(s, e)[i] = s[i]
  BY AppendProperties
<1>3. Append(s, e)[Len(s) + 1] = e /\ Len(s) \in Nat
  BY AppendProperties
<1>4. QED BY <1>1, <1>2, <1>3 DEF ToSet

LEMMA ToSetConcat ==
  ASSUME NEW S, NEW s \in Seq(S), NEW t \in Seq(S)
  PROVE  ToSet(s \o t) = ToSet(s) \cup ToSet(t)
<1>1. /\ DOMAIN s = 1..Len(s) /\ DOMAIN t = 1..Len(t)
      /\ DOMAIN (s \o t) = 1..(Len(s) + Len(t))
      /\ Len(s) \in Nat /\ Len(t) \in Nat
  BY ConcatProperties, LenProperties
<1>2. \A i \in 1..Len(s) : (s \o t)[i] = s[i]
  BY ConcatProperties, <1>1
<1>3. \A i \in 1..Len(t) : (s \o t)[Len(s) + i] = t[i]
  BY ConcatProperties, <1>1
<1>4. \A i \in 1..(Len(s) + Len(t)) :
         i \in 1..Len(s) \/ \E k \in 1..Len(t) : i = Len(s) + k
  <2> SUFFICES ASSUME NEW i \in 1..(Len(s) + Len(t)), i \notin 1..Len(s)
               PROVE  \E k \in 1..Len(t) : i = Len(s) + k
    OBVIOUS
  <2> WITNESS i - Len(s) \in 1..Len(t)
  <2> QED BY <1>1
<1>5. ToSet(s \o t) \subseteq ToSet(s) \cup ToSet(t)
  <2> SUFFICES ASSUME NEW i \in DOMAIN (s \o t)
               PROVE  (s \o t)[i] \in ToSet(s) \cup ToSet(t)
    BY DEF ToSet
  <2>1. CASE i \in 1..Len(s)
    BY <1>1, <1>2, <2>1 DEF ToSet
  <2>2. CASE \E k \in 1..Len(t) : i = Len(s) + k
    BY <1>1, <1>3, <2>2 DEF ToSet
  <2>3. QED BY <1>1, <1>4, <2>1, <2>2
<1>6. ToSet(s) \cup ToSet(t) \subseteq ToSet(s \o t)
  <2>1. \A i \in 1..Len(s) : s[i] \in ToSet(s \o t)
    BY <1>1, <1>2 DEF ToSet
  <2>2. \A i \in 1..Len(t) : t[i] \in ToSet(s \o t)
    <3> SUFFICES ASSUME NEW i \in 1..Len(t) PROVE t[i] \in ToSet(s \o t)
      OBVIOUS
    <3>1. Len(s) + i \in DOMAIN (s \o t)
      BY <1>1
    <3>2. QED BY <3>1, <1>3 DEF ToSet
  <2>3. QED BY <2>1, <2>2, <1>1 DEF ToSet
<1>7. QED BY <1>5, <1>6

LEMMA FirstIsElement ==
  ASSUME NEW S, NEW s \in Seq(S), s # <<>>
  PROVE  s[1] \in ToSet(s)
<1>1. Len(s) \in Nat \ {0} /\ DOMAIN s = 1..Len(s)
  BY EmptySeq, LenProperties
<1>2. 1 \in DOMAIN s
  BY <1>1
<1>3. QED BY <1>2 DEF ToSet

LEMMA ToSetHeadTail ==
  ASSUME NEW S, NEW s \in Seq(S), s # <<>>
  PROVE  ToSet(s) = {Head(s)} \cup ToSet(Tail(s))
<1>1. /\ Tail(s) \in Seq(S) /\ Len(Tail(s)) = Len(s) - 1
      /\ \A i \in 1..Len(Tail(s)) : Tail(s)[i] = s[i + 1]
  BY HeadTailProperties
<1>2. DOMAIN s = 1..Len(s) /\ DOMAIN Tail(s) = 1..(Len(s) - 1) /\ Len(s) \in Nat \ {0}
  BY <1>1, LenProperties, EmptySeq
<1>3. Head(s) = s[1]
  OBVIOUS
<1>4. \A i \in 2..Len(s) : s[i] = Tail(s)[i - 1] /\ i - 1 \in DOMAIN Tail(s)
  BY <1>1, <1>2
<1>5. \A i \in 2..Len(s) : s[i] \in ToSet(Tail(s))
  BY <1>4 DEF ToSet
<1>6. \A i \in DOMAIN Tail(s) : Tail(s)[i] \in ToSet(s)
  <2> SUFFICES ASSUME NEW i \in DOMAIN Tail(s) PROVE Tail(s)[i] \in ToSet(s)
    OBVIOUS
  <2>1. i + 1 \in DOMAIN s /\ Tail(s)[i] = s[i + 1]
    BY <1>1, <1>2
  <2>2. QED BY <2>1 DEF ToSet
<1>7. 1 \in DOMAIN s /\ \A i \in DOMAIN s : i = 1 \/ i \in 2..Len(s)
  BY <1>2
<1>8. ToSet(s) \subseteq {Head(s)} \cup ToSet(Tail(s))
  BY <1>3, <1>5, <1>7 DEF ToSet
<1>9. {Head(s)} \cup ToSet(Tail(s)) \subseteq ToSet(s)
  <2>1. ToSet(Tail(s)) \subseteq ToSet(s)
    BY <1>6 DEF ToSet
  <2>2. s[1] \in ToSet(s)
    BY <1>7 DEF ToSet
  <2>3. QED BY <1>3, <2>1, <2>2
<1>10. QED BY <1>8, <1>9

(* A function on 1..n is a sequence. *)
LEMMA FunctionIsSeq ==
  ASSUME NEW S, NEW n \in Nat, NEW f \in [1..n -> S]
  PROVE  f \in Seq(S) /\ Len(f) = n
BY SeqDef

(* A sequence is one over its own elements.                                *)
LEMMA OverItsElements ==
  ASSUME NEW S, NEW s \in Seq(S)
  PROVE  s \in Seq(ToSet(s))
<1>1. Len(s) \in Nat /\ s \in [1..Len(s) -> S] /\ DOMAIN s = 1..Len(s)
  BY LenProperties
<1>2. \A i \in 1..Len(s) : s[i] \in ToSet(s)
  BY <1>1 DEF ToSet
<1>3. s = [i \in 1..Len(s) |-> s[i]]
  BY <1>1
<1>4. [i \in 1..Len(s) |-> s[i]] \in Seq(ToSet(s))
  BY <1>1, <1>2, FunctionIsSeq
<1>5. QED BY <1>3, <1>4

(* The elements of a part of a sequence are those at its positions.        *)
LEMMA ToSetSubSeq ==
  ASSUME NEW S, NEW s \in Seq(S), NEW m \in 1..(Len(s) + 1), NEW n \in 0..Len(s)
  PROVE  SubSeq(s, m, n) \in Seq(S) /\ ToSet(SubSeq(s, m, n)) = {s[i] : i \in m..n}
<1> DEFINE part == SubSeq(s, m, n)
<1>1. Len(s) \in Nat /\ \A i \in m..n : s[i] \in S
  BY LenProperties, ElementOfSeq
<1>2. /\ part \in Seq(S)
      /\ Len(part) = IF m <= n THEN n - m + 1 ELSE 0
      /\ \A i \in 1..(n - m + 1) : part[i] = s[m + i - 1]
  BY <1>1, SubSeqProperties
<1> HIDE DEF part
<1>3. DOMAIN part = 1..(n - m + 1)
  BY <1>1, <1>2, LenProperties
<1>4. \A k \in m..n : k - m + 1 \in 1..(n - m + 1) /\ k = m + (k - m + 1) - 1
  BY <1>1
<1>5. \A i \in 1..(n - m + 1) : m + i - 1 \in m..n
  BY <1>1
<1>6. ToSet(part) = {part[i] : i \in 1..(n - m + 1)}
  BY <1>3 DEF ToSet
<1>7. {part[i] : i \in 1..(n - m + 1)} = {s[k] : k \in m..n}
  <2>1. \A i \in 1..(n - m + 1) : part[i] \in {s[k] : k \in m..n}
    BY <1>2, <1>5
  <2>2. \A k \in m..n : s[k] = part[k - m + 1]
    BY <1>2, <1>4
  <2>3. QED BY <2>1, <2>2, <1>4
<1>8. QED BY <1>2, <1>6, <1>7 DEF part

(* Replacing or removing an element brings in no other. *)
LEMMA ReplaceAtIn ==
  ASSUME NEW S, NEW s \in Seq(S), NEW i \in DOMAIN s, NEW e \in S
  PROVE  ReplaceAt(s, i, e) \in Seq(S) /\ ToSet(ReplaceAt(s, i, e)) \subseteq ToSet(s) \cup {e}
<1>1. DOMAIN s = 1..Len(s) /\ Len(s) \in Nat
  BY LenProperties
<1>2. [s EXCEPT ![i] = e] \in Seq(S)
  BY <1>1, ExceptSeq
<1>3. QED BY <1>2 DEF ReplaceAt, ToSet

LEMMA RemoveAtIn ==
  ASSUME NEW S, NEW s \in Seq(S), NEW i \in DOMAIN s
  PROVE  RemoveAt(s, i) \in Seq(S) /\ ToSet(RemoveAt(s, i)) \subseteq ToSet(s)
<1> DEFINE before == SubSeq(s, 1, i - 1)
           after == SubSeq(s, i + 1, Len(s))
<1>1. DOMAIN s = 1..Len(s) /\ Len(s) \in Nat
  BY LenProperties
<1>2. before \in Seq(S) /\ ToSet(before) = {s[j] : j \in 1..(i - 1)}
  BY <1>1, ToSetSubSeq
<1>3. after \in Seq(S) /\ ToSet(after) = {s[j] : j \in (i + 1)..Len(s)}
  BY <1>1, ToSetSubSeq
<1>4. ToSet(before) \cup ToSet(after) \subseteq ToSet(s)
  <2>1. ToSet(s) = {s[j] : j \in 1..Len(s)}
    BY <1>1 DEF ToSet
  <2>2. 1..(i - 1) \subseteq 1..Len(s) /\ (i + 1)..Len(s) \subseteq 1..Len(s)
    BY <1>1
  <2>3. QED BY <1>2, <1>3, <2>1, <2>2
<1> HIDE DEF before, after
<1>5. before \o after \in Seq(S) /\ ToSet(before \o after) = ToSet(before) \cup ToSet(after)
  BY <1>2, <1>3, ToSetConcat, ConcatProperties
<1>6. QED BY <1>4, <1>5 DEF RemoveAt, before, after

-----------------------------------------------------------------------------
(* Sequences in which no element occurs twice. *)

LEMMA InjectiveAppend ==
  ASSUME NEW S, NEW s \in Seq(S), NEW e \in S, IsInjective(s), e \notin ToSet(s)
  PROVE  IsInjective(Append(s, e))
<1>1. /\ Len(s) \in Nat /\ DOMAIN s = 1..Len(s)
      /\ DOMAIN Append(s, e) = 1..(Len(s) + 1)
      /\ \A i \in 1..Len(s) : Append(s, e)[i] = s[i] /\ s[i] \in ToSet(s)
      /\ Append(s, e)[Len(s) + 1] = e
  BY AppendProperties, LenProperties DEF ToSet
<1>2. \A i \in 1..(Len(s) + 1) : i \in 1..Len(s) \/ i = Len(s) + 1
  BY <1>1
<1>3. QED BY <1>1, <1>2 DEF IsInjective

LEMMA InjectiveTail ==
  ASSUME NEW S, NEW s \in Seq(S), s # <<>>, IsInjective(s)
  PROVE  IsInjective(Tail(s)) /\ Head(s) \notin ToSet(Tail(s))
<1>1. /\ Len(s) \in Nat \ {0} /\ DOMAIN s = 1..Len(s) /\ DOMAIN Tail(s) = 1..(Len(s) - 1)
      /\ Head(s) = s[1] /\ \A i \in 1..(Len(s) - 1) : Tail(s)[i] = s[i + 1]
  BY HeadTailProperties, LenProperties
<1>2. \A i \in 1..(Len(s) - 1) : i + 1 \in 1..Len(s) /\ i + 1 # 1 /\ 1 \in 1..Len(s)
  BY <1>1
<1>3. Head(s) \notin ToSet(Tail(s))
  BY <1>1, <1>2 DEF IsInjective, ToSet
<1>4. ASSUME NEW i \in 1..(Len(s) - 1), NEW k \in 1..(Len(s) - 1), Tail(s)[i] = Tail(s)[k]
      PROVE  i = k
  <2>1. i + 1 = k + 1
    BY <1>1, <1>2, <1>4 DEF IsInjective
  <2>2. QED BY <1>1, <2>1
<1>5. QED BY <1>1, <1>3, <1>4 DEF IsInjective

-----------------------------------------------------------------------------
(* Sequences, whatever their elements. *)

IsSeq(s) == \E S : s \in Seq(S)

(* A function on 1..n is a sequence. *)
LEMMA ListIsSeq ==
  ASSUME NEW n \in Nat, NEW s, s = [i \in 1..n |-> s[i]]
  PROVE  IsSeq(s) /\ Len(s) = n
<1> DEFINE S == {s[i] : i \in 1..n}
<1>1. s \in [1..n -> S]
  <2>1. \A i \in 1..n : s[i] \in S
    OBVIOUS
  <2> HIDE DEF S
  <2>2. QED BY <2>1
<1> HIDE DEF S
<1>2. QED BY <1>1, FunctionIsSeq DEF IsSeq

(* Two sequences in a row are one. *)
LEMMA JoinedIsSeq ==
  ASSUME NEW s, NEW t, IsSeq(s), IsSeq(t)
  PROVE  IsSeq(s \o t)
<1>1. PICK S, T : s \in Seq(S) /\ t \in Seq(T)
  BY DEF IsSeq
<1>2. s \in Seq(S \cup T) /\ t \in Seq(S \cup T)
  BY <1>1
<1>3. s \o t \in Seq(S \cup T)
  BY <1>2, ConcatProperties
<1>4. QED BY <1>3 DEF IsSeq

(* A sequence of sequences, flattened, is in every set that has them, the  *)
(* empty sequence, and any two of its sequences in a row.                  *)
LEMMA FlatIsIn ==
  ASSUME NEW G, <<>> \in G, \A s, t \in G : s \o t \in G,
         NEW N \in Nat, NEW ss, ss = [i \in 1..N |-> ss[i]], \A i \in 1..N : ss[i] \in G
  PROVE  FlattenSeq(ss) \in G
<1>1. Len(ss) = N /\ IsSeq(ss)
  BY ListIsSeq
<1>2. CASE N = 0
  BY <1>1, <1>2 DEF FlattenSeq
<1>3. CASE N # 0
  <2> DEFINE Solves(g, m) == g = [i \in 1..m |-> IF i = 1 THEN ss[i] ELSE g[i - 1] \o ss[i]]
             H == {m \in 0..N : \E g : Solves(g, m)}
  <2>0. /\ N \in 0..N /\ N \in 1..N
        /\ \A m \in 0..(N - 1) : m \in Nat /\ m + 1 \in 0..N /\ m + 1 \in 1..N
        /\ \A m \in Nat : m + 1 \in 1..(m + 1) /\ \A i \in 1..(m + 1) : i \in 1..m \/ i = m + 1
        /\ \A m \in Nat : \A i \in 1..m : i # m + 1 /\ (i # 1 => i - 1 \in 1..m)
    BY <1>3
  <2>1. 0 \in H
    <3>1. Solves(<<>>, 0)
      OBVIOUS
    <3> HIDE DEF Solves
    <3>2. QED BY <3>1
  <2>2. ASSUME NEW m \in 0..(N - 1), m \in H PROVE m + 1 \in H
    <3>1. PICK g : Solves(g, m)
      BY <2>2
    <3> DEFINE next == IF m + 1 = 1 THEN ss[m + 1] ELSE g[m] \o ss[m + 1]
               h == [i \in 1..(m + 1) |-> IF i \in 1..m THEN g[i] ELSE next]
    <3>2. h = [i \in 1..(m + 1) |-> h[i]] /\ \A i \in 1..(m + 1) : h[i] = IF i \in 1..m THEN g[i] ELSE next
      OBVIOUS
    <3>3. (\A i \in 1..m : h[i] = g[i]) /\ h[m + 1] = next
      <4> HIDE DEF h, next
      <4>1. m + 1 \in 1..(m + 1) /\ m + 1 \notin 1..m /\ \A i \in 1..m : i \in 1..(m + 1)
        OBVIOUS
      <4>2. QED BY <3>2, <4>1
    <3>4. \A i \in 1..(m + 1) : h[i] = IF i = 1 THEN ss[i] ELSE h[i - 1] \o ss[i]
      <4> SUFFICES ASSUME NEW i \in 1..(m + 1) PROVE h[i] = IF i = 1 THEN ss[i] ELSE h[i - 1] \o ss[i]
        OBVIOUS
      <4>1. i # 1 => h[i - 1] = g[i - 1]
        BY <2>0, <3>3
      <4>2. CASE i \in 1..m
        <5>1. g[i] = IF i = 1 THEN ss[i] ELSE g[i - 1] \o ss[i]
          BY <3>1, <4>2
        <5> HIDE DEF h
        <5>2. QED BY <3>3, <4>1, <4>2, <5>1
      <4>3. CASE i = m + 1
        <5>1. m + 1 # 1 => (m + 1) - 1 = m
          OBVIOUS
        <5> HIDE DEF h
        <5>2. QED BY <3>3, <4>1, <4>3, <5>1
      <4>4. QED BY <2>0, <4>2, <4>3
    <3> HIDE DEF h
    <3>5. Solves(h, m + 1)
      BY <3>2, <3>4
    <3> HIDE DEF Solves
    <3>6. QED BY <2>0, <3>5
  <2>3. \E g : Solves(g, N)
    <3> HIDE DEF Solves
    <3>1. N \in H
      <4> HIDE DEF H
      <4>1. QED BY <2>0, <2>1, <2>2, InductionTo
    <3>2. QED BY <3>1
  <2> DEFINE f == CHOOSE g : Solves(g, N)
  <2>4. FlattenSeq(ss) = f[N]
    BY <1>1, <1>3 DEF FlattenSeq
  <2>5. Solves(f, N)
    <3> HIDE DEF Solves
    <3>1. QED BY <2>3
  <2> HIDE DEF f
  <2>6. \A i \in 1..N : f[i] \in G
    <3> DEFINE K == {m \in 0..N : m = 0 \/ f[m] \in G}
    <3>1. 0 \in K
      OBVIOUS
    <3>2. ASSUME NEW m \in 0..(N - 1), m \in K PROVE m + 1 \in K
      <4>1. f[m + 1] = IF m + 1 = 1 THEN ss[m + 1] ELSE f[(m + 1) - 1] \o ss[m + 1]
        BY <2>0, <2>5
      <4>2. ss[m + 1] \in G /\ (m + 1) - 1 = m /\ (m # 0 => f[m] \in G)
        BY <2>0, <3>2
      <4>3. f[m + 1] \in G
        <5>1. CASE m = 0
          BY <4>1, <4>2, <5>1
        <5>2. CASE m # 0
          <6>1. m + 1 # 1
            BY <5>2
          <6>2. f[m + 1] = f[m] \o ss[m + 1] /\ f[m] \in G
            BY <4>1, <4>2, <5>2, <6>1
          <6>3. QED BY <4>2, <6>2
        <5>3. QED BY <5>1, <5>2
      <4>4. QED BY <2>0, <4>3
    <3>3. \A m \in 0..N : m \in K
      <4> HIDE DEF K
      <4>1. QED BY <3>1, <3>2, InductionTo
    <3>4. QED BY <3>3
  <2>7. QED BY <2>0, <2>4, <2>6
<1>4. QED BY <1>2, <1>3

(* The elements of many sequences are in one set. *)
LEMMA PartsHaveElements ==
  ASSUME NEW N, NEW ss, \A i \in 1..N : IsSeq(ss[i])
  PROVE  \E S : \A i \in 1..N : ss[i] \in Seq(S)
<1> DEFINE S == UNION {ToSet(ss[i]) : i \in 1..N}
<1>1. ASSUME NEW i \in 1..N PROVE ss[i] \in Seq(S)
  <2>1. PICK T : ss[i] \in Seq(T)
    BY DEF IsSeq
  <2>2. ss[i] \in Seq(ToSet(ss[i]))
    BY <2>1, OverItsElements
  <2>3. ToSet(ss[i]) \subseteq S
    OBVIOUS
  <2>4. QED BY <2>2, <2>3
<1> HIDE DEF S
<1>2. QED BY <1>1

(* A sequence of sequences, flattened, is a sequence. *)
LEMMA FlatIsSeq ==
  ASSUME NEW N \in Nat, NEW ss, ss = [i \in 1..N |-> ss[i]], \A i \in 1..N : IsSeq(ss[i])
  PROVE  IsSeq(FlattenSeq(ss))
<1>1. PICK S : \A i \in 1..N : ss[i] \in Seq(S)
  BY PartsHaveElements
<1>2. <<>> \in Seq(S) /\ \A s, t \in Seq(S) : s \o t \in Seq(S)
  BY ConcatProperties
<1>3. FlattenSeq(ss) \in Seq(S)
  BY <1>1, <1>2, FlatIsIn
<1>4. QED BY <1>3 DEF IsSeq

(* One element, or none. *)
LEMMA SingleIsSeq ==
  ASSUME NEW x
  PROVE  IsSeq(<<x>>) /\ IsSeq(<<>>)
<1>1. <<x>> \in Seq({x}) /\ <<>> \in Seq({x})
  OBVIOUS
<1>2. QED BY <1>1 DEF IsSeq

(* Joining is associative, and the empty sequence adds nothing. *)
LEMMA SeqsJoin ==
  ASSUME NEW s, NEW t, NEW u, IsSeq(s), IsSeq(t), IsSeq(u)
  PROVE  /\ IsSeq(s \o t) /\ (s \o t) \o u = s \o (t \o u)
         /\ s \o <<>> = s /\ <<>> \o s = s
<1>1. PICK S, T, U : s \in Seq(S) /\ t \in Seq(T) /\ u \in Seq(U)
  BY DEF IsSeq
<1> DEFINE R == S \cup T \cup U
<1>2. s \in Seq(R) /\ t \in Seq(R) /\ u \in Seq(R)
  BY <1>1
<1> HIDE DEF R
<1>3. s \o t \in Seq(R)
  BY <1>2, ConcatProperties
<1>4. (s \o t) \o u = s \o (t \o u)
  BY <1>2, ConcatAssociative
<1>5. s \o <<>> = s /\ <<>> \o s = s
  BY <1>2, ConcatEmptySeq
<1>6. QED BY <1>3, <1>4, <1>5 DEF IsSeq

(* One more element at the end. *)
LEMMA SeqGrows ==
  ASSUME NEW s, IsSeq(s), NEW e
  PROVE  IsSeq(Append(s, e)) /\ Append(s, e) # <<>> /\ Append(s, e) = s \o <<e>> /\ IsSeq(<<e>>)
<1>1. PICK S : s \in Seq(S)
  BY DEF IsSeq
<1> DEFINE R == S \cup {e}
<1>2. s \in Seq(R) /\ e \in R
  BY <1>1
<1> HIDE DEF R
<1>3. Append(s, e) \in Seq(R) /\ Append(s, e) # <<>>
  BY <1>2, AppendProperties
<1>4. Append(s, e) = s \o <<e>>
  BY <1>2, AppendIsConcat
<1>5. QED BY <1>3, <1>4, SingleIsSeq DEF IsSeq

(* The domain of a sequence is up to its length. *)
LEMMA SeqLen ==
  ASSUME NEW s, IsSeq(s)
  PROVE  /\ Len(s) \in Nat /\ DOMAIN s = 1..Len(s)
         /\ s = <<>> <=> Len(s) = 0
<1>1. PICK S : s \in Seq(S)
  BY DEF IsSeq
<1>2. QED BY <1>1, LenProperties, EmptySeq
=============================================================================
