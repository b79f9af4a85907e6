------------------------------- MODULE Values -------------------------------
(***************************************************************************)
(* The values that rows carry from one database to another                 *)
(* (LibDatasource/src/model.rs), the three ways the program compares them, *)
(* the JSON form that a high-water mark has in the state file, and the SQL *)
(* literal it becomes in the next query.                                   *)
(*                                                                         *)
(* A text is an opaque string whose place in the byte order is its place   *)
(* in Lex, and Numeral gives the number a text parses to.  All numbers are *)
(* counted in parts, One of which make 1, so that a float may be a         *)
(* fraction; the widths that matter are constants, counted in parts too.   *)
(***************************************************************************)
EXTENDS Integers, Sequences, SequencesExt

CONSTANTS Lex,      \* the texts that occur, in the order of their bytes
          Numeral,  \* the texts that parse as a number -> the number
          One,      \* the parts that make 1
          I64,      \* 2^63: an i64 is a whole number in -I64..I64-One
          Exact,    \* 2^53: an f64 holds every whole number up to this one
          Epsilon   \* f64::EPSILON: the f64 next to 1 is 1 and this

Whole == {n \in Int : n % One = 0}

ASSUME ValuesAssumption ==
    /\ Lex \in Seq(STRING) /\ \A i \in DOMAIN Lex : Lex[i] = "" => i = 1
    /\ One \in Nat \ {0} /\ Epsilon \in 1..One
    /\ I64 \in Whole \cap (Nat \ {0}) /\ Exact \in 1..I64 /\ \E e \in 1..Exact : Exact = One * (2 * e)
    /\ DOMAIN Numeral \subseteq ToSet(Lex) \ {""} /\ \A s \in DOMAIN Numeral : Numeral[s] \in Whole

Null == [null |-> TRUE]
Bool(b) == [bool |-> b]
Int_(i) == [int |-> i]
UInt(u) == [uint |-> u]
Float(x) == [float |-> x]
Decimal(s) == [decimal |-> s]
String(s) == [string |-> s]
Bytes(s) == [bytes |-> s]
Date(s) == [date |-> s]
Is(kind, v) == kind \in DOMAIN v

-----------------------------------------------------------------------------
(* Numbers and texts.                                                      *)

\* `as f64` of a whole number: above Exact the nearest even one, ties to a
\* multiple of 4.
NearestEven[k \in Int] == IF k % 2 = 0 THEN k ELSE IF k % 4 = 1 THEN k - 1 ELSE k + 1
Nearest[n \in Int] == IF n \in -Exact..Exact THEN n ELSE One * NearestEven[n \div One]
F64(n) == Nearest[n]

\* `as i64` of a u64 keeps the bits; of an f64 it drops the fraction and
\* saturates.
Wrapped(u) == IF u < I64 THEN u ELSE u - 2 * I64
Truncated(x) == IF x >= 0 THEN x - (x % One) ELSE x + ((-x) % One)
Saturated(x) == IF x >= I64 THEN I64 - One ELSE IF x < -I64 THEN -I64 ELSE Truncated(x)

\* Value::as_str.
IsText(v) == Is("string", v) \/ Is("decimal", v) \/ Is("date", v)
TextOf(v) == IF Is("string", v) THEN v.string ELSE IF Is("decimal", v) THEN v.decimal ELSE v.date
TextOrEmpty(v) == IF IsText(v) THEN TextOf(v) ELSE ""

\* The comparison of str.
Place(s) == SelectInSeq(Lex, LAMBDA t : t = s)
Parses(s) == s \in DOMAIN Numeral

\* num (reader.rs) and as_f64 (builtin.rs): a String is no number.
IsNumber(v) ==
    \/ Is("int", v) \/ Is("uint", v) \/ Is("float", v)
    \/ Is("decimal", v) /\ Parses(v.decimal)
AsF64(v) ==
    CASE Is("int", v) -> F64(v.int)
      [] Is("uint", v) -> F64(v.uint)
      [] Is("float", v) -> v.float
      [] Is("decimal", v) -> F64(Numeral[v.decimal])

-----------------------------------------------------------------------------
(* The order of marks.                                                     *)

\* value_gt.
value_gt(a, b) ==
    IF IsNumber(a) /\ IsNumber(b) THEN AsF64(a) > AsF64(b)
    ELSE IsText(a) /\ IsText(b) /\ Place(TextOf(a)) > Place(TextOf(b))

-----------------------------------------------------------------------------
(* JSON and SQL.                                                           *)

\* Plausible bug: every whole number is written as an i64.
ToJsonWrapping(v) ==
    CASE Is("int", v) -> [number |-> v.int]
      [] Is("uint", v) -> [number |-> Wrapped(v.uint)]
      [] Is("float", v) -> [real |-> v.float]
      [] IsText(v) -> [text |-> TextOf(v)]
      [] OTHER -> v

\* value_to_json of state.rs.  The hexadecimal text of bytes is a text of
\* its own.
ToJson(v) ==
    CASE Is("int", v) -> [number |-> v.int]
      [] Is("uint", v) -> [number |-> v.uint]
      [] Is("float", v) -> [real |-> v.float]
      [] IsText(v) -> [text |-> TextOf(v)]
      [] Is("bytes", v) -> [text |-> <<"hex", v.bytes>>]
      [] OTHER -> v

\* json_to_value, and how serde reads an untagged Value from a job file.
FromJson(j) ==
    CASE Is("number", j) -> IF j.number < I64 THEN Int_(j.number) ELSE UInt(j.number)
      [] Is("real", j) -> Float(j.real)
      [] Is("text", j) -> String(j.text)
      [] OTHER -> j

\* state_to_literal: a number, a quoted text, X'..' or NULL.
state_to_literal(v) ==
    CASE Is("bool", v) -> [number |-> IF v.bool THEN One ELSE 0]
      [] Is("int", v) -> [number |-> v.int]
      [] Is("uint", v) -> [number |-> v.uint]
      [] Is("float", v) -> [number |-> v.float]
      [] IsText(v) -> [quoted |-> TextOf(v)]
      [] OTHER -> v
=============================================================================
