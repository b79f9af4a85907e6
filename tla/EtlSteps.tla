------------------------------ MODULE EtlSteps ------------------------------
(***************************************************************************)
(* What happens to one source row: map_columns (runner.rs), the built-in   *)
(* steps (LibETL/src/builtin.rs), the order_split plugin and the chain     *)
(* EtlPipeline::run makes of them.                                         *)
(*                                                                         *)
(* A row is a function from column names to values.  An output row is a    *)
(* row with a table; NoTable stands for the job's.  An operator that may   *)
(* fail returns Ok(...) or Err.                                            *)
(***************************************************************************)
EXTENDS Values

Ok(x) == [ok |-> x]
Err == [err |-> TRUE]
IsOk(r) == "ok" \in DOMAIN r

ValueAt(row, c) == IF c \in DOMAIN row THEN row[c] ELSE Null
With(row, c, v) == [x \in DOMAIN row \cup {c} |-> IF x = c THEN v ELSE row[x]]
Without(row, c) == [x \in DOMAIN row \ {c} |-> row[x]]
Only(row, cs) == [c \in cs |-> ValueAt(row, c)]
NoTable == ""
Output(table, row) == [table |-> table, row |-> row]

\* map_columns.
map_columns(row, src, tgt) ==
    IF src = <<>> /\ tgt = <<>> THEN row
    ELSE IF src = <<>> THEN Only(row, ToSet(tgt))
    ELSE IF tgt = <<>> THEN Only(row, ToSet(src))
    ELSE LET n == IF Len(src) < Len(tgt) THEN Len(src) ELSE Len(tgt)
             Pair(out, i) == With(out, tgt[i], ValueAt(row, src[i]))
         IN  FoldLeft(Pair, <<>>, [i \in 1..n |-> i])

-----------------------------------------------------------------------------
(* rename, set, cast.                                                      *)

Renamed(row, item) ==
    IF item.from \in DOMAIN row THEN With(Without(row, item.from), item.to, row[item.from]) ELSE row

\* The constants replace columns of their name.
WithConstants(row, constants) ==
    [c \in DOMAIN row \cup DOMAIN constants |-> IF c \in DOMAIN constants THEN constants[c] ELSE row[c]]

\* parse_int, parse_float, parse_bool and parse_numeric.
ParseInt(v) ==
    CASE Is("int", v) -> Ok(Int_(v.int))
      [] Is("uint", v) -> Ok(Int_(Wrapped(v.uint)))
      [] Is("float", v) -> Ok(Int_(Saturated(v.float)))
      [] IsText(v) -> IF Parses(TextOf(v)) /\ Numeral[TextOf(v)] \in -I64..(I64 - One)
                      THEN Ok(Int_(Numeral[TextOf(v)])) ELSE Err
      [] OTHER -> Err
ParseFloat(v) ==
    IF IsNumber(v) THEN Ok(Float(AsF64(v)))
    ELSE IF IsText(v) /\ Parses(TextOf(v)) THEN Ok(Float(F64(Numeral[TextOf(v)]))) ELSE Err
ParseBool(v) ==
    CASE Is("bool", v) -> Ok(v)
      [] Is("int", v) -> Ok(Bool(v.int # 0))
      [] Is("string", v) -> IF v.string \in {"true", "1", "yes", "y"} THEN Ok(Bool(TRUE))
                            ELSE IF v.string \in {"false", "0", "no", "n"} THEN Ok(Bool(FALSE)) ELSE Err
      [] OTHER -> Err
Digits(n) == IF n \in Whole THEN ToString(n \div One) ELSE <<"fraction", n>>
Printed(v) ==
    CASE IsText(v) -> TextOf(v)
      [] Is("bool", v) -> IF v.bool THEN "true" ELSE "false"
      [] Is("int", v) -> Digits(v.int)
      [] Is("uint", v) -> Digits(v.uint)
      [] Is("float", v) -> Digits(v.float)
      [] OTHER -> <<"0x", v>>
ParseNumeric(v) ==
    IF Is("decimal", v) \/ Is("string", v) \/ IsNumber(v) THEN Ok(Decimal(Printed(v))) ELSE Err

\* cast_value.
cast_value(v, type) ==
    IF v = Null THEN Ok(Null)
    ELSE CASE type = "int" -> ParseInt(v)
           [] type = "float" -> ParseFloat(v)
           [] type = "bool" -> ParseBool(v)
           [] type = "string" -> Ok(String(Printed(v)))
           [] type = "decimal" -> ParseNumeric(v)
           [] OTHER -> Err

Casted(row, item) ==
    IF ~IsOk(row) \/ item.name \notin DOMAIN row.ok THEN row
    ELSE LET v == cast_value(row.ok[item.name], item.type)
         IN  IF IsOk(v) THEN Ok(With(row.ok, item.name, v.ok)) ELSE Err

-----------------------------------------------------------------------------
(* filter.  An expression is a column, an operator and an operand: `$col`  *)
(* or a literal; anything but three words is an error.                     *)

\* Two numbers are equal when they are less than f64::EPSILON apart.
equal(l, r) ==
    /\ l # Null /\ r # Null
    /\ IF IsNumber(l) /\ IsNumber(r) THEN AsF64(l) - AsF64(r) \in (1 - Epsilon)..(Epsilon - 1) ELSE l = r

\* Plausible bug: a decimal is compared as a text.
OrderOfTexts(l, r) ==
    IF Is("int", l) /\ Is("int", r) THEN l.int - r.int
    ELSE Place(TextOrEmpty(l)) - Place(TextOrEmpty(r))

\* The ordering of eval_condition: what is neither two numbers nor a text
\* counts as "".
Order(l, r) ==
    IF IsNumber(l) /\ IsNumber(r) THEN AsF64(l) - AsF64(r)
    ELSE Place(TextOrEmpty(l)) - Place(TextOrEmpty(r))

Sides(op) ==
    {d \in Int : CASE op = "gt" -> d > 0 [] op = "gte" -> d >= 0 [] op = "lt" -> d < 0 [] op = "lte" -> d <= 0}

\* eval_condition.
eval_condition(e, row) ==
    LET l == ValueAt(row, e.column)
        r == IF "ref" \in DOMAIN e THEN ValueAt(row, e.ref) ELSE e.literal
    IN  CASE e.op \in {"eq", "ne"} -> Ok(equal(l, r) <=> e.op = "eq")
          [] e.op \in {"is", "not"} /\ r = Null -> Ok((l = Null) <=> e.op = "is")
          [] e.op \in {"gt", "gte", "lt", "lte"} -> Ok(Order(l, r) \in Sides(e.op))
          [] OTHER -> Err

\* FilterProcessor::process: `keep` is looked at first.
Filtered(step, row) ==
    LET keep == IF "keep" \in DOMAIN step THEN eval_condition(step.keep, row) ELSE Ok(TRUE)
        drop == IF "drop" \in DOMAIN step THEN eval_condition(step.drop, row) ELSE Ok(FALSE)
    IN  IF ~IsOk(keep) THEN Err
        ELSE IF ~keep.ok THEN Ok(<<>>)
        ELSE IF ~IsOk(drop) THEN Err
        ELSE Ok(IF drop.ok THEN <<>> ELSE <<Output(NoTable, row)>>)

-----------------------------------------------------------------------------
(* order_split: a header, and the detail rows that the host looks up.      *)

keep_columns(row, keep) ==
    IF keep = {} THEN row ELSE [c \in keep \cap DOMAIN row |-> row[c]]

\* The details of a key: the rows of the detail table that have it, in the
\* order of the table and up to the limit, as outputs.
Detail(step, d) == IF step.detail_columns = {} THEN d ELSE Only(d, step.detail_columns)
DetailsOf(step, key, details) ==
    LET found[n \in 0..Len(details)] ==
            IF n = 0 THEN <<>>
            ELSE IF details[n][step.child_key] = key /\ Len(found[n - 1]) < step.limit
            THEN Append(found[n - 1], Output(step.detail_table, Detail(step, details[n])))
            ELSE found[n - 1]
    IN  found[Len(details)]

\* OrderSplit::process.  `lookup` is what the host's lookup callback finds
\* in the detail table, or Err.
Split(step, row, lookup) ==
    LET header == <<Output(NoTable, keep_columns(row, step.keep))>>
        key == ValueAt(row, step.parent_key)
    IN  IF key = Null THEN Ok(header)
        ELSE IF ~IsOk(lookup) THEN Err
        ELSE Ok(header \o DetailsOf(step, key, lookup.ok))

-----------------------------------------------------------------------------
(* The chain.                                                              *)

\* EtlProcessor::process of each step; transform_output finds no target
\* schema and names no table.
Process(step, row, lookup) ==
    CASE step.name = "rename" -> Ok(<<Output(NoTable, FoldLeft(Renamed, row, step.items))>>)
      [] step.name = "set" -> Ok(<<Output(NoTable, WithConstants(row, step.constants))>>)
      [] step.name = "cast" -> LET r == FoldLeft(Casted, Ok(row), step.items)
                               IN  IF IsOk(r) THEN Ok(<<Output(NoTable, r.ok)>>) ELSE Err
      [] step.name = "filter" -> Filtered(step, row)
      [] step.name = "order_split" -> Split(step, row, lookup)

\* EtlPipeline::run: the next step sees the row of an output, not its table.
Run(steps, row, table, lookup) ==
    LET Next_(current, step) ==
            IF ~IsOk(current) THEN Err
            ELSE LET results == [i \in DOMAIN current.ok |-> Process(step, current.ok[i].row, lookup)]
                 IN  IF \E i \in DOMAIN results : ~IsOk(results[i]) THEN Err
                     ELSE Ok(FlattenSeq([i \in DOMAIN results |-> results[i].ok]))
        after[n \in 0..Len(steps)] ==
            IF n = 0 THEN Ok(<<Output(table, row)>>) ELSE Next_(after[n - 1], steps[n])
    IN  after[Len(steps)]

\* Plausible bug: every row goes to the table of the job.
target_table_of_job(out_table, job_table) == job_table

\* target_table.
target_table(out_table, job_table) == IF out_table = NoTable THEN job_table ELSE out_table
=============================================================================
