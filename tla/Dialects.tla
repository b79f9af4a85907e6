------------------------------ MODULE Dialects ------------------------------
(***************************************************************************)
(* The three database plugins: how a cell of a source table becomes a      *)
(* value, how a database compares a column with the literal of a mark, and *)
(* what batch_insert of each plugin makes of a batch.                      *)
(*                                                                         *)
(* The databases and their drivers are external.  A table has columns with *)
(* types, and a primary key or none; its contents is the sequence of its   *)
(* rows.  A statement succeeds as a whole or changes nothing.              *)
(***************************************************************************)
EXTENDS EtlSteps

CONSTANT Collate  \* text -> its place in the collation of MySQL and PostgreSQL

ASSUME CollateAssumption == Collate \in [ToSet(Lex) -> Int]

TextTypes == {"varchar"}
TimeTypes == {"datetime"}
NumberTypes == {"bigint", "smallint", "double", "decimal"}

-----------------------------------------------------------------------------
(* Reading.  A cell is Null, a number [n |-> ...] or a text [s |-> ...].   *)

\* What the PostgreSQL driver will not convert to the type asked of it,
\* pg_value turns into Null: i32 is not read from int2, String not from
\* numeric.
ReadAsNull(dialect, type) == dialect = "postgresql" /\ type \in {"smallint", "decimal"}

\* value_from_mysql and bytes_by_type; pg_value; oracle_value.
Reads(dialect, type, cell) ==
    IF cell = Null \/ ReadAsNull(dialect, type) THEN Null
    ELSE CASE type \in {"bigint", "smallint"} -> IF cell.n < I64 THEN Int_(cell.n) ELSE UInt(cell.n)
           [] type = "double" -> Float(cell.n)
           [] type = "decimal" -> Decimal(cell.s)
           [] type = "datetime" -> Date(cell.s)
           [] OTHER -> String(cell.s)

\* infer_type of reader.rs.
infer_type(v) ==
    CASE Is("null", v) \/ Is("string", v) \/ Is("bytes", v) -> "varchar"
      [] Is("bool", v) -> "bool"
      [] Is("int", v) \/ Is("uint", v) -> "bigint"
      [] Is("float", v) -> "double"
      [] Is("decimal", v) -> "decimal"
      [] Is("date", v) -> "datetime"

\* default_literal.
default_literal(type) ==
    IF type \in TimeTypes THEN [quoted |-> "1970"]
    ELSE IF type \in TextTypes THEN [quoted |-> ""] ELSE [number |-> 0]

NumberIn(cell) ==
    IF "n" \in DOMAIN cell THEN cell.n ELSE IF Parses(cell.s) THEN Numeral[cell.s] ELSE 0
Rank(dialect, type, s) == IF type \in TextTypes /\ dialect # "oracle" THEN Collate[s] ELSE Place(s)

\* Whether `column > literal` is a comparison the database will evaluate.
\* MySQL turns whatever it is given into a number.
Comparable(dialect, type, literal) ==
    \/ dialect = "mysql"
    \/ type \in NumberTypes /\ ("number" \in DOMAIN literal \/ Parses(literal.quoted))
    \/ type \notin NumberTypes /\ "quoted" \in DOMAIN literal
    \/ dialect = "oracle" /\ literal = [quoted |-> ""]

\* `column > literal` of one row.  '' is NULL to Oracle; a date is a positive
\* number to MySQL.
Above(dialect, type, cell, literal) ==
    /\ cell # Null /\ literal # Null
    /\ ~(dialect = "oracle" /\ literal = [quoted |-> ""])
    /\ IF "number" \in DOMAIN literal
       THEN type \in TimeTypes \/ NumberIn(cell) > literal.number
       ELSE IF type \in NumberTypes THEN NumberIn(cell) > NumberIn([s |-> literal.quoted])
       ELSE Rank(dialect, type, cell.s) > Rank(dialect, type, literal.quoted)

-----------------------------------------------------------------------------
(* Writing: value_to_mysql and the two value_to_sql.                       *)

\* The cell a bound value becomes.
Stored(dialect, v) ==
    CASE Is("bool", v) /\ dialect # "postgresql" -> Int_(IF v.bool THEN One ELSE 0)
      [] Is("uint", v) /\ dialect # "mysql" -> Int_(Wrapped(v.uint))
      [] IsText(v) -> IF dialect = "oracle" /\ TextOf(v) = "" THEN Null ELSE String(TextOf(v))
      [] OTHER -> v

\* The PostgreSQL driver sends a value only as the one type it is for: i64
\* as int8, f64 as float8, String, None::<String> too, as text.
Takes(dialect, type, v) ==
    dialect = "postgresql" =>
        CASE Is("int", v) \/ Is("uint", v) -> type = "bigint"
          [] Is("float", v) -> type = "double"
          [] Is("bool", v) -> type = "bool"
          [] OTHER -> type = "varchar"

\* normalise: the columns of a batch; a row without one of them has NULL.
Columns(rows) == UNION {DOMAIN rows[i] : i \in DOMAIN rows}

\* Plausible bug: a row is padded with what the row before it has.
NormaliseCarrying(rows) ==
    [i \in DOMAIN rows |->
        [c \in Columns(rows) |-> IF c \in DOMAIN rows[i] \/ i = 1 THEN ValueAt(rows[i], c)
                                 ELSE ValueAt(rows[i - 1], c)]]
Normalise(rows) == [i \in DOMAIN rows |-> Only(rows[i], Columns(rows))]

-----------------------------------------------------------------------------
(* batch_insert.  `table` has columns (column -> type), a key (a set of    *)
(* columns, {} for none) and rows; pk is what the job declares.            *)

SameKey(r, s, key) == key # {} /\ \A c \in key : r[c] # Null /\ r[c] = s[c]
Failed(table) == [ok |-> FALSE, table |-> table]
Became(table, rows) == [ok |-> TRUE, table |-> [table EXCEPT !.rows = rows]]

\* A row as it is inserted: the columns the batch has not got are NULL.
AsInserted(dialect, table, row) ==
    [c \in DOMAIN table.columns |-> IF c \in DOMAIN row THEN Stored(dialect, row[c]) ELSE Null]

\* The statement can be prepared and its parameters bound: the table has the
\* columns, the driver takes the values.
Binds(dialect, table, batch) ==
    \A i \in DOMAIN batch : \A c \in DOMAIN batch[i] :
        c \in DOMAIN table.columns /\ Takes(dialect, table.columns[c], batch[i][c])

\* The rows keep the primary key: no NULL in it and no two rows of one key.
KeyHolds(rows, key) ==
    \A i \in DOMAIN rows :
        /\ \A c \in key : rows[i][c] # Null
        /\ \A j \in DOMAIN rows : i # j => ~SameKey(rows[i], rows[j], key)

\* What the table becomes, if it may.
Kept(table, rows) == IF KeyHolds(rows, table.key) THEN Became(table, rows) ELSE Failed(table)

\* INSERT INTO ... VALUES and INSERT ALL.
Insert(dialect, table, batch) ==
    Kept(table, table.rows \o [i \in DOMAIN batch |-> AsInserted(dialect, table, batch[i])])

\* One row into the row of its key, or at the end; `update` are the columns
\* that are set in a row that is there.
Put(rows, new, key, update) ==
    IF \E i \in DOMAIN rows : SameKey(rows[i], new, key)
    THEN [i \in DOMAIN rows |->
            IF SameKey(rows[i], new, key)
            THEN [c \in DOMAIN rows[i] |-> IF c \in update THEN new[c] ELSE rows[i][c]] ELSE rows[i]]
    ELSE Append(rows, new)

\* The rows of a batch one after the other; those in `plain` are inserted
\* whatever is there.
WithUpserts(dialect, table, batch, key, update, plain) ==
    LET after[n \in 0..Len(batch)] ==
            IF n = 0 THEN table.rows
            ELSE LET new == AsInserted(dialect, table, batch[n])
                 IN  IF n \in plain THEN Append(after[n - 1], new) ELSE Put(after[n - 1], new, key, update)
    IN  after[Len(batch)]
Upserted(dialect, table, batch, key, update) ==
    Kept(table, WithUpserts(dialect, table, batch, key, update, {}))

UpdateColumns(batch, pk) == DOMAIN batch[1] \ pk
Repeats(dialect, table, batch, pk) ==
    LET New(i) == AsInserted(dialect, table, batch[i])
    IN  \E i, j \in DOMAIN batch : i # j /\ SameKey(New(i), New(j), pk)

\* Plausible bug: the clause is left out.
MysqlInsertPlainly(table, batch, mode, pk) == Insert("mysql", table, batch)

\* ON DUPLICATE KEY UPDATE goes by the key of the table, whatever the job
\* declares; without a column to update there is no such clause.
MysqlInsert(table, batch, mode, pk) ==
    IF mode = "upsert" /\ UpdateColumns(batch, pk) # {}
    THEN Upserted("mysql", table, batch, table.key, UpdateColumns(batch, pk))
    ELSE Insert("mysql", table, batch)

\* ON CONFLICT (pk) needs a unique index on just these columns, and DO UPDATE
\* does not touch a row twice in one statement.
PostgresInsert(table, batch, mode, pk) ==
    LET update == UpdateColumns(batch, pk)
    IN  IF mode # "upsert" \/ pk = {} THEN Insert("postgresql", table, batch)
        ELSE IF pk # table.key \/ (update # {} /\ Repeats("postgresql", table, batch, pk)) THEN Failed(table)
        ELSE Upserted("postgresql", table, batch, pk, update)

\* MERGE matches the rows the table had before the statement: two rows of one
\* key are an unstable source when it is there, and two inserts when it is
\* not.
Merge(table, batch, pk, update) ==
    LET New(n) == AsInserted("oracle", table, batch[n])
        matched == {n \in DOMAIN batch : \E i \in DOMAIN table.rows : SameKey(table.rows[i], New(n), pk)}
        unstable == \E n, m \in matched : n # m /\ SameKey(New(n), New(m), pk)
    IN  IF ~(pk \subseteq DOMAIN batch[1]) \/ (update # {} /\ unstable) THEN Failed(table)
        ELSE Kept(table, WithUpserts("oracle", table, batch, pk, update, DOMAIN batch \ matched))

\* Plausible bug: MERGE has no WHEN MATCHED clause.
OracleInsertUnmatched(table, batch, mode, pk) ==
    IF mode # "upsert" \/ pk = {} THEN Insert("oracle", table, batch) ELSE Merge(table, batch, pk, {})
OracleInsert(table, batch, mode, pk) ==
    IF mode # "upsert" \/ pk = {} THEN Insert("oracle", table, batch)
    ELSE Merge(table, batch, pk, UpdateColumns(batch, pk))

\* Datasource::batch_insert of the three plugins.
InsertBatch(dialect, table, batch, mode, pk) ==
    IF ~Binds(dialect, table, batch) THEN Failed(table)
    ELSE IF dialect = "mysql" THEN MysqlInsert(table, batch, mode, pk)
    ELSE IF dialect = "postgresql" THEN PostgresInsert(table, batch, mode, pk)
    ELSE OracleInsert(table, batch, mode, pk)
BatchInsert(dialect, table, rows, mode, pk) == InsertBatch(dialect, table, Normalise(rows), mode, pk)
=============================================================================
