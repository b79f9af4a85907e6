---------------------------- MODULE MC_DataPath ----------------------------
(* One plain job, and many that differ from it in a type, a database, a    *)
(* key, a mode, a template, a step or a name.  1 has four parts, 2^53 is 8 *)
(* and 2^63 is 32.                                                         *)
EXTENDS DataPath

MCLex == <<"", "10", "100", "1970", "20", "2024", "2025", "9", "90", "B", "a", "erp", "paid", "void">>
MCNumeral == "9" :> 9 * One @@ "10" :> 10 * One @@ "20" :> 20 * One @@ "90" :> 90 * One @@ "100" :> 100 * One
MCCollate == [t \in ToSet(MCLex) |-> IF t = "B" THEN Place("a") ELSE IF t = "a" THEN Place("B") ELSE Place(t)]

N(n) == [n |-> One * n]
I(n) == Int_(One * n)
S(s) == [s |-> s]
R(id, wm, v) == [id |-> N(id), wm |-> wm, v |-> v]
Rows(wms) == [i \in DOMAIN wms |-> R(i, wms[i], S(<<"paid", "void", "paid">>[i]))]
Numbers(a, b, c) == Rows(<<N(a), N(b), N(c)>>)
Texts(a, b, c) == Rows(<<S(a), S(b), S(c)>>)
Types(wm) == [id |-> "bigint", wm |-> wm, v |-> "varchar"]
Table(columns, key) == [columns |-> columns, key |-> key, rows |-> <<>>]
Above_ == <<[text |-> "wm > "], [state |-> "max_wm"]>>
Condition(column, op, literal) == [column |-> column, op |-> op, literal |-> literal]
OnColumn(column, literals) == {Condition(column, op, l) : op \in {"eq", "ne", "gt", "gte", "lt", "lte"}, l \in literals}

Base ==
    [source |-> "mysql", target |-> "mysql", types |-> Types("bigint"), rows |-> Numbers(1, 2, 3), initial |-> 1,
     mark |-> "wm", key |-> "max_wm", kind |-> "max", where |-> Above_, select |-> FALSE,
     source_columns |-> <<>>, target_columns |-> <<>>, etl |-> <<>>, details |-> <<>>,
     table |-> "t", tables |-> [t |-> Table(Types("bigint"), {"id"})], pk |-> {"id"}, mode |-> "upsert",
     page |-> 2, threshold |-> 2, retry |-> 1, name |-> <<"j">>, neighbour |-> <<>>, neighbour_mark |-> I(2),
     conditions |-> OnColumn("wm", {I(2), Float(One * 8)}) \cup OnColumn("v", {String(""), String("paid")})]

Between == <<[source |-> "postgresql", target |-> "oracle"], [source |-> "oracle", target |-> "postgresql"],
             [target |-> "postgresql", threshold |-> 1], [target |-> "oracle", page |-> 1]>>

Typed(source, type, rows) == [source |-> source, types |-> Types(type), rows |-> rows,
                              tables |-> [t |-> Table(Types(type), {"id"})],
                              conditions |-> OnColumn("wm", {I(2), Float(One * 8), String(""), String("a")})]
Decimals == Texts("9", "10", "100")
Words == Texts("B", "a", "paid")
Days == Texts("2024", "2025", "2025")
Marks ==
    <<Typed("mysql", "decimal", Decimals), Typed("oracle", "decimal", Decimals), Typed("postgresql", "decimal", Decimals),
      Typed("mysql", "bigint", Numbers(8, 9, 10)), Typed("mysql", "bigint", Numbers(30, 40, 42)),
      Typed("mysql", "bigint", Numbers(30, 40, 42)) @@ [target |-> "oracle"],
      Typed("postgresql", "double", Numbers(1, 2, 3)), Typed("postgresql", "smallint", Numbers(1, 2, 3)),
      Typed("mysql", "varchar", Words), Typed("oracle", "varchar", Words), Typed("postgresql", "varchar", Words),
      Typed("mysql", "datetime", Days), Typed("postgresql", "datetime", Days),
      Typed("oracle", "datetime", Texts("1970", "2024", "2025")),
      Typed("mysql", "bigint", Rows(<<N(1), Null, N(3)>>)), Typed("mysql", "bigint", Numbers(0, 1, 2)),
      Typed("mysql", "bigint", Rows(<<N(1), Null, N(3)>>)) @@ [target |-> "postgresql", where |-> <<>>],
      Typed("mysql", "decimal", Decimals) @@ [target |-> "postgresql"],
      Typed("mysql", "decimal", Texts("20", "100", "90")) @@ [page |-> 1],
      Typed("mysql", "varchar", Texts("10", "a", "paid")) @@ [initial |-> 3]>>
Selects ==
    <<[select |-> TRUE], [select |-> TRUE] @@ Typed("mysql", "varchar", Words),
      [select |-> TRUE] @@ Typed("mysql", "datetime", Days), [select |-> TRUE] @@ Typed("postgresql", "varchar", Words),
      [select |-> TRUE, source |-> "postgresql"],
      [select |-> TRUE] @@ Typed("postgresql", "smallint", Numbers(1, 2, 3))>>

Tokens == <<[env |-> "HOME"], [env |-> "NONE"], [now |-> "Y", unit |-> ""], [now |-> "F", unit |-> "D"], [now |-> "%", unit |-> ""],
            [now |-> "j", unit |-> "D"], [now |-> "Y", unit |-> "W"], [state |-> "max_id"], [other |-> "x"]>>
Templates == [i \in DOMAIN Tokens |-> [where |-> Above_ \o <<Tokens[i]>>]] \o <<[where |-> <<>>], [kind |-> "min"]>>

Named(neighbour, mark) == [name |-> <<"j", ".">>, neighbour |-> neighbour, neighbour_mark |-> mark]
Names == <<Named(<<"j", "_">>, I(2)), Named(<<"j", "_">>, String("a")), Named(<<"j", "_">>, [none |-> TRUE]),
           Named(<<"j", "k">>, I(2)), Named(<<"j", "_">>, String("a")) @@ [source |-> "postgresql"]>>

Twice == [i \in 1..3 |-> R(<<1, 2, 1>>[i], N(i), S(<<"paid", "void", "void">>[i]))]
Old == [columns |-> Types("bigint") @@ [note |-> "varchar"], key |-> {"id"},
        rows |-> <<[id |-> I(2), wm |-> I(0), v |-> String("void"), note |-> String("erp")]>>]
Keys ==
    [i \in 1..3 |-> [rows |-> Twice, target |-> <<"mysql", "postgresql", "oracle">>[i], initial |-> 3, page |-> 3]]
    \o [i \in 1..3 |-> [rows |-> Twice, target |-> <<"mysql", "postgresql", "oracle">>[i], threshold |-> 3]]
    \o [i \in 1..3 |-> [pk |-> {}, target |-> <<"mysql", "postgresql", "oracle">>[i]]]
    \o [i \in 1..3 |-> [target_columns |-> <<"id">>, target |-> <<"mysql", "postgresql", "oracle">>[i]]]
    \o [i \in 1..3 |-> [tables |-> [t |-> Table(Types("bigint"), {})], target |-> <<"mysql", "postgresql", "oracle">>[i]]]
    \o [i \in 1..3 |-> [tables |-> [t |-> Old], page |-> 3, initial |-> i, rows |-> Twice, target |-> <<"mysql", "postgresql", "oracle">>[i]]]
    \o <<[pk |-> {"wm"}, rows |-> Twice], [rows |-> Rows(<<N(1), Null, N(1)>>), pk |-> {"wm"}, target |-> "oracle", where |-> <<>>],
         Typed("mysql", "varchar", Texts("", "a", "paid"))
            @@ [pk |-> {"wm"}, tables |-> [t |-> Table(Types("varchar"), {"wm"})], target |-> "oracle", where |-> <<>>],
         [mode |-> "append"], [retry |-> 0], [mode |-> "append", tables |-> [t |-> Table(Types("bigint"), {})], pk |-> {}],
         [pk |-> {"wm"}, target |-> "postgresql"], [pk |-> {"wm"}, target |-> "oracle"],
         [source_columns |-> <<"id", "v">>], [source_columns |-> <<"v", "wm">>, target |-> "oracle"], [source_columns |-> <<"id", "v", "wm">>, target_columns |-> <<"id", "wm">>]>>

\* Fractions: a half is an f64::EPSILON here, and a quarter is less.
Halves(a, b, c) == [i \in 1..3 |-> [id |-> N(i), wm |-> N(i), v |-> [n |-> <<a, b, c>>[i]]]]
Fractions ==
    LET types == [id |-> "bigint", wm |-> "bigint", v |-> "double"]
    IN  [i \in 1..2 |->
            [types |-> types, rows |-> Halves(0, 1, <<5, -2>>[i]), tables |-> [t |-> Table(types, {"id"})], source |-> <<"mysql", "postgresql">>[i],
             conditions |-> OnColumn("v", {I(0), I(1), Float(1), Float(3)})]]

Item(source, name) == [from |-> source, to |-> name]
CastItem(name, type) == [name |-> name, type |-> type]
Keep(e) == [name |-> "filter", keep |-> e]
Drop(e) == [name |-> "filter", drop |-> e]
Chain ==
    <<Drop(Condition("v", "is", Null)), Keep(Condition("wm", "gte", I(2))), Keep([column |-> "wm", op |-> "lte", ref |-> "wm"]),
      [name |-> "rename", items |-> <<Item("v", "status"), Item("none", "x")>>],
      [name |-> "set", constants |-> [v |-> FromJson([text |-> "erp"]), n |-> FromJson([number |-> One])]],
      [name |-> "cast", items |-> <<CastItem("wm", "float"), CastItem("wm", "string"), CastItem("n", "bool")>>]>>
ChainColumns == Types("varchar") @@ [status |-> "varchar", n |-> "bigint"]
Split_ == [name |-> "order_split", detail_table |-> "d", parent_key |-> "id", child_key |-> "id",
           detail_columns |-> {"id", "item"}, keep |-> {"id", "wm"}, limit |-> 2]
DetailRow(id, item) == [id |-> I(id), item |-> I(item), note |-> Null]
Details_ == <<DetailRow(1, 1), DetailRow(1, 2), DetailRow(2, 1), DetailRow(1, 3)>>
Item_ == [id |-> "bigint", item |-> "bigint"]
SplitTables(key) == [t |-> Table(Types("bigint") @@ Item_, {"id"}), d |-> Table(Item_, key)]
Splitting(etl, key) == [etl |-> etl, details |-> Details_, tables |-> SplitTables(key)]
Set_ == [name |-> "set", constants |-> [v |-> String("erp")]]
Steps ==
    <<[etl |-> Chain, tables |-> [t |-> Table(ChainColumns, {"id"})]],
      Splitting(<<Split_>>, {}), Splitting(<<Split_>>, {"id", "item"}), Splitting(<<Split_, Set_>>, {}),
      Splitting(<<Split_>>, {}) @@ [target |-> "postgresql", threshold |-> 3], Splitting(<<Split_>>, {}) @@ [source |-> "postgresql"],
      Splitting(<<Split_>>, {"id", "item"}) @@ [target |-> "oracle"],
      Splitting(<<[Split_ EXCEPT !.parent_key = "none", !.keep = {}]>>, {}),
      [etl |-> <<Split_>>, details |-> Details_, tables |-> [t |-> Table(Types("bigint") @@ Item_, {"id"})]],
      [target |-> "postgresql", pk |-> {}, tables |-> [t |-> Table(Types("bigint") @@ Item_, {})]] @@ Splitting(<<Split_, Set_>>, {}),
      Splitting(<<Split_>>, {}) @@ [target |-> "oracle"], Splitting(<<Split_, Set_>>, {}) @@ [target |-> "oracle"],
      [etl |-> <<[name |-> "cast", items |-> <<CastItem("v", "int")>>]>>],
      [etl |-> <<[name |-> "cast", items |-> <<CastItem("wm", "decimal"), CastItem("wm", "int"), CastItem("none", "bool")>>]>>],
      [etl |-> <<Keep(Condition("v", "like", String("paid")))>>], [etl |-> <<Keep(Condition("v", "not", Null))>>]>>

\* Mode full, which truncates first.
Full ==
    <<[mode |-> "full", tables |-> [t |-> Old]], [mode |-> "full", tables |-> [t |-> Old], where |-> <<>>, target |-> "oracle", threshold |-> 1],
      [mode |-> "full", retry |-> 0, pk |-> {}, tables |-> [t |-> [Old EXCEPT !.key = {}]], target |-> "postgresql"],
      [mode |-> "full", rows |-> Twice, initial |-> 2], [mode |-> "full", target_columns |-> <<"id">>],
      [mode |-> "full"] @@ Splitting(<<Split_>>, {}), [mode |-> "full", tables |-> [d |-> Old]]>>

Variants == <<[page |-> 2]>> \o Between \o Marks \o Selects \o Templates \o Names \o Keys \o Steps \o Fractions \o Full
MCJobs == [i \in DOMAIN Variants |-> Variants[i] @@ Base]
=============================================================================
