---------------------------- MODULE MC_Startup ----------------------------
(* One installation that works, and many that differ from it in one file   *)
(* or one library.  Two connections, two jobs: the first has a built-in    *)
(* step and a plugin step, the second is a full job without steps.         *)
EXTENDS Startup

MCThreads == {<<"main">>, <<"connect", "a">>, <<"connect", "b">>, <<"job", "j1">>, <<"job", "j2">>}
MCDatasources == {<<"ds", "a">>, <<"ds", "b">>}
MCProcessors == {<<"etl", "j1", 1>>, <<"etl", "j1", 2>>}
MCNameOrder == <<"", "a", "b", "max_id", "my", "mysql", "pg">>
MCLower == [UPSERT |-> "upsert"]
MCEnv == [PW |-> "secret"]
MCSuffixed == [p \in {<<"base", "ds">>, <<"base", "split">>, <<"base", "none">>} |->
                 IF p = <<"base", "split">> THEN << <<"base", "libsplit.so">> >> ELSE <<>>]

Field(key, node) == <<Str(key), node>>

\* config.yaml with its sections
Main_(plugins, etl, files, runtime) ==
    Map(<<Field("datasource", Map(plugins)), Field("etl", List(etl)),
          Field("jobs", List(files)), Field("runtime", runtime)>>)
Plugins == <<Field("mysql", Str("ds"))>>
Files == <<Str("j1"), Str("j2")>>
BaseMain == Main_(Plugins, <<Str("split")>>, Files, Absent)
Runtime(key, i) == Main_(Plugins, <<Str("split")>>, Files, Map(<<Field(key, Num(i))>>))
Mains ==
    <<Absent, Map(<<>>), Map(<<Field("datasource_file", Str("nowhere"))>>),
     Runtime("workers", 0), Runtime("page_size", 0), Runtime("retry", -1), Runtime("retry", U32 + 1),
     Main_(<<Field("my", Str("ds")), <<Num(1), Str("none")>> >>, <<Num(1)>>, <<Str("j2")>>, Null),
     Main_(<<Field("mysql", Str("ds")), Field("pg", Str("none"))>>, <<>>, Files, Absent),
     Main_(Plugins, <<Str("none")>>, Files, Absent),
     Main_(Plugins, <<Str("split")>>, <<Str("j1"), Str("nowhere")>>, Absent),
     Main_(Plugins, <<Str("split")>>, <<Str("j1"), Str("j1")>>, Absent)>>

\* datasource.yaml with the entry of connection "a"
Sources(fields) == Map(<<Field("connections", Map(<<Field("b", Map(<<Field("type", Str("mysql"))>>)),
                                                    Field("a", Map(fields))>>))>>)
TypeField == Field("type", Str("mysql"))
BaseSources == Sources(<<TypeField>>)
Secret == [str |-> "${PW}${NO}", tokens |-> << [var |-> "PW"], [var |-> "NO"] >>]
SourcesFiles ==
    <<Map(<<>>), Map(<<Field("connections", Map(<< <<Num(1), Map(<<TypeField>>)>> >>))>>),
     Sources(<<>>), Sources(<<Field("type", Str("pg"))>>), Sources(<<TypeField, Field("host", Str(""))>>),
     Sources(<<TypeField, Field("port", Num(U16)), Field("password", Secret),
               Field("params", Map(<<Field("max_id", Num(5)), Field("a", Secret)>>))>>)>>

\* a job file: source and target sections, and what follows
JobFile(name, source, target, rest) ==
    Map(<<Field("name", name), Field("source", Map(source)), Field("target", Map(target)),
          Field("schedule", Map(<<Field("cron", Str("0 * * * * *"))>>))>> \o rest)
From(c) == <<Field("connection", Str(c)), Field("table", Str("t"))>>
Filter(keep) == Map(<<Field("filter", Map(<<Field("keep", keep)>>))>>)
Plugin(name, config) == Map(<<Field("plugin", name)>> \o config)
Split == Plugin(Str("split"), <<Field("config", Map(<<>>))>>)
J1(etl) == JobFile(Str("j1"), From("a"), From("b"), <<Field("etl", etl)>>)
BaseJ1 == J1(List(<<Split, Filter(Str("id gt 0"))>>))
BaseJ2 == JobFile(Str("j2"), From("b"), From("a"), <<Field("sync", Map(<<Field("mode", Str("full"))>>))>>)
Mode(m) == JobFile(Str("j1"), From("a"), From("a"), <<Field("sync", Map(<<Field("mode", Str(m))>>))>>)
Only(key, node) == Map(<<Field("connection", Str("a")), Field(key, node)>>).map
JobFiles ==
    <<JobFile(Absent, From("a"), From("b"), <<>>), JobFile(Str("j2"), From("a"), From("b"), <<>>),
     JobFile(Str("j1"), <<>>, From("b"), <<>>), JobFile(Str("j1"), From("a"), <<>>, <<>>),
     JobFile(Str("j1"), Only("select", Str(" ")), From("b"), <<>>),
     JobFile(Str("j1"), Only("select", Str("q")), From("b"), <<Field("enabled", Bool(FALSE))>>),
     JobFile(Str("j1"), From("c"), From("b"), <<Field("writers", Num(0)),
        Field("sync", Map(<<Field("state", Map(<<Field("max_id", Map(<<>>))>>))>>))>>),
     JobFile(Str("j1"), From("a") \o <<Field("batch_limit", Num(-1)), Field("primary_key", List(<<Str("id")>>)),
        Field("columns", Csv(<<"id", "">>))>>, From("b"), <<Field("enabled", Bool(FALSE))>>),
     Map(<<Field("name", Str("j1")), Field("source", Map(From("a"))), Field("target", Map(From("b")))>>),
     Mode("UPSERT"), Mode("merge"),
      J1(Filter(Str("id gt 0"))), J1(Str("filter")),
      JobFile(Str("j1"), From("a"), From("b"), <<Field("etl", Filter(Str("id gt 0"))),
         Field("builtin", Str("rename")), Field("config", Map(<<>>))>>)>>
Steps ==
    <<Str("filter"), Str("split"), Num(1), Map(<<>>), Filter(Num(1)), Plugin(Str(""), <<>>),
                      Plugin(Str("split"), <<>>), Plugin(Str("none"), <<>>), Plugin(Str("split"), <<Field("config", Null)>>),
                      Map(<<Field("builtin", Str("rename")), Field("config", Map(<<Field("column", List(<<Map(<<>>)>>))>>))>>),
                      Map(<<Field("cast", Map(<<Field("column", Null)>>))>>),
                      Map(<<Field("set", Map(<<Field("constant", Map(<<Field("a", Num(1))>>))>>))>>)>>

Lib(symbol, name) == [symbols |-> {symbol}, null |-> FALSE, version |-> AbiVersion, name |-> name]
BaseLibs == <<"base", "ds">> :> Lib("ds_get_api", "mysql") @@ <<"base", "libsplit.so">> :> Lib("etl_get_api", "split")
LibsWith(ds) == [BaseLibs EXCEPT ![<<"base", "ds">>] = ds]

World(main, sources, j1, libs, broken) ==
    [main |-> main, libs |-> libs, broken |-> broken,
     files |-> <<"base", "datasource.yaml">> :> sources @@ <<"base", "j1">> :> j1 @@ <<"base", "j2">> :> BaseJ2]
Base == World(BaseMain, BaseSources, BaseJ1, BaseLibs, {})
Libs == <<[Lib("ds_get_api", "mysql") EXCEPT !.null = TRUE], [Lib("ds_get_api", "mysql") EXCEPT !.version = 2],
          Lib("etl_get_api", "mysql"), Lib("ds_get_api", "pg")>>
MCWorlds ==
    <<Base, [Base EXCEPT !.broken = {"j1"}], [Base EXCEPT !.broken = {"j2"}]>>
    \o [i \in DOMAIN Mains |-> World(Mains[i], BaseSources, BaseJ1, BaseLibs, {})]
    \o [i \in DOMAIN SourcesFiles |-> World(BaseMain, SourcesFiles[i], BaseJ1, BaseLibs, {})]
    \o [i \in DOMAIN JobFiles |-> World(BaseMain, BaseSources, JobFiles[i], BaseLibs, {})]
    \o [i \in DOMAIN Steps |-> World(BaseMain, BaseSources, J1(List(<<Split, Steps[i]>>)), BaseLibs, {})]
    \o [i \in DOMAIN Libs |-> World(BaseMain, BaseSources, BaseJ1, LibsWith(Libs[i]), {})]
=============================================================================
