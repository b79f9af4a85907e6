------------------------------ MODULE Config ------------------------------
(***************************************************************************)
(* What the YAML files mean: config/mod.rs (config.yaml, datasource.yaml)  *)
(* and config/job.rs (the job files).  A file is a YAML node, loading it   *)
(* is an operator, and what makes the loader return Err is a predicate     *)
(* (Accepts...).  Everything that is present but of the wrong type is      *)
(* treated as the code treats it: as absent, as "" or as an error.         *)
(***************************************************************************)
EXTENDS Integers, Sequences, SequencesExt

CONSTANTS U16, U32,   \* 2^16 and 2^32: `as u16` and `as u32` keep the remainder
          NameOrder,  \* the strings of the files in the order of a BTreeMap
          Absolute,   \* the paths that are absolute
          Lower,      \* the texts with upper case letters -> in lower case
          Env         \* the environment: variable -> value

ASSUME ConfigAssumption == U16 \in Nat \ {0} /\ U32 \in Nat \ {0}

-----------------------------------------------------------------------------
(* YAML nodes.  A string knows its pieces between commas, a text with      *)
(* ${...} tokens its pieces; a mapping is the sequence of its entries.     *)

Absent == [absent |-> TRUE]
Null == [null |-> TRUE]
Str(s) == [str |-> s]
Csv(pieces) == [str |-> "csv", pieces |-> pieces]
Num(i) == [int |-> i]
Bool(b) == [bool |-> b]
List(s) == [list |-> s]
Map(entries) == [map |-> entries]
Is(kind, n) == kind \in DOMAIN n
Missing(n) == Is("absent", n) \/ Is("null", n)

\* y[key]: anything that is not there is BadValue.
At(n, key) ==
    IF Is("map", n) /\ \E i \in DOMAIN n.map : n.map[i][1] = Str(key)
    THEN n.map[SelectInSeq(n.map, LAMBDA e : e[1] = Str(key))][2] ELSE Absent

StrOr(n, default) == IF Is("str", n) THEN n.str ELSE default
IntOr(n, default) == IF Is("int", n) THEN n.int ELSE default
Items(n) == IF Is("list", n) THEN n.list ELSE <<>>
Entries(n) == IF Is("map", n) THEN n.map ELSE <<>>
AtLeast(low, i) == IF i < low THEN low ELSE i

\* scalar_str: numbers and booleans are printed back from their parsed value.
ScalarStr(n) ==
    CASE Is("str", n) -> n.str
      [] Is("int", n) -> ToString(n.int)
      [] Is("bool", n) -> IF n.bool THEN "true" ELSE "false"
      [] OTHER -> ""

\* A BTreeMap that was filled from <<key, value>> pairs, in its own order.
Sorted(pairs) ==
    LET keys == {pairs[i][1] : i \in DOMAIN pairs}
        LastOf(k) == pairs[SelectLastInSeq(pairs, LAMBDA p : p[1] = k)][2]
        names == SelectSeq(NameOrder, LAMBDA k : k \in keys)
    IN  [i \in DOMAIN names |-> [key |-> names[i], value |-> LastOf(names[i])]]

\* split_csv: None gives nothing, and so does a YAML list.
SplitCsv(n) ==
    IF Is("pieces", n) THEN SelectSeq(n.pieces, LAMBDA p : p # "")
    ELSE IF StrOr(n, "") = "" THEN <<>> ELSE <<n.str>>

\* resolve_relative.
Resolve(path) == IF path \in Absolute THEN <<path>> ELSE <<"base", path>>

\* expand_env: one pass; a variable that is not set stays as it is written.
Expand(n) ==
    LET Piece(p) == IF "var" \in DOMAIN p /\ p.var \in DOMAIN Env THEN [text |-> Env[p.var]] ELSE p
    IN  IF Is("tokens", n) THEN [i \in DOMAIN n.tokens |-> Piece(n.tokens[i])]
        ELSE << [text |-> ScalarStr(n)] >>

-----------------------------------------------------------------------------
(* config.yaml.  Nothing in it can make AppConfig::load fail but a file    *)
(* that cannot be read or parsed (or holds no document: docs[0] panics).   *)

AcceptsConfig(cfg) == ~Is("absent", cfg)

DatasourceFile(cfg) == Resolve(StrOr(At(cfg, "datasource_file"), "datasource.yaml"))

\* AppConfig::load, with the least page size as a parameter.
Configured(cfg, smallest) ==
    LET runtime == At(cfg, "runtime")
        Paths(n) == LET strings == SelectSeq(Items(n), LAMBDA item : Is("str", item))
                    IN  [i \in DOMAIN strings |-> Resolve(strings[i].str)]
        Named(e) == StrOr(e[1], "") # "" /\ StrOr(e[2], "") # ""
        plugins == SelectSeq(Entries(At(cfg, "datasource")), Named)
    IN  [datasource_plugins |-> Sorted([i \in DOMAIN plugins |->
                                  <<plugins[i][1].str, Resolve(plugins[i][2].str)>>]),
         etl_plugin_paths |-> Paths(At(cfg, "etl")),
         job_files |-> Paths(At(cfg, "jobs")),
         workers |-> AtLeast(1, IntOr(At(runtime, "workers"), 4)),
         retry |-> AtLeast(0, IntOr(At(runtime, "retry"), 3)) % U32,
         page_size |-> AtLeast(smallest, IntOr(At(runtime, "page_size"), 500)),
         datasource_file |-> DatasourceFile(cfg),
         state_dir |-> Resolve(StrOr(At(cfg, "state_dir"), "state"))]

\* Plausible bug: page_size may be 0, and the reader never sees a row.
AppConfigEmptyPages(cfg) == Configured(cfg, 0)

\* AppConfig::load.
AppConfig(cfg) == Configured(cfg, 1)

-----------------------------------------------------------------------------
(* datasource.yaml.                                                        *)

\* The early returns of load_datasources.
AcceptsDatasources(cfg) ==
    /\ Is("map", At(cfg, "connections"))
    /\ \A i \in DOMAIN At(cfg, "connections").map :
          LET e == At(cfg, "connections").map[i]
          IN  /\ Is("str", e[1])
              /\ Is("str", At(e[2], "type"))
              /\ StrOr(At(e[2], "host"), "localhost") # ""

\* One entry as ConnectionSettings, and as the ConnectionConfig the plugin
\* gets from it: connect_all expands the secrets first.
Settings(v) ==
    LET written == Entries(At(v, "params"))
        params == Sorted([i \in DOMAIN written |-> <<StrOr(written[i][1], ""), written[i][2]>>])
    IN  [conn_type |-> At(v, "type").str,
         host |-> StrOr(At(v, "host"), "localhost"),
         port |-> AtLeast(1, IntOr(At(v, "port"), 0)) % U16,
         username |-> StrOr(At(v, "username"), ""),
         password |-> Expand(At(v, "password")),
         params |-> [i \in DOMAIN params |->
                       [key |-> params[i].key,
                        value |-> IF Is("str", params[i].value) THEN Expand(params[i].value)
                                  ELSE << [text |-> ""] >>]],
         max_pool_size |-> AtLeast(1, IntOr(At(v, "max_pool_size"), 4)) % U32,
         connect_timeout_secs |-> AtLeast(1, IntOr(At(v, "connect_timeout_secs"), 15))]

\* The connections by name, in the order connect_all visits them.
Connections(cfg) ==
    LET conns == At(cfg, "connections").map
    IN  Sorted([i \in DOMAIN conns |-> <<conns[i][1].str, Settings(conns[i][2])>>])

-----------------------------------------------------------------------------
(* A job file.                                                             *)

SyncModes == {"full", "upsert", "append"}
Lowercase(s) == IF s \in DOMAIN Lower THEN Lower[s] ELSE s
Blank == {"", " "}

is_builtin(name) == name \in {"rename", "set", "filter", "cast"}
Step(name, config) ==
    [name |-> name, kind |-> IF is_builtin(name) THEN "builtin" ELSE "plugin", config |-> config]

\* parse_step: the forms it rejects, and what it makes of the others.
AcceptsStep(n) ==
    IF ~Is("absent", At(n, "plugin")) THEN StrOr(At(n, "plugin"), "") # ""
    ELSE IF ~Is("absent", At(n, "builtin")) THEN TRUE
    ELSE IF Is("map", n) THEN n.map # <<>> /\ Is("str", n.map[1][1])
    ELSE Is("str", n)

ParseStep(n) ==
    IF ~Is("absent", At(n, "plugin"))
    THEN [name |-> At(n, "plugin").str, kind |-> "plugin", config |-> At(n, "config")]
    ELSE IF ~Is("absent", At(n, "builtin")) THEN Step(StrOr(At(n, "builtin"), ""), At(n, "config"))
    ELSE IF Is("map", n) THEN Step(n.map[1][1].str, n.map[1][2])
    ELSE Step(n.str, Absent)

\* The nodes that JobConfig::load hands to parse_step.  For `etl: {...}`,
\* the single-step form, that is the whole job document.
StepNodes(y) ==
    IF Is("list", At(y, "etl")) THEN At(y, "etl").list
    ELSE IF Is("map", At(y, "etl")) THEN <<y>> ELSE <<>>

\* The early returns of JobConfig::load.
AcceptsJob(y) ==
    /\ Is("str", At(y, "name"))
    /\ Is("str", At(At(y, "source"), "connection"))
    /\ \/ StrOr(At(At(y, "source"), "table"), "") # ""
       \/ StrOr(At(At(y, "source"), "select"), "") \notin Blank
    /\ Is("str", At(At(y, "target"), "connection"))
    /\ Is("str", At(At(y, "target"), "table"))
    /\ Lowercase(StrOr(At(At(y, "sync"), "mode"), "upsert")) \in SyncModes
    /\ Is("str", At(At(y, "schedule"), "cron"))
    /\ \A i \in DOMAIN StepNodes(y) : AcceptsStep(StepNodes(y)[i])

\* The JobConfig it returns.  batch_limit is 0 for None.
Job(y) ==
    LET source == At(y, "source")
        target == At(y, "target")
        state == Entries(At(At(y, "sync"), "state"))
        Spec(v) == [kind |-> StrOr(At(v, "type"), "max"), column |-> StrOr(At(v, "column"), "")]
    IN  [name |-> At(y, "name").str,
         enabled |-> IF Is("bool", At(y, "enabled")) THEN At(y, "enabled").bool ELSE TRUE,
         source |-> [connection |-> At(source, "connection").str,
                     table |-> StrOr(At(source, "table"), ""),
                     select |-> StrOr(At(source, "select"), ""),
                     columns |-> SplitCsv(At(source, "columns")),
                     primary_key |-> SplitCsv(At(source, "primary_key")),
                     batch_limit |-> AtLeast(0, IntOr(At(source, "batch_limit"), 0))],
         target |-> [connection |-> At(target, "connection").str,
                     table |-> At(target, "table").str,
                     columns |-> SplitCsv(At(target, "columns")),
                     primary_key |-> SplitCsv(At(target, "primary_key"))],
         mode |-> Lowercase(StrOr(At(At(y, "sync"), "mode"), "upsert")),
         state |-> Sorted([i \in DOMAIN state |-> <<StrOr(state[i][1], ""), Spec(state[i][2])>>]),
         writers |-> AtLeast(1, IntOr(At(y, "writers"), 1)),
         etl |-> [i \in DOMAIN StepNodes(y) |-> ParseStep(StepNodes(y)[i])]]

-----------------------------------------------------------------------------
(* The configuration structs of the built-in steps, as serde reads them    *)
(* from the JSON form of a step's config.                                  *)

OptionalStr(n) == Missing(n) \/ Is("str", n)
Scalar(n) == Is("null", n) \/ Is("str", n) \/ Is("int", n) \/ Is("bool", n)
Records(n, fields) ==
    \/ Missing(n)
    \/ Is("list", n) /\ \A i \in DOMAIN n.list : \A f \in fields : Is("str", At(n.list[i], f))

\* serde_json::from_value::<RenameConfig, SetConfig, FilterConfig, CastConfig>;
\* a missing config is Null, which is no struct.
Fits(name, config) ==
    /\ Is("map", config)
    /\ CASE name = "rename" -> Records(At(config, "column"), {"from", "to"})
         [] name = "cast" -> Records(At(config, "column"), {"name", "type"})
         [] name = "filter" -> OptionalStr(At(config, "keep")) /\ OptionalStr(At(config, "drop"))
         [] name = "set" -> /\ \A i \in DOMAIN Entries(At(config, "constant")) :
                                 Scalar(At(config, "constant").map[i][2])
                            /\ Missing(At(config, "constant")) \/ Is("map", At(config, "constant"))
=============================================================================
