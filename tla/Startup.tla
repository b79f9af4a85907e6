------------------------------ MODULE Startup ------------------------------
(***************************************************************************)
(* From the start of the process to its serving jobs: main.rs, the         *)
(* connection manager (datasource/connections.rs) with its connect         *)
(* timeout, the two plugin registries, EtlPipeline::build, and the job     *)
(* threads that already call plugins while later jobs are being built.     *)
(*                                                                         *)
(* What is written in the files, and the plugin libraries beside them, is  *)
(* the world, which does not change while it is read (Config says what     *)
(* the loaders make of it).                                                *)
(***************************************************************************)
EXTENDS Config, PluginCalls

CONSTANTS Worlds,     \* the installations the process may find, a sequence
          Suffixed,   \* path of a plugin -> the paths tried when it is no file
          AbiVersion

VARIABLES world,        \* this installation, one of Worlds
          app,          \* AppConfig
          connections,  \* its connections by name
          jobs,         \* the JobConfigs, in the order of the files
          pc,           \* where main is
          receiver,     \* the connection whose channel main holds, or Nobody
          worker,       \* connection -> "off", "calling", "ok" or "err"
          answer,       \* connection -> what is in its channel: "empty", "ok" or "err"
          open,         \* the connections in ConnectionManager.conns
          building,     \* [job, step]: the pipeline step main is at
          spawned       \* the names of the jobs that have a thread

configVars == <<world, app, connections, jobs>>
startVars == <<configVars, pc, receiver, worker, answer, open, building, spawned>>

Ds(c) == <<"ds", c>>
Etl(j, s) == <<"etl", j, s>>
Main == <<"main">>
JobThread(j) == <<"job", j>>
Connector(c) == <<"connect", c>>

Connectors == {d[2] : d \in Datasources}
JobNames == {t[2] : t \in {x \in Threads : x[1] = "job"}}

Before == [unread |-> TRUE]
required == {connections[i].key : i \in DOMAIN connections}

\* The enabled jobs from the i-th on.
EnabledFrom(i) == {k \in DOMAIN jobs : k >= i /\ jobs[k].enabled}
JobNamed(name) == jobs[CHOOSE k \in EnabledFrom(1) : jobs[k].name = name]

-----------------------------------------------------------------------------
(* Plugin libraries.                                                       *)

\* resolve_plugin_path, resolve_etl_path.
Found(libs, path) == SelectSeq(<<path>> \o Suffixed[path], LAMBDA p : p \in DOMAIN libs)

\* The library opens, has the entry point, and its table is there and of this
\* version.
Loads(path, symbol) ==
    /\ Found(world.libs, path) # <<>>
    /\ LET lib == world.libs[Found(world.libs, path)[1]]
       IN  symbol \in lib.symbols /\ ~lib.null /\ lib.version = AbiVersion

\* load_file of the two registries, with load_capi and with load_etl.
LoadsDatasource(path) == Loads(path, "ds_get_api")
LoadsEtl(path) == Loads(path, "etl_get_api")

\* The registry is keyed by the name a library declares, whatever name the
\* configuration gives it; a second library of one name is ignored.
Registered(paths, type) == \E i \in DOMAIN paths : world.libs[Found(world.libs, paths[i])[1]].name = type

DatasourcePaths == [i \in DOMAIN app.datasource_plugins |-> app.datasource_plugins[i].value]

-----------------------------------------------------------------------------
(* main, up to the connections.                                            *)

Running == pc # "dead"
Goto(ok, next) == pc' = IF ok THEN next ELSE "exiting"

\* AppConfig::load and load_datasources.
ConfigAccepted(w) ==
    /\ AcceptsConfig(w.main)
    /\ DatasourceFile(w.main) \in DOMAIN w.files
    /\ AcceptsDatasources(w.files[DatasourceFile(w.main)])
ConnectionsOf(w) == Connections(w.files[DatasourceFile(w.main)])

\* The ids of instances and threads are those the modules make, and there is
\* one for each connection, job and plugin step the process may read.
ASSUME StartupAssumption ==
    /\ Datasources = {Ds(c) : c \in Connectors}
    /\ Threads = {Main} \cup {Connector(c) : c \in Connectors} \cup {JobThread(j) : j \in JobNames}
    /\ Nobody \notin Connectors
    /\ \A i \in DOMAIN Worlds : ConfigAccepted(Worlds[i]) =>
          \A k \in DOMAIN ConnectionsOf(Worlds[i]) : ConnectionsOf(Worlds[i])[k].key \in Connectors
    /\ \A i \in DOMAIN Worlds : \A f \in DOMAIN Worlds[i].files : AcceptsJob(Worlds[i].files[f]) =>
          LET job == Job(Worlds[i].files[f])
          IN  /\ job.name \in JobNames
              /\ \A s \in DOMAIN job.etl : job.etl[s].kind = "plugin" => Etl(job.name, s) \in Processors

\* What a YAML parser gives: lists are sequences, integers are integers, and a
\* node is of one kind.
IsList(s) == Len(s) \in Nat /\ DOMAIN s = 1..Len(s)
ASSUME FilesAssumption ==
    \A i \in DOMAIN Worlds :
        LET main == Worlds[i].main
            files == Worlds[i].files
        IN  /\ AcceptsConfig(main) =>
                  /\ IsList(AppConfig(main).job_files)
                  /\ \A key \in {"workers", "retry", "page_size"} : IntOr(At(At(main, "runtime"), key), 0) \in Int
            /\ \A f \in DOMAIN files : AcceptsJob(files[f]) =>
                  /\ IsList(StepNodes(files[f])) /\ IsList(Job(files[f]).etl)
                  /\ ~({"list", "map"} \subseteq DOMAIN At(files[f], "etl"))
                  /\ {IntOr(At(files[f], "writers"), 0), IntOr(At(At(files[f], "source"), "batch_limit"), 0)} \subseteq Int

StartupInit ==
    /\ \E w \in DOMAIN Worlds : world = Worlds[w]
    /\ app = Before /\ connections = <<>> /\ jobs = <<>>
    /\ pc = "config" /\ receiver = Nobody
    /\ worker = [c \in Connectors |-> "off"]
    /\ answer = [c \in Connectors |-> "empty"]
    /\ open = {} /\ spawned = {}
    /\ building = [job |-> 1, step |-> 1]
    /\ CallsInit

LoadConfig ==
    /\ pc = "config"
    /\ IF ConfigAccepted(world)
       THEN /\ app' = AppConfig(world.main)
            /\ connections' = ConnectionsOf(world)
            /\ pc' = "plugins"
       ELSE pc' = "exiting" /\ UNCHANGED <<app, connections>>
    /\ UNCHANGED <<world, jobs, receiver, worker, answer, open, building, spawned>>
    /\ UNCHANGED callVars

\* ConnectionManager::load_plugins.
LoadPlugins ==
    /\ pc = "plugins"
    /\ Goto(\A i \in DOMAIN DatasourcePaths : LoadsDatasource(DatasourcePaths[i]), "connect")
    /\ UNCHANGED <<configVars, receiver, worker, answer, open, building, spawned>>
    /\ UNCHANGED callVars

\* connect_all and connect_one: the connections in the order of their names,
\* each on a thread of its own.
ConnectNext ==
    /\ pc = "connect"
    /\ \/ /\ required \subseteq open
          /\ pc' = "etl" /\ UNCHANGED <<receiver, worker>>
       \/ \E i \in DOMAIN connections :
            LET next == connections[i]
            IN  /\ next.key \notin open
                /\ \A k \in 1..(i - 1) : connections[k].key \in open
                /\ IF Registered(DatasourcePaths, next.value.conn_type)
                   THEN /\ pc' = "await"
                        /\ receiver' = next.key
                        /\ worker' = [worker EXCEPT ![next.key] = "calling"]
                   ELSE pc' = "exiting" /\ UNCHANGED <<receiver, worker>>
    /\ UNCHANGED <<configVars, answer, open, building, spawned>> /\ UNCHANGED callVars

\* Plausible bug: connect_all goes on with the other connections.
ReceiveSkippingErrors ==
    /\ pc = "await" /\ answer[receiver] # "empty"
    /\ open' = IF answer[receiver] = "ok" THEN open \cup {receiver} ELSE open
    /\ answer' = [answer EXCEPT ![receiver] = "empty"]
    /\ receiver' = Nobody
    /\ pc' = IF answer[receiver] = "ok" THEN "connect" ELSE "etl"
    /\ UNCHANGED <<configVars, worker, building, spawned>> /\ UNCHANGED callVars

\* recv_timeout returns an answer.
Receive ==
    /\ pc = "await" /\ answer[receiver] # "empty"
    /\ open' = IF answer[receiver] = "ok" THEN open \cup {receiver} ELSE open
    /\ answer' = [answer EXCEPT ![receiver] = "empty"]
    /\ receiver' = Nobody
    /\ Goto(answer[receiver] = "ok", "connect")
    /\ UNCHANGED <<configVars, worker, building, spawned>> /\ UNCHANGED callVars

\* Plausible bug: the host leaves the timeout to the driver.
TimeoutOfDriver ==
    /\ pc = "await" /\ answer[receiver] = "empty" /\ worker[receiver] # "calling"
    /\ pc' = "timed_out"
    /\ UNCHANGED <<configVars, receiver, worker, answer, open, building, spawned>>
    /\ UNCHANGED callVars

\* recv_timeout returns Timeout.  The receiver lives until connect_one has
\* built its error: an answer may still arrive in the channel.
Timeout ==
    /\ pc = "await" /\ answer[receiver] = "empty"
    /\ pc' = "timed_out"
    /\ UNCHANGED <<configVars, receiver, worker, answer, open, building, spawned>>
    /\ UNCHANGED callVars

\* Plausible bug: the receiver outlives connect_one.
GiveUpKeepingReceiver ==
    /\ pc = "timed_out" /\ pc' = "exiting"
    /\ UNCHANGED <<configVars, receiver, worker, answer, open, building, spawned>>
    /\ UNCHANGED callVars

\* connect_one returns: the receiver is dropped with what is in its channel.
GiveUp ==
    /\ pc = "timed_out"
    /\ inst' = IF answer[receiver] = "ok" THEN Destroyed({Ds(receiver)}) ELSE inst
    /\ answer' = [answer EXCEPT ![receiver] = "empty"]
    /\ receiver' = Nobody
    /\ pc' = "exiting"
    /\ UNCHANGED <<configVars, worker, open, building, spawned, lock, heap, frames>>

\* fatal: process::exit runs no destructors.
Fatal ==
    /\ pc = "exiting" /\ pc' = "dead"
    /\ UNCHANGED <<configVars, receiver, worker, answer, open, building, spawned>>
    /\ UNCHANGED callVars

-----------------------------------------------------------------------------
(* The thread connect_one spawns: PluginHandle::create_datasource, then    *)
(* the result goes into the channel.  Between Enter and Return the driver  *)
(* connects, for as long as it likes.                                      *)

\* The plugin may give no instance.
WorkerCreate(c) ==
    /\ worker[c] = "calling" /\ inst[Ds(c)] = "none" /\ Idle(Connector(c))
    /\ \/ /\ inst' = Put(Ds(c), "created")
          /\ frames' = Pushed(Connector(c), "connect", Ds(c))
          /\ UNCHANGED worker
       \/ worker' = [worker EXCEPT ![c] = "err"] /\ UNCHANGED <<inst, frames>>
    /\ UNCHANGED <<configVars, pc, receiver, answer, open, building, spawned, lock, heap>>

WorkerConnected(c) ==
    /\ In(Connector(c), "connect", "done")
    /\ LET ok == Top(Connector(c)).ok
       IN  /\ inst' = IF ok THEN Put(Ds(c), "ready") ELSE Destroyed({Ds(c)})
           /\ worker' = [worker EXCEPT ![c] = IF ok THEN "ok" ELSE "err"]
    /\ frames' = Popped(Connector(c))
    /\ UNCHANGED <<configVars, pc, receiver, answer, open, building, spawned, lock, heap>>

\* Plausible bug: an answer that nobody waits for is forgotten, not dropped.
WorkerSendForgetting(c) ==
    /\ worker[c] \in {"ok", "err"}
    /\ worker' = [worker EXCEPT ![c] = "off"]
    /\ answer' = IF receiver = c THEN [answer EXCEPT ![c] = worker[c]] ELSE answer
    /\ UNCHANGED <<configVars, pc, receiver, open, building, spawned, inst, lock, heap, frames>>

\* tx.send: without a receiver the result is dropped, with its instance.
WorkerSend(c) ==
    /\ worker[c] \in {"ok", "err"}
    /\ worker' = [worker EXCEPT ![c] = "off"]
    /\ IF receiver = c
       THEN answer' = [answer EXCEPT ![c] = worker[c]] /\ UNCHANGED inst
       ELSE /\ inst' = IF worker[c] = "ok" THEN Destroyed({Ds(c)}) ELSE inst
            /\ UNCHANGED answer
    /\ UNCHANGED <<configVars, pc, receiver, open, building, spawned, lock, heap, frames>>

-----------------------------------------------------------------------------
(* main, from the ETL plugins on.                                          *)

LoadEtlPlugins ==
    /\ pc = "etl"
    /\ Goto(\A i \in DOMAIN app.etl_plugin_paths : LoadsEtl(app.etl_plugin_paths[i]), "jobs")
    /\ UNCHANGED <<configVars, receiver, worker, answer, open, building, spawned>>
    /\ UNCHANGED callVars

\* The loop over the job files.  Disabled jobs are checked like the others.
LoadJobs ==
    /\ pc = "jobs"
    /\ IF \A i \in DOMAIN app.job_files :
            app.job_files[i] \in DOMAIN world.files /\ AcceptsJob(world.files[app.job_files[i]])
       THEN /\ jobs' = [i \in DOMAIN app.job_files |-> Job(world.files[app.job_files[i]])]
            /\ Goto(\A i, k \in DOMAIN jobs' : i # k => jobs'[i].name # jobs'[k].name, "spawn")
       ELSE pc' = "exiting" /\ UNCHANGED jobs
    /\ UNCHANGED <<world, app, connections, receiver, worker, answer, open, building, spawned>>
    /\ UNCHANGED callVars

\* The loop over the jobs skips the disabled ones.
Building == pc = "spawn" /\ Idle(Main) /\ EnabledFrom(building.job) # {}
NextJob == Min(EnabledFrom(building.job))
TheJob == jobs[NextJob]
TheStep == TheJob.etl[building.step]
Here == Etl(TheJob.name, building.step)

\* `?` in EtlPipeline::build, or an Err of JobRunner::build: the processors
\* of this job that exist already are dropped, then main ends.
BuildFails ==
    /\ pc' = "exiting"
    /\ inst' = Destroyed({Etl(TheJob.name, s) : s \in 1..building.step} \cap {i \in Processors : inst[i] # "none"})
    /\ UNCHANGED building

\* One step of the pipeline.  A plugin step without a config is used as it
\* was created; etl_create cannot fail.
BuildStep ==
    /\ Building /\ building.step <= Len(TheJob.etl)
    /\ CASE TheStep.kind = "builtin" /\ Fits(TheStep.name, TheStep.config) ->
                /\ building' = [building EXCEPT !.step = @ + 1]
                /\ UNCHANGED <<pc, inst, frames>>
         [] TheStep.kind = "plugin" /\ Registered(app.etl_plugin_paths, TheStep.name) ->
                IF Missing(TheStep.config)
                THEN /\ inst' = Put(Here, "ready")
                     /\ building' = [building EXCEPT !.step = @ + 1]
                     /\ UNCHANGED <<pc, frames>>
                ELSE /\ inst' = Put(Here, "created")
                     /\ frames' = Pushed(Main, "configure", Here)
                     /\ UNCHANGED <<pc, building>>
         [] OTHER -> BuildFails /\ UNCHANGED frames
    /\ UNCHANGED <<configVars, receiver, worker, answer, open, spawned, lock, heap>>

\* Plausible bug: a processor that rejected its configuration is used.
ConfiguredAnyway ==
    /\ In(Main, "configure", "done")
    /\ inst' = IF Top(Main).ok THEN Put(Here, "ready") ELSE inst
    /\ building' = [building EXCEPT !.step = @ + 1]
    /\ frames' = Popped(Main)
    /\ UNCHANGED <<configVars, pc, receiver, worker, answer, open, spawned, lock, heap>>

\* EtlHandle::instantiate after the configure call.
StepConfigured ==
    /\ In(Main, "configure", "done")
    /\ IF Top(Main).ok
       THEN inst' = Put(Here, "ready") /\ building' = [building EXCEPT !.step = @ + 1] /\ UNCHANGED pc
       ELSE BuildFails
    /\ frames' = Popped(Main)
    /\ UNCHANGED <<configVars, receiver, worker, answer, open, spawned, lock, heap>>

\* JobRunner::build loads the job's state file; then the thread is spawned.
SpawnJob ==
    /\ Building /\ building.step > Len(TheJob.etl)
    /\ IF TheJob.name \in world.broken
       THEN BuildFails /\ UNCHANGED spawned
       ELSE /\ spawned' = spawned \cup {TheJob.name}
            /\ building' = [job |-> NextJob + 1, step |-> 1]
            /\ UNCHANGED <<pc, inst>>
    /\ UNCHANGED <<configVars, receiver, worker, answer, open, lock, heap, frames>>

Park ==
    /\ pc = "spawn" /\ Idle(Main) /\ EnabledFrom(building.job) = {}
    /\ pc' = "serving"
    /\ UNCHANGED <<configVars, receiver, worker, answer, open, building, spawned>>
    /\ UNCHANGED callVars

-----------------------------------------------------------------------------
(* A job thread, as far as its calls into plugins go.                      *)

\* run_once fails at once when a connection of the job does not exist.
StartPass(j) ==
    /\ Running /\ j \in spawned /\ Idle(JobThread(j))
    /\ {JobNamed(j).source.connection, JobNamed(j).target.connection} \subseteq open
    /\ Cardinality(DOMAIN heap) < MaxLeaks
    /\ Call(JobThread(j), "query_page", Ds(JobNamed(j).source.connection))
    /\ UNCHANGED startVars

\* The plugin steps of a job from step `s` on.
PluginsFrom(j, s) == {i \in DOMAIN JobNamed(j).etl : i >= s /\ JobNamed(j).etl[i].kind = "plugin"}

\* The call after the one that is done: the page goes through the plugin
\* steps, then a full job truncates, then the rows are written.
Follows(j) ==
    LET f == Top(JobThread(j))
        target == Ds(JobNamed(j).target.connection)
        steps == PluginsFrom(j, IF f.fn = "process" THEN f.inst[3] + 1 ELSE 1)
        write == IF JobNamed(j).mode = "full" THEN "truncate" ELSE "batch_insert"
    IN  IF ~f.ok \/ f.fn = "batch_insert" THEN <<>>
        ELSE IF f.fn = "truncate" THEN <<NewCall("batch_insert", target)>>
        ELSE IF steps = {} THEN <<NewCall(write, target)>>
        ELSE <<NewCall("process", Etl(j, Min(steps)))>>

Proceed(j) ==
    /\ Len(frames[JobThread(j)]) = 1 /\ Top(JobThread(j)).at = "done"
    /\ frames' = [frames EXCEPT ![JobThread(j)] = Follows(j)]
    /\ UNCHANGED <<inst, lock, heap>> /\ UNCHANGED startVars

\* A plugin that looks something up in any connection it names, or in one
\* that does not exist.
JobLooksUp(j) ==
    /\ \/ Lookup(JobThread(j))
       \/ \E c \in open : DoLookup(JobThread(j), Ds(c))
       \/ In(JobThread(j), "lookup", "inside") /\ Return(JobThread(j), FALSE)
       \/ LookupQueried(JobThread(j))
       \/ LookupDone(JobThread(j))
    /\ UNCHANGED startVars

-----------------------------------------------------------------------------
(* The steps every call goes through.                                      *)

EnterCall(t) == Enter(t) /\ UNCHANGED startVars
ReturnCall(t) == /\ ~Idle(t) /\ Top(t).fn # "lookup"
                 /\ \E ok \in BOOLEAN : Return(t, ok)
                 /\ UNCHANGED startVars
ReadResult(t) == ReadOut(t) /\ UNCHANGED startVars

MainStep ==
    \/ LoadConfig \/ LoadPlugins \/ ConnectNext \/ Receive \/ Timeout \/ GiveUp \/ Fatal
    \/ LoadEtlPlugins \/ LoadJobs \/ BuildStep \/ StepConfigured \/ SpawnJob \/ Park
    \/ Running /\ (EnterCall(Main) \/ ReturnCall(Main) \/ ReadResult(Main))
WorkerStep(c) ==
    /\ Running
    /\ \/ WorkerCreate(c) \/ WorkerConnected(c) \/ WorkerSend(c)
       \/ EnterCall(Connector(c)) \/ ReturnCall(Connector(c)) \/ ReadResult(Connector(c))
JobStep(j) ==
    /\ Running
    /\ \/ StartPass(j) \/ Proceed(j) \/ JobLooksUp(j)
       \/ EnterCall(JobThread(j)) \/ ReturnCall(JobThread(j)) \/ ReadResult(JobThread(j))

StartupNext ==
    \/ MainStep
    \/ \E c \in Connectors : WorkerStep(c)
    \/ \E j \in JobNames : JobStep(j)

\* main runs, a configure call returns, and the timer of recv_timeout
\* expires.  A driver need not answer, and the job threads owe main nothing.
StartupSpec == StartupInit /\ [][StartupNext]_<<startVars, callVars>> /\ WF_<<startVars, callVars>>(MainStep)

-----------------------------------------------------------------------------
StartupTypeOK ==
    /\ CallsTypeOK
    /\ pc \in {"config", "plugins", "connect", "await", "timed_out", "etl", "jobs", "spawn",
               "serving", "exiting", "dead"}
    /\ receiver \in Connectors \cup {Nobody}
    /\ receiver # Nobody <=> pc \in {"await", "timed_out"}
    /\ worker \in [Connectors -> {"off", "calling", "ok", "err"}]
    /\ answer \in [Connectors -> {"empty", "ok", "err"}]
    /\ open \subseteq Connectors /\ spawned \subseteq JobNames
    /\ building.job \in Nat /\ building.step \in Nat

(* Every string that crossed the C ABI is held by the one call whose out   *)
(* pointer it is in, which still is to read it, or it was left behind by   *)
(* one of three readers that do not free: a failed connect, a failed       *)
(* configure, a lookup.  No out pointer dangles.                           *)
StringsHaveOwners ==
    LET Held(t) == {frames[t][i].out : i \in DOMAIN frames[t]} \ {NoString}
        LeftBehind(s) == heap[s].fn = "lookup" \/ (heap[s].fn \in {"connect", "configure"} /\ ~heap[s].ok)
    IN  /\ \A t \in Threads : Held(t) \subseteq DOMAIN heap
        /\ \A t, u \in Threads : t # u => Held(t) \cap Held(u) = {}
        /\ \A s \in DOMAIN heap : LeftBehind(s) \/ \E t \in Threads : s \in Held(t)

(* A connected instance belongs to the thread that connected it, to the    *)
(* channel that main still listens to, or to the connection manager, and   *)
(* to one of them only; an answer that came too late is destroyed.  The    *)
(* connections a job can get from the manager are connected ones.          *)
OneInstanceOneOwner ==
    \A c \in Connectors :
        LET owners == {o \in {"worker", "channel", "manager"} :
                         CASE o = "worker" -> worker[c] = "ok"
                           [] o = "channel" -> answer[c] = "ok" /\ receiver = c
                           [] o = "manager" -> c \in open}
        IN  IF inst[Ds(c)] = "ready" THEN Cardinality(owners) = 1 ELSE owners = {}

(* A call runs on an instance that exists and is connected or configured   *)
(* (or is just being), alone in a datasource instance.  Whoever waits for  *)
(* an instance's mutex holds none, so that a lookup from inside an ETL     *)
(* plugin cannot close a circle of waiting threads; an ETL instance is     *)
(* only ever used by the thread of its job, or by main before that exists. *)
CallsAreSafe ==
    /\ \A t \in Threads : \A i \in DOMAIN frames[t] :
          LET f == frames[t][i]
          IN  /\ f.inst # Nobody /\ f.at # "done" =>
                    inst[f.inst] = IF f.fn \in {"connect", "configure"} THEN "created" ELSE "ready"
              /\ f.inst \in Datasources /\ f.at = "inside" => lock[f.inst] = t
              /\ f.at = "entry" => \A d \in Datasources : lock[d] # t
              /\ f.inst \in Processors => t = JobThread(f.inst[2]) \/ (t = Main /\ f.inst[2] \notin spawned)

(* What the other modules assume of the settings holds for every file that *)
(* is accepted: worker slots, page size and writers are positive, the      *)
(* retry count is not negative, the mode is one of the three.              *)
SettingsMeetAssumptions ==
    pc \in {"spawn", "serving"} =>
        /\ app.workers >= 1 /\ app.page_size >= 1 /\ app.retry \in 0..(U32 - 1)
        /\ \A i \in DOMAIN jobs :
              /\ jobs[i].writers >= 1 /\ jobs[i].mode \in SyncModes
              /\ (IF jobs[i].source.batch_limit > 0 THEN jobs[i].source.batch_limit ELSE app.page_size) >= 1

(* A job that runs is an enabled one and has every step its file lists, in *)
(* a form the step accepts or as a configured instance of a plugin that    *)
(* was loaded.  The single-step form reads its step from the job document, *)
(* so that no job runs by what `etl: {...}` says.                          *)
PipelinesMatchFiles ==
    \A name \in spawned : \E i \in EnabledFrom(1) :
        LET file == world.files[app.job_files[i]]
            steps == jobs[i].etl
            Builds(step) == is_builtin(step) \/ Registered(app.etl_plugin_paths, step)
        IN  /\ jobs[i].name = name
            /\ ~Is("map", At(file, "etl")) => Len(steps) = Len(Items(At(file, "etl")))
            /\ \A s \in DOMAIN steps :
                  IF steps[s].kind = "builtin" THEN Fits(steps[s].name, steps[s].config)
                  ELSE inst[Etl(name, s)] = "ready" /\ Registered(app.etl_plugin_paths, steps[s].name)
            /\ Is("map", At(file, "etl")) =>
                  \/ \E key \in {"plugin", "builtin"} : ~Is("absent", At(file, key))
                  \/ Builds(file.map[1][1].str)

\* The start as AllOrNothing sees it.
Phase == IF pc = "config" THEN "reading" ELSE IF pc \in {"dead", "serving"} THEN pc
         ELSE IF spawned # {} THEN "spawning" ELSE "opening"
A == INSTANCE AllOrNothing WITH Names <- Connectors, Jobs <- JobNames, phase <- Phase,
                                busy <- {j \in JobNames : ~Idle(JobThread(j))}

(* No job works before every connection of the configuration is open, and  *)
(* none is given up while jobs work: a connection, plugin, job file or     *)
(* pipeline that fails ends the process instead.                           *)
StartsAllOrNothing == A!Spec

(* However slow its databases, the process serves or ends.                 *)
StartupEnds == <>(pc \in {"serving", "dead"})
=============================================================================
