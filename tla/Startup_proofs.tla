--------------------------- MODULE Startup_proofs ---------------------------
(***************************************************************************)
(* Proofs about the start of the process: what its jobs may rely on, who   *)
(* owns the instance of a connection and each string of a plugin, and that *)
(* the calls of any number of threads into the plugins exclude each other  *)
(* without waiting in a circle.                                            *)
(***************************************************************************)
EXTENDS Startup, DataFacts, FiniteSetTheorems

LEMMA ThreadsDiffer ==
  /\ Main \in Threads
  /\ \A c \in Connectors : Connector(c) \in Threads /\ Connector(c) # Main
  /\ \A c, d \in Connectors : c # d => Connector(c) # Connector(d)
  /\ \A j \in JobNames : JobThread(j) \in Threads /\ JobThread(j) # Main
  /\ \A i, j \in JobNames : i # j => JobThread(i) # JobThread(j)
  /\ \A c \in Connectors : \A j \in JobNames : Connector(c) # JobThread(j)
BY StartupAssumption DEF Main, Connector, JobThread

LEMMA InstancesDiffer ==
  /\ \A c \in Connectors : Ds(c) \in Instances /\ Ds(c) \in Datasources
  /\ \A c, d \in Connectors : c # d => Ds(c) # Ds(d)
  /\ \A c, j, s : Ds(c) # Etl(j, s)
BY StartupAssumption DEF Ds, Etl, Instances

\* How the calls of a thread may change: only its own stack does.
OnlyCallsOf(t) == \A u \in Threads : u # t => frames'[u] = frames[u]

FramesFunction == frames = [t \in Threads |-> frames[t]]

LEMMA OnlyItsCalls ==
  ASSUME FramesFunction, NEW t \in Threads, NEW s, frames' = [frames EXCEPT ![t] = s]
  PROVE  FramesFunction' /\ OnlyCallsOf(t) /\ frames'[t] = s
BY DEF FramesFunction, OnlyCallsOf

-----------------------------------------------------------------------------
(* Where main is, and what that says of the connections.                   *)

Places == {"config", "plugins", "connect", "await", "timed_out", "etl", "jobs", "spawn",
           "serving", "exiting", "dead"}

\* Main and the connect threads make one call at a time.
Shallow(t) == frames[t] \in Seq(ToSet(frames[t])) /\ Len(frames[t]) <= 1

StartInv ==
    /\ FramesFunction /\ pc \in Places
    /\ \E i \in DOMAIN Worlds : world = Worlds[i]
    /\ pc = "config" => connections = <<>> /\ spawned = {}
    /\ required \subseteq Connectors /\ open \subseteq required
    /\ spawned # {} => pc \in {"spawn", "serving", "exiting", "dead"}
    /\ spawned # {} \/ pc \in {"etl", "jobs", "spawn", "serving"} => open = required
    /\ receiver # Nobody <=> pc \in {"await", "timed_out"}
    /\ pc \in {"await", "timed_out"} => receiver \in required \ open
    /\ answer \in [Connectors -> {"empty", "ok", "err"}]
    /\ \A j \in JobNames : ~Idle(JobThread(j)) => j \in spawned
    /\ Shallow(Main) /\ (~Idle(Main) => pc = "spawn")

\* What the threads do to each other's calls.
LEMMA StackSteps ==
  ASSUME FramesFunction, NEW t \in Threads,
         \/ Enter(t) \/ (\E ok \in BOOLEAN : Return(t, ok)) \/ ReadOut(t)
         \/ Lookup(t) \/ (\E i : DoLookup(t, i)) \/ LookupQueried(t) \/ LookupDone(t)
  PROVE  FramesFunction' /\ OnlyCallsOf(t) /\ ~Idle(t) /\ UNCHANGED inst
<1>1. ~Idle(t) /\ UNCHANGED inst
  BY DEF Enter, Return, ReadOut, Read, Lookup, DoLookup, LookupQueried, LookupDone, In, Call
<1>2. \E s : frames' = [frames EXCEPT ![t] = s]
  BY DEF Enter, Return, ReadOut, Read, Lookup, DoLookup, LookupQueried, LookupDone, Call,
     Pushed, Popped, SetTop
<1>3. QED BY <1>1, <1>2, OnlyItsCalls

LEMMA OneCall ==
  ASSUME NEW f
  PROVE  /\ <<f>> \in Seq(ToSet(<<f>>)) /\ Len(<<f>>) = 1 /\ Last(<<f>>) = f
         /\ Front(<<f>>) = <<>> /\ <<>> \o <<f>> = <<f>> /\ Append(<<>>, f) = <<f>>
         /\ <<>> \in Seq(ToSet(<<>>)) /\ Len(<<>>) = 0
<1>1. /\ ToSet(<<f>>) = {f} /\ <<f>> \in Seq({f}) /\ Len(<<f>>) = 1 /\ Last(<<f>>) = f
  BY DEF ToSet, Last
<1>2. <<>> \o <<f>> = <<f>> /\ Append(<<>>, f) = <<f>>
  BY SMT
<1>3. Front(<<f>>) = <<>>
  BY <1>1 DEF Front
<1>4. QED BY <1>1, <1>2, <1>3, EmptySeq

LEMMA AtMostOne ==
  ASSUME NEW t, Shallow(t)
  PROVE  Idle(t) \/ frames[t] = <<Top(t)>>
BY LenProperties DEF Shallow, Idle, Top, Last

LEMMA ShallowSteps ==
  ASSUME FramesFunction, NEW t \in Threads, Shallow(t),
         \/ Enter(t) \/ (\E ok \in BOOLEAN : Return(t, ok)) \/ ReadOut(t)
  PROVE  Shallow(t)' /\ ~Idle(t)'
<1>1. frames[t] = <<Top(t)>>
  BY AtMostOne DEF Enter, Return, ReadOut, Read
<1>2. \E f : frames' = [frames EXCEPT ![t] = <<f>>]
  <2>1. \A f : Front(frames[t]) \o <<f>> = <<f>>
    BY <1>1, OneCall
  <2>2. \E f : frames' = SetTop(t, f)
    BY DEF Enter, Return, ReadOut, Read
  <2>3. QED BY <2>1, <2>2 DEF SetTop
<1>3. PICK f : frames'[t] = <<f>>
  BY <1>2 DEF FramesFunction
<1>4. QED BY <1>3, OneCall DEF Shallow, Idle

LEMMA NoCalls ==
  ASSUME FramesFunction, UNCHANGED frames, NEW t \in Threads
  PROVE  FramesFunction' /\ OnlyCallsOf(t)
BY DEF FramesFunction, OnlyCallsOf

LEMMA MainCalls ==
  ASSUME FramesFunction, MainStep
  PROVE  FramesFunction' /\ OnlyCallsOf(Main)
<1>1. Main \in Threads
  BY ThreadsDiffer
<1>2. CASE UNCHANGED frames
  BY <1>1, <1>2, NoCalls
<1>3. CASE LoadConfig \/ LoadPlugins \/ ConnectNext \/ Receive \/ Timeout \/ GiveUp \/ Fatal
           \/ LoadEtlPlugins \/ LoadJobs \/ SpawnJob \/ Park
  BY <1>2, <1>3 DEF LoadConfig, LoadPlugins, ConnectNext, Receive, Timeout, GiveUp, Fatal,
     LoadEtlPlugins, LoadJobs, SpawnJob, Park, callVars
<1>4. CASE BuildStep \/ StepConfigured
  <2>1. UNCHANGED frames \/ \E s : frames' = [frames EXCEPT ![Main] = s]
    BY <1>4 DEF BuildStep, StepConfigured, Pushed, Popped
  <2>2. QED BY <1>1, <1>2, <2>1, OnlyItsCalls
<1>5. CASE EnterCall(Main) \/ ReturnCall(Main) \/ ReadResult(Main)
  BY <1>1, <1>5, StackSteps DEF EnterCall, ReturnCall, ReadResult
<1>6. QED BY <1>3, <1>4, <1>5 DEF MainStep

LEMMA WorkerCalls ==
  ASSUME FramesFunction, NEW c \in Connectors, WorkerStep(c)
  PROVE  FramesFunction' /\ OnlyCallsOf(Connector(c))
<1>1. Connector(c) \in Threads
  BY ThreadsDiffer
<1>2. CASE WorkerCreate(c) \/ WorkerConnected(c) \/ WorkerSend(c)
  <2>1. UNCHANGED frames \/ \E s : frames' = [frames EXCEPT ![Connector(c)] = s]
    BY <1>2 DEF WorkerCreate, WorkerConnected, WorkerSend, Pushed, Popped
  <2>2. QED BY <1>1, <2>1, NoCalls, OnlyItsCalls
<1>3. CASE EnterCall(Connector(c)) \/ ReturnCall(Connector(c)) \/ ReadResult(Connector(c))
  BY <1>1, <1>3, StackSteps DEF EnterCall, ReturnCall, ReadResult
<1>4. QED BY <1>2, <1>3 DEF WorkerStep

\* A job's step is in its own calls and changes nothing of the start; its
\* first call is made by a job that has a thread.
LEMMA JobCalls ==
  ASSUME FramesFunction, NEW j \in JobNames, JobStep(j)
  PROVE  /\ FramesFunction' /\ OnlyCallsOf(JobThread(j)) /\ UNCHANGED inst /\ UNCHANGED startVars
         /\ Running /\ (j \in spawned \/ ~Idle(JobThread(j)))
<1>1. JobThread(j) \in Threads /\ Running /\ UNCHANGED startVars
  BY ThreadsDiffer DEF JobStep, StartPass, Proceed, JobLooksUp, EnterCall, ReturnCall, ReadResult
<1>2. CASE StartPass(j)
  <2>1. \E s : frames' = [frames EXCEPT ![JobThread(j)] = s]
    BY <1>2 DEF StartPass, Call, Pushed
  <2>2. QED BY <1>1, <1>2, <2>1, OnlyItsCalls DEF StartPass, Call
<1>3. CASE Proceed(j)
  <2>1. frames' = [frames EXCEPT ![JobThread(j)] = Follows(j)] /\ Len(frames[JobThread(j)]) = 1
        /\ UNCHANGED inst
    BY <1>3 DEF Proceed
  <2>2. ~Idle(JobThread(j))
    <3>1. Len(<<>>) = 0
      OBVIOUS
    <3>2. QED BY <2>1, <3>1 DEF Idle
  <2>3. QED BY <1>1, <2>1, <2>2, OnlyItsCalls
<1>4. CASE JobLooksUp(j)
  BY <1>1, <1>4, StackSteps DEF JobLooksUp
<1>5. CASE EnterCall(JobThread(j)) \/ ReturnCall(JobThread(j)) \/ ReadResult(JobThread(j))
  BY <1>1, <1>5, StackSteps DEF EnterCall, ReturnCall, ReadResult
<1>6. QED BY <1>2, <1>3, <1>4, <1>5 DEF JobStep

\* What a step of main does to the connections and to where main is.
LEMMA MainMoves ==
  ASSUME StartInv, MainStep
  PROVE  /\ UNCHANGED world
         /\ \/ /\ pc = "config" /\ UNCHANGED <<receiver, answer, open, spawned>>
               /\ \/ pc' = "exiting" /\ UNCHANGED connections
                  \/ /\ pc' = "plugins" /\ connections' = ConnectionsOf(world)
                     /\ ConfigAccepted(world)
            \/ /\ UNCHANGED <<connections, receiver, answer, open, spawned>>
               /\ \/ pc = "plugins" /\ pc' \in {"connect", "exiting"}
                  \/ pc = "connect" /\ pc' = "exiting"
                  \/ pc = "connect" /\ pc' = "etl" /\ required \subseteq open
                  \/ pc = "await" /\ pc' = "timed_out"
                  \/ pc = "exiting" /\ pc' = "dead"
                  \/ pc = "etl" /\ pc' \in {"jobs", "exiting"}
                  \/ pc = "jobs" /\ pc' \in {"spawn", "exiting"}
                  \/ pc = "spawn" /\ pc' \in {"spawn", "exiting", "serving"}
            \/ /\ pc = "connect" /\ pc' = "await" /\ receiver' \in required \ open
               /\ UNCHANGED <<connections, answer, open, spawned>>
            \/ /\ pc = "await" /\ receiver' = Nobody
               /\ UNCHANGED <<connections, spawned>>
               /\ answer' = [answer EXCEPT ![receiver] = "empty"]
               /\ \/ pc' = "connect" /\ open' = open \cup {receiver} /\ answer[receiver] = "ok"
                  \/ pc' = "exiting" /\ open' = open /\ answer[receiver] = "err"
            \/ /\ pc = "timed_out" /\ pc' = "exiting" /\ receiver' = Nobody
               /\ answer' = [answer EXCEPT ![receiver] = "empty"]
               /\ UNCHANGED <<connections, open, spawned>>
            \/ /\ pc = "spawn" /\ pc' = "spawn" /\ \E j : spawned' = spawned \cup {j}
               /\ UNCHANGED <<connections, receiver, answer, open>>
            \/ /\ UNCHANGED <<connections, receiver, answer, open, spawned, pc, inst>>
               /\ pc # "dead"
<1>1. CASE LoadConfig
  BY <1>1 DEF LoadConfig
<1>2. CASE ConnectNext
  <2>1. \A i \in DOMAIN connections : connections[i].key \in required
    BY DEF required
  <2>2. QED BY <1>2, <2>1 DEF ConnectNext, configVars
<1>3. CASE Receive
  <2>1. receiver \in Connectors
    BY <1>3 DEF Receive, StartInv
  <2>2. answer[receiver] \in {"ok", "err"}
    BY <1>3, <2>1 DEF Receive, StartInv
  <2>3. QED BY <1>3, <2>2 DEF Receive, configVars, Goto
<1>4. CASE GiveUp
  BY <1>4 DEF GiveUp, configVars
<1>5. CASE LoadPlugins \/ Timeout \/ Fatal \/ LoadEtlPlugins \/ LoadJobs \/ Park
  BY <1>5 DEF LoadPlugins, Timeout, Fatal, LoadEtlPlugins, LoadJobs, Park, Goto, configVars
<1>6. CASE BuildStep
  BY <1>6 DEF BuildStep, Building, BuildFails, configVars
<1>7. CASE StepConfigured
  BY <1>7 DEF StepConfigured, StartInv, In, BuildFails, configVars
<1>8. CASE SpawnJob
  BY <1>8 DEF SpawnJob, Building, BuildFails, configVars
<1>9. CASE Running /\ (EnterCall(Main) \/ ReturnCall(Main) \/ ReadResult(Main))
  BY <1>9, ThreadsDiffer, StackSteps, MainCalls DEF EnterCall, ReturnCall, ReadResult, startVars,
     configVars, Running, StartInv
<1>10. QED BY <1>1, <1>2, <1>3, <1>4, <1>5, <1>6, <1>7, <1>8, <1>9 DEF MainStep

\* Main makes a call only while it builds a pipeline.
LEMMA MainCallsOneByOne ==
  ASSUME StartInv, MainStep
  PROVE  Shallow(Main)' /\ (~Idle(Main)' => pc' = "spawn")
<1>1. FramesFunction /\ Main \in Threads /\ Shallow(Main) /\ (~Idle(Main) => pc = "spawn")
  BY ThreadsDiffer DEF StartInv
<1>2. CASE UNCHANGED frames /\ (Idle(Main) \/ pc' = pc)
  BY <1>1, <1>2 DEF Shallow, Idle
<1>3. CASE LoadConfig \/ LoadPlugins \/ ConnectNext \/ Receive \/ Timeout \/ GiveUp \/ Fatal
           \/ LoadEtlPlugins \/ LoadJobs \/ SpawnJob \/ Park
  BY <1>1, <1>2, <1>3 DEF LoadConfig, LoadPlugins, ConnectNext, Receive, Timeout, GiveUp, Fatal,
     LoadEtlPlugins, LoadJobs, SpawnJob, Building, Park, callVars
<1>4. CASE BuildStep
  <2>1. Idle(Main) /\ pc = "spawn"
    BY <1>4 DEF BuildStep, Building
  <2>2. \/ UNCHANGED frames
        \/ frames' = Pushed(Main, "configure", Here) /\ pc' = pc
    BY <1>4 DEF BuildStep, BuildFails
  <2>3. CASE frames' = Pushed(Main, "configure", Here) /\ pc' = pc
    <3>1. frames'[Main] = <<NewCall("configure", Here)>>
      BY <1>1, <2>1, <2>3, OneCall DEF Pushed, Idle, FramesFunction
    <3>2. Shallow(Main)'
      BY <3>1, OneCall DEF Shallow
    <3>3. QED BY <2>1, <2>3, <3>2
  <2>4. QED BY <1>2, <2>1, <2>2, <2>3
<1>5. CASE StepConfigured
  <2>1. frames[Main] = <<Top(Main)>>
    BY <1>1, <1>5, AtMostOne DEF StepConfigured, In
  <2>2. frames'[Main] = <<>>
    BY <1>1, <1>5, <2>1, OneCall DEF StepConfigured, Popped, FramesFunction
  <2>3. QED BY <2>2, OneCall DEF Shallow, Idle
<1>6. CASE EnterCall(Main) \/ ReturnCall(Main) \/ ReadResult(Main)
  <2>1. Shallow(Main)' /\ ~Idle(Main) /\ pc' = pc
    BY <1>1, <1>6, ShallowSteps, StackSteps DEF EnterCall, ReturnCall, ReadResult, startVars
  <2>2. QED BY <1>1, <2>1
<1>7. QED BY <1>3, <1>4, <1>5, <1>6 DEF MainStep

LEMMA StartStep ==
  ASSUME StartInv, [StartupNext]_<<startVars, callVars>>
  PROVE  StartInv'
<1>1. FramesFunction /\ StartInv
  BY DEF StartInv
<1>2. CASE UNCHANGED <<startVars, callVars>>
  BY <1>1, <1>2 DEF startVars, configVars, callVars, StartInv, FramesFunction, Shallow, Idle, required
<1>3. ASSUME NEW t \in Threads, t # Main, FramesFunction', OnlyCallsOf(t),
             UNCHANGED <<configVars, pc, receiver, open, spawned>>,
             answer' \in [Connectors -> {"empty", "ok", "err"}],
             \A j \in JobNames : t = JobThread(j) /\ ~Idle(t)' => j \in spawned
      PROVE  StartInv'
  <2>1. Shallow(Main)' /\ (~Idle(Main)' => pc = "spawn")
    BY <1>1, <1>3, ThreadsDiffer DEF StartInv, OnlyCallsOf, Shallow, Idle
  <2>2. \A j \in JobNames : ~Idle(JobThread(j))' => j \in spawned
    BY <1>1, <1>3, ThreadsDiffer DEF StartInv, OnlyCallsOf, Idle
  <2>3. required' = required
    BY <1>3 DEF required, configVars
  <2>4. QED BY <1>1, <1>3, <2>1, <2>2, <2>3 DEF StartInv, configVars
<1>4. ASSUME NEW c \in Connectors, WorkerStep(c) PROVE StartInv'
  <2>1. UNCHANGED <<configVars, pc, receiver, open, spawned>>
        /\ answer' \in [Connectors -> {"empty", "ok", "err"}]
    BY <1>1, <1>4 DEF WorkerStep, WorkerCreate, WorkerConnected, WorkerSend, EnterCall, ReturnCall,
       ReadResult, startVars, StartInv
  <2>2. QED BY <1>1, <1>3, <1>4, <2>1, WorkerCalls, ThreadsDiffer
<1>5. ASSUME NEW j \in JobNames, JobStep(j) PROVE StartInv'
  <2>1. j \in spawned
    BY <1>1, <1>5, JobCalls DEF StartInv
  <2>2. \A i \in JobNames : JobThread(j) = JobThread(i) => i \in spawned
    BY <2>1, ThreadsDiffer
  <2>3. QED BY <1>1, <1>3, <1>5, <2>2, JobCalls, ThreadsDiffer DEF startVars, StartInv
<1>6. CASE MainStep
  <2>1. FramesFunction' /\ Shallow(Main)' /\ (~Idle(Main)' => pc' = "spawn")
    BY <1>1, <1>6, MainCalls, MainCallsOneByOne
  <2>2. UNCHANGED world /\ spawned \subseteq spawned' /\ pc' \in Places
        /\ answer' \in [Connectors -> {"empty", "ok", "err"}]
        /\ (receiver' # Nobody <=> pc' \in {"await", "timed_out"})
    <3>1. required \subseteq Connectors /\ Nobody \notin Connectors
      BY <1>1, StartupAssumption DEF StartInv
    <3>2. QED BY <1>1, <1>6, <3>1, MainMoves DEF StartInv, Places
  <2>3. \A j \in JobNames : ~Idle(JobThread(j))' => j \in spawned'
    BY <1>1, <1>6, <2>2, MainCalls, ThreadsDiffer DEF StartInv, OnlyCallsOf, Idle
  <2>4. CASE UNCHANGED connections
    <3>1. required' = required
      BY <2>4 DEF required
    <3>2. /\ pc' = "config" => connections' = <<>> /\ spawned' = {}
          /\ required' \subseteq Connectors /\ open' \subseteq required'
          /\ spawned' # {} => pc' \in {"spawn", "serving", "exiting", "dead"}
          /\ spawned' # {} \/ pc' \in {"etl", "jobs", "spawn", "serving"} => open' = required'
          /\ pc' \in {"await", "timed_out"} => receiver' \in required' \ open'
      BY <1>1, <1>6, <3>1, MainMoves DEF StartInv
    <3>3. QED BY <1>1, <2>1, <2>2, <2>3, <3>2 DEF StartInv
  <2>5. CASE ~UNCHANGED connections
    <3>1. /\ pc = "config" /\ UNCHANGED <<open, spawned>> /\ pc' = "plugins"
          /\ connections' = ConnectionsOf(world) /\ ConfigAccepted(world)
      BY <1>1, <1>6, <2>5, MainMoves
    <3>2. open = {} /\ spawned = {}
      BY <1>1, <3>1 DEF StartInv, required
    <3>3. required' \subseteq Connectors
      BY <1>1, <3>1, StartupAssumption DEF StartInv, required
    <3>4. QED BY <1>1, <2>1, <2>2, <2>3, <3>1, <3>2, <3>3 DEF StartInv
  <2>6. QED BY <2>4, <2>5
<1>7. QED BY <1>1, <1>2, <1>4, <1>5, <1>6 DEF StartupNext

LEMMA StartInitially == StartupInit => StartInv
<1> SUFFICES ASSUME StartupInit PROVE StartInv
  OBVIOUS
<1>1. FramesFunction /\ \A t \in Threads : Idle(t) /\ Shallow(t)
  BY OneCall DEF StartupInit, CallsInit, FramesFunction, Idle, Shallow
<1>2. QED BY <1>1, ThreadsDiffer DEF StartupInit, StartInv, Places, required

LEMMA StartHolds == StartupSpec => []StartInv
<1>1. StartInv /\ [StartupNext]_<<startVars, callVars>> => StartInv'
  BY StartStep
<1>2. QED BY <1>1, StartInitially, PTL DEF StartupSpec

(* The start keeps the promise of AllOrNothing: a job works only while     *)
(* every connection of the configuration is open, and none is given up     *)
(* then; whatever else fails ends the process.  For any installation.      *)
THEOREM StartsAllOrNothingHolds == StartupSpec => StartsAllOrNothing
<1> DEFINE busy == {j \in JobNames : ~Idle(JobThread(j))}
<1>1. StartupInit => A!Init
  <2> SUFFICES ASSUME StartupInit PROVE A!Init
    OBVIOUS
  <2>1. busy = {}
    BY ThreadsDiffer DEF StartupInit, CallsInit, Idle
  <2>2. QED BY <2>1 DEF StartupInit, A!Init, Phase, required
<1>2. StartInv /\ StartInv' /\ [StartupNext]_<<startVars, callVars>> => [A!Next]_A!vars
  <2> SUFFICES ASSUME StartInv, StartInv', [StartupNext]_<<startVars, callVars>>
               PROVE  [A!Next]_A!vars
    OBVIOUS
  <2>1. FramesFunction
    BY DEF StartInv
  <2>2. CASE UNCHANGED <<startVars, callVars>>
    <3>1. UNCHANGED <<required, open, Phase, busy>>
      BY <2>2 DEF startVars, configVars, callVars, required, Phase, Idle
    <3>2. QED BY <3>1 DEF A!vars
  <2>3. ASSUME NEW c \in Connectors, WorkerStep(c) PROVE [A!Next]_A!vars
    <3>1. UNCHANGED <<configVars, pc, open, spawned>>
      BY <2>3 DEF WorkerStep, WorkerCreate, WorkerConnected, WorkerSend, EnterCall, ReturnCall,
         ReadResult, startVars
    <3>2. busy' = busy
      BY <2>1, <2>3, WorkerCalls, ThreadsDiffer DEF OnlyCallsOf, Idle
    <3>3. required' = required /\ Phase' = Phase
      BY <3>1 DEF required, Phase, configVars
    <3>4. QED BY <3>1, <3>2, <3>3 DEF A!vars
  <2>4. ASSUME NEW j \in JobNames, JobStep(j) PROVE [A!Next]_A!vars
    <3>1. UNCHANGED <<configVars, pc, open, spawned>> /\ j \in spawned /\ pc # "dead"
      BY <2>1, <2>4, JobCalls DEF startVars, Running, StartInv
    <3>2. \A i \in JobNames : i # j => (i \in busy' <=> i \in busy)
      BY <2>1, <2>4, JobCalls, ThreadsDiffer DEF OnlyCallsOf, Idle
    <3>3. busy' \in {busy \cup {j}, busy \ {j}}
      BY <3>2
    <3>4. required' = required /\ Phase' = Phase
      BY <3>1 DEF required, Phase, configVars
    <3>5. Phase \in {"spawning", "serving"}
      BY <3>1 DEF Phase, StartInv
    <3>6. A!Work(j)
      BY <3>1, <3>3, <3>4, <3>5 DEF A!Work
    <3>7. QED BY <3>6 DEF A!Next
  <2>5. CASE MainStep
    <3>1. busy' = busy
      BY <2>1, <2>5, MainCalls, ThreadsDiffer DEF OnlyCallsOf, Idle
    <3>2. CASE pc = "config" /\ pc' # "config"
      <4>1. spawned = {} /\ spawned' = {} /\ open' = open /\ pc' \in {"exiting", "plugins"}
        BY <2>5, <3>2, MainMoves DEF StartInv
      <4>2. A!Read
        BY <3>1, <3>2, <4>1 DEF A!Read, Phase, StartInv
      <4>3. QED BY <4>2 DEF A!Next
    <3>3. CASE ~(pc = "config" /\ pc' # "config")
      <4>1. UNCHANGED connections /\ required' = required
        BY <2>5, <3>3, MainMoves DEF required
      <4>2. CASE open' # open
        <5>1. /\ pc = "await" /\ pc' = "connect" /\ open' = open \cup {receiver}
              /\ UNCHANGED spawned /\ receiver \in required \ open
          BY <2>5, <4>2, MainMoves DEF StartInv
        <5>2. Phase = "opening" /\ Phase' = "opening"
          BY <5>1 DEF Phase, StartInv
        <5>3. A!Open
          BY <3>1, <4>1, <5>1, <5>2 DEF A!Open
        <5>4. QED BY <5>3 DEF A!Next
      <4>3. CASE open' = open /\ spawned' # spawned
        <5>1. pc = "spawn" /\ pc' = "spawn" /\ open = required /\ spawned' # {}
          BY <2>5, <4>3, MainMoves DEF StartInv
        <5>2. CASE spawned = {}
          <6>1. A!Spawn
            BY <3>1, <4>1, <4>3, <5>1, <5>2 DEF A!Spawn, Phase
          <6>2. QED BY <6>1 DEF A!Next
        <5>3. CASE spawned # {}
          BY <3>1, <4>1, <4>3, <5>1, <5>3 DEF A!vars, Phase
        <5>4. QED BY <5>2, <5>3
      <4>4. CASE open' = open /\ spawned' = spawned
        <5>1. CASE pc = "exiting" /\ pc' = "dead"
          <6>1. A!Die
            BY <3>1, <4>1, <4>4, <5>1 DEF A!Die, Phase
          <6>2. QED BY <6>1 DEF A!Next
        <5>2. CASE pc = "spawn" /\ pc' = "serving"
          <6>1. A!Serve
            BY <3>1, <4>1, <4>4, <5>2 DEF A!Serve, Phase, StartInv
          <6>2. QED BY <6>1 DEF A!Next
        <5>3. CASE ~(pc = "exiting" /\ pc' = "dead") /\ ~(pc = "spawn" /\ pc' = "serving")
          <6>1. Phase' = Phase
            BY <2>5, <3>3, <4>4, <5>3, MainMoves DEF Phase
          <6>2. QED BY <3>1, <4>1, <4>4, <6>1 DEF A!vars
        <5>4. QED BY <5>1, <5>2, <5>3
      <4>5. QED BY <4>2, <4>3, <4>4
    <3>4. QED BY <3>2, <3>3
  <2>6. QED BY <2>2, <2>3, <2>4, <2>5 DEF StartupNext
<1>3. QED BY <1>1, <1>2, StartHolds, PTL DEF StartupSpec, StartsAllOrNothing, A!Spec

-----------------------------------------------------------------------------
(* Who owns the instance of a connection.                                  *)

\* Where a connection without an instance has not been tried yet.
BeforeConnecting == {"config", "plugins", "connect", "await"}

\* The way of one connection: its thread calls the plugin, then holds the
\* answer, then the channel main listens to does, then the manager.
OnItsWay(c) ==
    /\ Shallow(Connector(c))
    /\ ~Idle(Connector(c)) => worker[c] = "calling" /\ inst[Ds(c)] = "created"
    /\ worker[c] = "calling" /\ Idle(Connector(c)) => inst[Ds(c)] = "none"
    /\ worker[c] # "off" => answer[c] = "empty" /\ c \notin open
    /\ worker[c] = "ok" => inst[Ds(c)] = "ready"
    /\ worker[c] = "err" => inst[Ds(c)] # "ready"
    /\ worker[c] = "off" => (inst[Ds(c)] = "ready" <=> answer[c] = "ok" \/ c \in open)
    /\ answer[c] # "empty" => receiver = c /\ c \notin open
    /\ pc \in BeforeConnecting /\ c \notin open \cup {receiver} =>
          worker[c] = "off" /\ answer[c] = "empty" /\ inst[Ds(c)] = "none" /\ Idle(Connector(c))

OwnerInv ==
    /\ StartInv
    /\ inst = [i \in Instances |-> inst[i]]
    /\ worker \in [Connectors -> {"off", "calling", "ok", "err"}]
    /\ \A c \in Connectors : OnItsWay(c)

LEMMA WayImpliesOwner == OwnerInv => OneInstanceOneOwner
<1> SUFFICES ASSUME OwnerInv, NEW c \in Connectors
             PROVE  LET owners == {o \in {"worker", "channel", "manager"} :
                                     CASE o = "worker" -> worker[c] = "ok"
                                       [] o = "channel" -> answer[c] = "ok" /\ receiver = c
                                       [] o = "manager" -> c \in open}
                    IN  IF inst[Ds(c)] = "ready" THEN Cardinality(owners) = 1 ELSE owners = {}
  BY DEF OneInstanceOneOwner
<1> DEFINE owners == {o \in {"worker", "channel", "manager"} :
                        CASE o = "worker" -> worker[c] = "ok"
                          [] o = "channel" -> answer[c] = "ok" /\ receiver = c
                          [] o = "manager" -> c \in open}
<1>1. OnItsWay(c) /\ worker[c] \in {"off", "calling", "ok", "err"}
  BY DEF OwnerInv
<1>2. owners = (IF worker[c] = "ok" THEN {"worker"} ELSE {})
               \cup (IF answer[c] = "ok" /\ receiver = c THEN {"channel"} ELSE {})
               \cup (IF c \in open THEN {"manager"} ELSE {})
  OBVIOUS
<1>3. CASE inst[Ds(c)] # "ready"
  BY <1>1, <1>2, <1>3 DEF OnItsWay
<1>4. CASE inst[Ds(c)] = "ready"
  <2> HIDE DEF owners
  <2>1. CASE worker[c] = "ok"
    <3>1. answer[c] # "ok" /\ c \notin open
      BY <1>1, <2>1 DEF OnItsWay
    <3>2. owners = {"worker"}
      BY <1>2, <2>1, <3>1
    <3>3. QED BY <1>4, <3>2, FS_Singleton DEF owners
  <2>2. CASE worker[c] # "ok"
    <3>1. worker[c] = "off"
      BY <1>1, <1>4, <2>2 DEF OnItsWay
    <3>2. \/ answer[c] = "ok" /\ receiver = c /\ c \notin open
          \/ answer[c] # "ok" /\ c \in open
      BY <1>1, <1>4, <3>1 DEF OnItsWay
    <3>3. owners = {"channel"} \/ owners = {"manager"}
      BY <1>2, <2>2, <3>2
    <3>4. QED BY <1>4, <3>3, FS_Singleton DEF owners
  <2>3. QED BY <2>1, <2>2
<1>5. QED BY <1>3, <1>4

\* A step that leaves a connection alone.
LEMMA OnTheSameWay ==
  ASSUME NEW c \in Connectors, OnItsWay(c),
         frames'[Connector(c)] = frames[Connector(c)], inst'[Ds(c)] = inst[Ds(c)],
         worker'[c] = worker[c], answer'[c] = answer[c], c \in open' <=> c \in open,
         answer[c] # "empty" => receiver' = receiver,
         pc' \in BeforeConnecting /\ c \notin open \cup {receiver'} =>
            pc \in BeforeConnecting /\ c \notin open \cup {receiver}
  PROVE  OnItsWay(c)'
BY DEF OnItsWay, Shallow, Idle

\* The pipelines' instances are others than the connections'.
LEMMA OnlyProcessors ==
  ASSUME OwnerInv,
         \/ UNCHANGED inst
         \/ \E j, s, v : inst' = Put(Etl(j, s), v)
         \/ \E is : inst' = Destroyed(is) /\ \A c \in Connectors : Ds(c) \notin is
  PROVE  /\ inst' = [i \in Instances |-> inst'[i]]
         /\ \A c \in Connectors : inst'[Ds(c)] = inst[Ds(c)]
<1>1. inst = [i \in Instances |-> inst[i]] /\ \A c \in Connectors : Ds(c) \in Instances
  BY InstancesDiffer DEF OwnerInv
<1>2. CASE UNCHANGED inst
  BY <1>1, <1>2
<1>3. CASE \E j, s, v : inst' = Put(Etl(j, s), v)
  BY <1>1, <1>3, InstancesDiffer DEF Put
<1>4. CASE \E is : inst' = Destroyed(is) /\ \A c \in Connectors : Ds(c) \notin is
  BY <1>1, <1>4 DEF Destroyed
<1>5. QED BY <1>2, <1>3, <1>4

\* The thread that connects, and the other connections.
LEMMA WorkerOwns ==
  ASSUME OwnerInv, NEW c \in Connectors, WorkerStep(c)
  PROVE  /\ inst' = [i \in Instances |-> inst'[i]]
         /\ worker' \in [Connectors -> {"off", "calling", "ok", "err"}]
         /\ \A d \in Connectors : OnItsWay(d)'
<1> DEFINE t == Connector(c)
<1>1. /\ FramesFunction /\ t \in Threads /\ Ds(c) \in Instances /\ c # Nobody
      /\ inst = [i \in Instances |-> inst[i]] /\ OnItsWay(c)
      /\ worker \in [Connectors -> {"off", "calling", "ok", "err"}]
      /\ answer \in [Connectors -> {"empty", "ok", "err"}]
  BY ThreadsDiffer, InstancesDiffer, StartupAssumption DEF OwnerInv, StartInv
<1>2. /\ inst' = [i \in Instances |-> inst'[i]]
      /\ worker' \in [Connectors -> {"off", "calling", "ok", "err"}]
      /\ UNCHANGED <<pc, receiver, open>>
      /\ \A d \in Connectors : d # c => /\ inst'[Ds(d)] = inst[Ds(d)] /\ worker'[d] = worker[d]
                                        /\ answer'[d] = answer[d]
  <2>1. \A d \in Connectors : d # c => Ds(d) # Ds(c) /\ Ds(d) \in Instances
    BY InstancesDiffer
  <2>2. CASE WorkerCreate(c)
    BY <1>1, <2>1, <2>2 DEF WorkerCreate, Put
  <2>3. CASE WorkerConnected(c)
    BY <1>1, <2>1, <2>3 DEF WorkerConnected, Put, Destroyed
  <2>4. CASE WorkerSend(c)
    BY <1>1, <2>1, <2>4 DEF WorkerSend, Destroyed
  <2>5. CASE EnterCall(t) \/ ReturnCall(t) \/ ReadResult(t)
    BY <1>1, <2>5, StackSteps DEF EnterCall, ReturnCall, ReadResult, startVars
  <2>6. QED BY <2>2, <2>3, <2>4, <2>5 DEF WorkerStep
<1>3. ASSUME NEW d \in Connectors, d # c PROVE OnItsWay(d)'
  <2>1. frames'[Connector(d)] = frames[Connector(d)]
    BY <1>1, <1>3, WorkerCalls, ThreadsDiffer DEF OnlyCallsOf
  <2>2. OnItsWay(d)
    BY DEF OwnerInv
  <2>3. QED BY <1>2, <1>3, <2>1, <2>2, OnTheSameWay
<1>4. OnItsWay(c)'
  <2>1. CASE WorkerCreate(c)
    <3>1. worker[c] = "calling" /\ Idle(t) /\ inst[Ds(c)] = "none" /\ UNCHANGED <<pc, receiver, answer, open>>
      BY <2>1 DEF WorkerCreate
    <3>2. answer[c] = "empty" /\ c \notin open /\ ~(pc \in BeforeConnecting /\ c # receiver)
      BY <1>1, <3>1 DEF OnItsWay
    <3>3. CASE inst' = Put(Ds(c), "created") /\ frames' = Pushed(t, "connect", Ds(c)) /\ UNCHANGED worker
      <4>1. frames'[t] = <<NewCall("connect", Ds(c))>>
        BY <1>1, <3>1, <3>3, OneCall DEF Pushed, Idle, FramesFunction
      <4>2. Shallow(t)' /\ ~Idle(t)'
        BY <4>1, OneCall DEF Shallow, Idle
      <4>3. inst'[Ds(c)] = "created"
        BY <1>1, <3>3 DEF Put
      <4>4. QED BY <3>1, <3>2, <3>3, <4>2, <4>3 DEF OnItsWay
    <3>4. CASE worker' = [worker EXCEPT ![c] = "err"] /\ UNCHANGED <<inst, frames>>
      <4>1. worker'[c] = "err" /\ Shallow(t)' /\ Idle(t)'
        BY <1>1, <3>1, <3>4 DEF OnItsWay, Shallow, Idle
      <4>2. QED BY <3>1, <3>2, <3>4, <4>1 DEF OnItsWay
    <3>5. QED BY <2>1, <3>3, <3>4 DEF WorkerCreate
  <2>2. CASE WorkerConnected(c)
    <3>1. ~Idle(t) /\ UNCHANGED <<pc, receiver, answer, open>> /\ frames' = Popped(t)
      BY <2>2 DEF WorkerConnected, In
    <3>2. /\ worker[c] = "calling" /\ answer[c] = "empty" /\ c \notin open
          /\ ~(pc \in BeforeConnecting /\ c # receiver)
      BY <1>1, <3>1 DEF OnItsWay
    <3>3. frames'[t] = <<>>
      <4>1. frames[t] = <<Top(t)>>
        BY <1>1, <3>1, AtMostOne DEF OnItsWay
      <4>2. QED BY <1>1, <3>1, <4>1, OneCall DEF Popped, FramesFunction
    <3>4. Shallow(t)' /\ Idle(t)'
      BY <3>3, OneCall DEF Shallow, Idle
    <3>5. \/ worker'[c] = "ok" /\ inst'[Ds(c)] = "ready"
          \/ worker'[c] = "err" /\ inst'[Ds(c)] = "destroyed"
      BY <1>1, <2>2 DEF WorkerConnected, Put, Destroyed
    <3>6. QED BY <3>1, <3>2, <3>4, <3>5 DEF OnItsWay
  <2>3. CASE WorkerSend(c)
    <3>1. /\ worker[c] \in {"ok", "err"} /\ worker'[c] = "off" /\ UNCHANGED <<pc, receiver, open, frames>>
          /\ \/ receiver = c /\ answer'[c] = worker[c] /\ inst'[Ds(c)] = inst[Ds(c)]
             \/ /\ receiver # c /\ answer'[c] = answer[c]
                /\ inst'[Ds(c)] = IF worker[c] = "ok" THEN "destroyed" ELSE inst[Ds(c)]
      BY <1>1, <2>3 DEF WorkerSend, Destroyed
    <3>2. /\ answer[c] = "empty" /\ c \notin open /\ Idle(t) /\ Shallow(t)
          /\ ~(pc \in BeforeConnecting /\ c # receiver)
          /\ inst[Ds(c)] = "ready" <=> worker[c] = "ok"
      BY <1>1, <3>1 DEF OnItsWay
    <3>3. Shallow(t)' /\ Idle(t)'
      BY <3>1, <3>2 DEF Shallow, Idle
    <3>4. QED BY <3>1, <3>2, <3>3 DEF OnItsWay
  <2>4. CASE EnterCall(t) \/ ReturnCall(t) \/ ReadResult(t)
    <3>1. ~Idle(t) /\ ~Idle(t)' /\ Shallow(t)' /\ UNCHANGED <<startVars, inst>>
      BY <1>1, <2>4, StackSteps, ShallowSteps DEF EnterCall, ReturnCall, ReadResult, OnItsWay
    <3>2. UNCHANGED <<pc, receiver, worker, answer, open>>
      BY <3>1 DEF startVars
    <3>3. QED BY <1>1, <3>1, <3>2 DEF OnItsWay
  <2>5. QED BY <2>1, <2>2, <2>3, <2>4 DEF WorkerStep
<1>5. QED BY <1>2, <1>3, <1>4

\* Main hands a connection to a thread, takes it from the channel, or drops
\* what is in there; else it touches none.
LEMMA MainTouches ==
  ASSUME OwnerInv, MainStep
  PROVE  /\ inst' = [i \in Instances |-> inst'[i]]
         /\ \/ /\ pc = "connect" /\ pc' = "await" /\ receiver' \in required \ open
               /\ worker' = [worker EXCEPT ![receiver'] = "calling"]
               /\ UNCHANGED <<inst, answer, open>>
            \/ pc = "await" /\ Receive
            \/ pc = "timed_out" /\ GiveUp
            \/ /\ UNCHANGED <<receiver, worker, answer, open>>
               /\ \A c \in Connectors : inst'[Ds(c)] = inst[Ds(c)]
               /\ pc' \in BeforeConnecting => pc \in BeforeConnecting
<1>1. inst = [i \in Instances |-> inst[i]] /\ Main \in Threads /\ FramesFunction
  BY ThreadsDiffer DEF OwnerInv, StartInv
<1>2. CASE /\ UNCHANGED <<receiver, worker, answer, open>>
           /\ pc' \in BeforeConnecting => pc \in BeforeConnecting
           /\ \/ UNCHANGED inst
              \/ \E j, s, v : inst' = Put(Etl(j, s), v)
              \/ \E is : inst' = Destroyed(is) /\ \A c \in Connectors : Ds(c) \notin is
  BY <1>2, OnlyProcessors
<1>3. CASE ConnectNext
  <2>1. \A i \in DOMAIN connections : connections[i].key \in required
    BY DEF required
  <2>2. UNCHANGED <<inst, answer, open>> /\ pc = "connect"
    BY <1>3 DEF ConnectNext, callVars
  <2>3. \/ UNCHANGED <<receiver, worker>> /\ pc' \in {"etl", "exiting"}
        \/ /\ pc' = "await" /\ receiver' \in required \ open
           /\ worker' = [worker EXCEPT ![receiver'] = "calling"]
    BY <1>3, <2>1 DEF ConnectNext
  <2>4. QED BY <1>1, <1>2, <2>2, <2>3 DEF BeforeConnecting
<1>4. CASE Receive
  BY <1>1, <1>4 DEF Receive, callVars
<1>5. CASE GiveUp
  BY <1>1, <1>5 DEF GiveUp, Destroyed
<1>6. CASE LoadConfig \/ LoadPlugins \/ Timeout \/ Fatal \/ LoadEtlPlugins \/ LoadJobs \/ Park
  <2>1. UNCHANGED <<receiver, worker, answer, open, inst>> /\ (pc' \in BeforeConnecting => pc \in BeforeConnecting)
    BY <1>6 DEF LoadConfig, LoadPlugins, Timeout, Fatal, LoadEtlPlugins, LoadJobs, Park, Goto,
       BeforeConnecting, callVars
  <2>2. QED BY <1>2, <2>1
<1>7. CASE BuildStep \/ StepConfigured \/ SpawnJob
  <2>1. UNCHANGED <<receiver, worker, answer, open>> /\ pc' \in {pc, "exiting"}
    BY <1>7 DEF BuildStep, StepConfigured, SpawnJob, BuildFails
  <2>2. pc' \in BeforeConnecting => pc \in BeforeConnecting
    BY <2>1 DEF BeforeConnecting
  <2>3. \A j, s : \A c \in Connectors : Ds(c) # Etl(j, s)
    BY InstancesDiffer
  <2>4. BuildFails => \E is : inst' = Destroyed(is) /\ \A c \in Connectors : Ds(c) \notin is
    BY <2>3 DEF BuildFails
  <2>5. UNCHANGED inst \/ (\E v : inst' = Put(Here, v)) \/ BuildFails
    BY <1>7 DEF BuildStep, StepConfigured, SpawnJob
  <2>6. QED BY <1>2, <2>1, <2>2, <2>4, <2>5 DEF Here
<1>8. CASE EnterCall(Main) \/ ReturnCall(Main) \/ ReadResult(Main)
  <2>1. UNCHANGED <<startVars, inst>>
    BY <1>1, <1>8, StackSteps DEF EnterCall, ReturnCall, ReadResult
  <2>2. QED BY <1>2, <2>1 DEF startVars
<1>9. QED BY <1>3, <1>4, <1>5, <1>6, <1>7, <1>8 DEF MainStep

LEMMA MainOwns ==
  ASSUME OwnerInv, MainStep
  PROVE  /\ inst' = [i \in Instances |-> inst'[i]]
         /\ worker' \in [Connectors -> {"off", "calling", "ok", "err"}]
         /\ \A c \in Connectors : OnItsWay(c)'
<1>1. /\ StartInv /\ worker \in [Connectors -> {"off", "calling", "ok", "err"}]
      /\ answer \in [Connectors -> {"empty", "ok", "err"}]
      /\ required \subseteq Connectors /\ Nobody \notin Connectors
      /\ (receiver # Nobody <=> pc \in {"await", "timed_out"})
      /\ pc \in {"await", "timed_out"} => receiver \in required \ open
      /\ inst' = [i \in Instances |-> inst'[i]]
  BY MainTouches, StartupAssumption DEF OwnerInv, StartInv
<1>2. \A c \in Connectors : OnItsWay(c) /\ frames'[Connector(c)] = frames[Connector(c)]
  BY MainCalls, ThreadsDiffer DEF OwnerInv, StartInv, OnlyCallsOf
<1>3. CASE /\ pc = "connect" /\ pc' = "await" /\ receiver' \in required \ open
           /\ worker' = [worker EXCEPT ![receiver'] = "calling"]
           /\ UNCHANGED <<inst, answer, open>>
  <2>1. receiver = Nobody /\ receiver' \in Connectors
    BY <1>1, <1>3
  <2>2. ASSUME NEW c \in Connectors, c = receiver' PROVE OnItsWay(c)'
    <3>1. /\ worker[c] = "off" /\ answer[c] = "empty" /\ inst[Ds(c)] = "none"
          /\ Idle(Connector(c)) /\ Shallow(Connector(c))
      BY <1>1, <1>2, <1>3, <2>1, <2>2 DEF OnItsWay, BeforeConnecting
    <3>2. worker'[c] = "calling" /\ Idle(Connector(c))' /\ Shallow(Connector(c))'
      BY <1>1, <1>2, <1>3, <2>2, <3>1 DEF Idle, Shallow
    <3>3. QED BY <1>1, <1>3, <2>2, <3>1, <3>2 DEF OnItsWay
  <2>3. ASSUME NEW c \in Connectors, c # receiver' PROVE OnItsWay(c)'
    <3>1. worker'[c] = worker[c] /\ answer[c] = "empty"
      BY <1>1, <1>2, <1>3, <2>1, <2>3 DEF OnItsWay
    <3>2. QED BY <1>1, <1>2, <1>3, <2>1, <3>1, OnTheSameWay DEF BeforeConnecting
  <2>4. QED BY <1>1, <1>3, <2>1, <2>2, <2>3
<1>4. CASE pc = "await" /\ Receive
  <2>1. /\ receiver \in Connectors \ open /\ receiver' = Nobody /\ UNCHANGED <<worker, inst>>
        /\ answer[receiver] \in {"ok", "err"} /\ answer' = [answer EXCEPT ![receiver] = "empty"]
        /\ \/ answer[receiver] = "ok" /\ open' = open \cup {receiver} /\ pc' = "connect"
           \/ answer[receiver] = "err" /\ open' = open /\ pc' = "exiting"
    BY <1>1, <1>4 DEF Receive, Goto, callVars
  <2>2. ASSUME NEW c \in Connectors, c = receiver PROVE OnItsWay(c)'
    <3>1. /\ worker[c] = "off" /\ Idle(Connector(c)) /\ Shallow(Connector(c))
          /\ inst[Ds(c)] = "ready" <=> answer[c] = "ok"
      BY <1>1, <1>2, <2>1, <2>2 DEF OnItsWay
    <3>2. Idle(Connector(c))' /\ Shallow(Connector(c))' /\ answer'[c] = "empty"
      BY <1>1, <1>2, <2>1, <2>2, <3>1 DEF Idle, Shallow
    <3>3. QED BY <2>1, <2>2, <3>1, <3>2 DEF OnItsWay, BeforeConnecting
  <2>3. ASSUME NEW c \in Connectors, c # receiver PROVE OnItsWay(c)'
    <3>1. answer[c] = "empty" /\ answer'[c] = answer[c] /\ (c \in open' <=> c \in open)
      BY <1>1, <1>2, <2>1, <2>3 DEF OnItsWay
    <3>2. QED BY <1>1, <1>2, <1>4, <2>1, <2>3, <3>1, OnTheSameWay DEF BeforeConnecting
  <2>4. QED BY <1>1, <2>1, <2>2, <2>3
<1>5. CASE pc = "timed_out" /\ GiveUp
  <2>1. /\ receiver \in Connectors \ open /\ receiver' = Nobody /\ UNCHANGED <<worker, open>>
        /\ answer' = [answer EXCEPT ![receiver] = "empty"] /\ pc' = "exiting"
        /\ inst' = IF answer[receiver] = "ok" THEN Destroyed({Ds(receiver)}) ELSE inst
    BY <1>1, <1>5 DEF GiveUp
  <2>2. ASSUME NEW c \in Connectors, c = receiver PROVE OnItsWay(c)'
    <3>1. Ds(c) \in Instances /\ answer'[c] = "empty" /\ (Idle(Connector(c))' <=> Idle(Connector(c)))
          /\ Shallow(Connector(c))'
      BY <1>1, <1>2, <2>1, <2>2, InstancesDiffer DEF OnItsWay, Shallow, Idle
    <3>2. CASE answer[c] = "ok"
      <4>1. inst'[Ds(c)] = "destroyed"
        BY <2>1, <2>2, <3>1, <3>2 DEF Destroyed
      <4>2. worker[c] = "off" /\ Idle(Connector(c))
        BY <1>1, <1>2, <3>2 DEF OnItsWay
      <4>3. QED BY <2>1, <2>2, <3>1, <4>1, <4>2 DEF OnItsWay, BeforeConnecting
    <3>3. CASE answer[c] # "ok"
      BY <1>1, <1>2, <2>1, <2>2, <3>1, <3>3 DEF OnItsWay, BeforeConnecting
    <3>4. QED BY <3>2, <3>3
  <2>3. ASSUME NEW c \in Connectors, c # receiver PROVE OnItsWay(c)'
    <3>1. answer[c] = "empty" /\ answer'[c] = answer[c]
      BY <1>1, <1>2, <2>1, <2>3 DEF OnItsWay
    <3>2. inst'[Ds(c)] = inst[Ds(c)]
      BY <1>1, <2>1, <2>3, InstancesDiffer DEF Destroyed
    <3>3. QED BY <1>2, <2>1, <3>1, <3>2, OnTheSameWay DEF BeforeConnecting
  <2>4. QED BY <1>1, <2>1, <2>2, <2>3
<1>6. CASE /\ UNCHANGED <<receiver, worker, answer, open>>
           /\ \A c \in Connectors : inst'[Ds(c)] = inst[Ds(c)]
           /\ pc' \in BeforeConnecting => pc \in BeforeConnecting
  <2>1. ASSUME NEW c \in Connectors PROVE OnItsWay(c)'
    BY <1>2, <1>6, OnTheSameWay
  <2>2. QED BY <1>1, <1>6, <2>1
<1>7. QED BY <1>3, <1>4, <1>5, <1>6, MainTouches

LEMMA OwnerStep ==
  ASSUME OwnerInv, [StartupNext]_<<startVars, callVars>>
  PROVE  OwnerInv'
<1>1. StartInv'
  BY StartStep DEF OwnerInv
<1>2. CASE UNCHANGED <<startVars, callVars>>
  BY <1>1, <1>2 DEF OwnerInv, OnItsWay, Shallow, Idle, startVars, callVars
<1>3. CASE MainStep
  BY <1>1, <1>3, MainOwns DEF OwnerInv
<1>4. ASSUME NEW c \in Connectors, WorkerStep(c) PROVE OwnerInv'
  BY <1>1, <1>4, WorkerOwns DEF OwnerInv
<1>5. ASSUME NEW j \in JobNames, JobStep(j) PROVE OwnerInv'
  <2>1. UNCHANGED <<inst, pc, receiver, worker, answer, open>> /\ OnlyCallsOf(JobThread(j))
    BY <1>5, JobCalls DEF OwnerInv, StartInv, startVars
  <2>2. ASSUME NEW c \in Connectors PROVE OnItsWay(c)'
    <3>1. frames'[Connector(c)] = frames[Connector(c)] /\ OnItsWay(c)
      BY <2>1, ThreadsDiffer DEF OnlyCallsOf, OwnerInv
    <3>2. QED BY <2>1, <3>1, OnTheSameWay
  <2>3. QED BY <1>1, <2>1, <2>2 DEF OwnerInv
<1>6. QED BY <1>2, <1>3, <1>4, <1>5 DEF StartupNext

LEMMA OwnersInitially == StartupInit => OwnerInv
<1> SUFFICES ASSUME StartupInit PROVE OwnerInv
  OBVIOUS
<1>1. FramesFunction /\ \A t \in Threads : Idle(t) /\ Shallow(t)
  BY OneCall DEF StartupInit, CallsInit, FramesFunction, Idle, Shallow
<1>2. inst = [i \in Instances |-> inst[i]] /\ \A c \in Connectors : inst[Ds(c)] = "none"
  BY InstancesDiffer DEF StartupInit, CallsInit
<1>3. \A c \in Connectors : OnItsWay(c)
  BY <1>1, <1>2, ThreadsDiffer DEF StartupInit, OnItsWay
<1>4. QED BY <1>2, <1>3, StartInitially DEF StartupInit, OwnerInv

(* The instance of a connection always has exactly one owner, for any      *)
(* installation and however late the answer of a driver comes.             *)
THEOREM InstancesHaveOneOwner == StartupSpec => []OneInstanceOneOwner
<1>1. OwnerInv /\ [StartupNext]_<<startVars, callVars>> => OwnerInv'
  BY OwnerStep
<1>2. QED BY <1>1, OwnersInitially, WayImpliesOwner, PTL DEF StartupSpec

-----------------------------------------------------------------------------
(* What main has read, and what it makes of it.                            *)

\* What the loaders give.
LEMMA AtLeastIsAtLeast ==
  ASSUME NEW low \in Int, NEW i \in Int
  PROVE  AtLeast(low, i) \in Int /\ AtLeast(low, i) >= low
BY DEF AtLeast

LEMMA SettingsOfFile ==
  ASSUME NEW i \in DOMAIN Worlds, AcceptsConfig(Worlds[i].main)
  PROVE  LET a == AppConfig(Worlds[i].main)
         IN  /\ a.workers >= 1 /\ a.page_size >= 1 /\ a.retry \in 0..(U32 - 1)
             /\ a.page_size \in Int /\ IsList(a.job_files)
<1> DEFINE cfg == Worlds[i].main
           runtime == At(cfg, "runtime")
<1>1. /\ IsList(AppConfig(cfg).job_files)
      /\ \A key \in {"workers", "retry", "page_size"} : IntOr(At(runtime, key), 0) \in Int
  BY FilesAssumption
<1>2. \A key \in {"workers", "retry", "page_size"} : \A d \in Int : IntOr(At(runtime, key), d) \in Int
  BY <1>1 DEF IntOr
<1>3. /\ AppConfig(cfg).workers = AtLeast(1, IntOr(At(runtime, "workers"), 4))
      /\ AppConfig(cfg).retry = AtLeast(0, IntOr(At(runtime, "retry"), 3)) % U32
      /\ AppConfig(cfg).page_size = AtLeast(1, IntOr(At(runtime, "page_size"), 500))
  BY DEF AppConfig, Configured
<1>4. \A n \in Int : n >= 0 => n % U32 \in 0..(U32 - 1)
  BY ConfigAssumption
<1>5. AppConfig(cfg).workers >= 1 /\ AppConfig(cfg).page_size >= 1 /\ AppConfig(cfg).page_size \in Int
  BY <1>2, <1>3, AtLeastIsAtLeast
<1>6. AppConfig(cfg).retry \in 0..(U32 - 1)
  <2>1. IntOr(At(runtime, "retry"), 3) \in Int
    BY <1>2
  <2>2. AtLeast(0, IntOr(At(runtime, "retry"), 3)) \in Int /\ AtLeast(0, IntOr(At(runtime, "retry"), 3)) >= 0
    <3> HIDE DEF runtime
    <3>1. \A n \in Int : AtLeast(0, n) \in Int /\ AtLeast(0, n) >= 0
      BY AtLeastIsAtLeast
    <3>2. QED BY <2>1, <3>1
  <2>3. QED BY <1>3, <1>4, <2>2
<1>7. QED BY <1>1, <1>5, <1>6

LEMMA JobOfFile ==
  ASSUME NEW i \in DOMAIN Worlds, NEW f \in DOMAIN Worlds[i].files, AcceptsJob(Worlds[i].files[f])
  PROVE  LET job == Job(Worlds[i].files[f])
         IN  /\ job.name \in JobNames /\ IsList(job.etl)
             /\ \A s \in DOMAIN job.etl : job.etl[s].kind = "plugin" => Etl(job.name, s) \in Processors
             /\ job.writers >= 1 /\ job.mode \in SyncModes
             /\ job.source.batch_limit \in Int /\ job.source.batch_limit >= 0
<1> DEFINE y == Worlds[i].files[f]
<1>1. /\ Job(y).name \in JobNames
      /\ \A s \in DOMAIN Job(y).etl : Job(y).etl[s].kind = "plugin" => Etl(Job(y).name, s) \in Processors
  BY StartupAssumption
<1>2. /\ IsList(Job(y).etl) /\ IntOr(At(y, "writers"), 0) \in Int
      /\ IntOr(At(At(y, "source"), "batch_limit"), 0) \in Int
  BY FilesAssumption
<1>3. IntOr(At(y, "writers"), 1) \in Int
  BY <1>2 DEF IntOr
<1>4. /\ Job(y).writers = AtLeast(1, IntOr(At(y, "writers"), 1))
      /\ Job(y).mode = Lowercase(StrOr(At(At(y, "sync"), "mode"), "upsert"))
      /\ Job(y).source.batch_limit = AtLeast(0, IntOr(At(At(y, "source"), "batch_limit"), 0))
  BY DEF Job
<1>5. Job(y).mode \in SyncModes
  BY <1>4 DEF AcceptsJob
<1>6. QED BY <1>1, <1>2, <1>3, <1>4, <1>5, AtLeastIsAtLeast

\* Where main has not read all files yet.
Reading == {"config", "plugins", "connect", "await", "timed_out", "etl", "jobs"}

NamesDiffer == \A i, k \in DOMAIN jobs : i # k => jobs[i].name # jobs[k].name

\* The jobs are those of accepted files.  The enabled ones before the one
\* that main is building have a thread, and no other.
JobsInv ==
    /\ StartInv
    /\ pc \notin {"config", "exiting", "dead"} => AcceptsConfig(world.main) /\ app = AppConfig(world.main)
    /\ DOMAIN jobs \subseteq Nat \ {0}
    /\ \A i \in DOMAIN jobs : \E f \in DOMAIN world.files :
          AcceptsJob(world.files[f]) /\ jobs[i] = Job(world.files[f])
    /\ pc \in {"spawn", "serving"} \/ spawned # {} => NamesDiffer
    /\ building \in [job : Nat \ {0}, step : Nat \ {0}]
    /\ pc \in Reading => building = [job |-> 1, step |-> 1]
    /\ spawned = {jobs[i].name : i \in {k \in DOMAIN jobs : k < building.job /\ jobs[k].enabled}}

LEMMA JobsAreFiles ==
  ASSUME JobsInv, NEW i \in DOMAIN jobs
  PROVE  /\ jobs[i].name \in JobNames /\ IsList(jobs[i].etl) /\ DOMAIN jobs[i].etl \subseteq Nat \ {0}
         /\ \A s \in DOMAIN jobs[i].etl :
               jobs[i].etl[s].kind = "plugin" => Etl(jobs[i].name, s) \in Processors
         /\ jobs[i].writers >= 1 /\ jobs[i].mode \in SyncModes
         /\ jobs[i].source.batch_limit \in Int /\ jobs[i].source.batch_limit >= 0
<1>1. PICK w \in DOMAIN Worlds : world = Worlds[w]
  BY DEF JobsInv, StartInv
<1>2. PICK f \in DOMAIN Worlds[w].files :
          AcceptsJob(Worlds[w].files[f]) /\ jobs[i] = Job(Worlds[w].files[f])
  BY <1>1 DEF JobsInv
<1>3. IsList(jobs[i].etl) => DOMAIN jobs[i].etl \subseteq Nat \ {0}
  BY DEF IsList
<1>4. QED BY <1>2, <1>3, JobOfFile

\* The job that main is building.
LEMMA NextJobIsNext ==
  ASSUME JobsInv, EnabledFrom(building.job) # {}
  PROVE  /\ NextJob \in DOMAIN jobs /\ jobs[NextJob].enabled
         /\ NextJob \in Nat /\ building.job <= NextJob
         /\ \A k \in DOMAIN jobs : jobs[k].enabled /\ k < NextJob => k < building.job
         /\ pc = "spawn" => TheJob.name \notin spawned
<1>1. DOMAIN jobs \subseteq Nat \ {0} /\ building.job \in Nat
  BY DEF JobsInv
<1>2. EnabledFrom(building.job) \subseteq Nat
  BY <1>1 DEF EnabledFrom
<1>3. NextJob \in EnabledFrom(building.job) /\ \A k \in EnabledFrom(building.job) : NextJob <= k
  BY <1>2, LeastIsMin DEF NextJob
<1>4. /\ NextJob \in DOMAIN jobs /\ jobs[NextJob].enabled /\ NextJob \in Nat /\ building.job <= NextJob
      /\ \A k \in DOMAIN jobs : jobs[k].enabled /\ k < NextJob => k < building.job
  BY <1>1, <1>3 DEF EnabledFrom
<1>5. ASSUME pc = "spawn", TheJob.name \in spawned PROVE FALSE
  <2>1. PICK k \in DOMAIN jobs : k < building.job /\ TheJob.name = jobs[k].name
    BY <1>5 DEF JobsInv
  <2>2. k # NextJob
    BY <1>1, <1>4, <2>1
  <2>3. QED BY <1>4, <1>5, <2>1, <2>2 DEF JobsInv, NamesDiffer, TheJob
<1>6. QED BY <1>4, <1>5

LEMMA JobsStep ==
  ASSUME JobsInv, [StartupNext]_<<startVars, callVars>>
  PROVE  JobsInv'
<1>1. StartInv' /\ StartInv
  BY StartStep DEF JobsInv
<1>2. ASSUME UNCHANGED <<world, app, jobs, building, spawned>>,
             pc' \notin {"config", "exiting", "dead"} => pc \notin {"config", "exiting", "dead"},
             pc' \in {"spawn", "serving"} => pc \in {"spawn", "serving"},
             pc' \in Reading => pc \in Reading
      PROVE  JobsInv'
  BY <1>1, <1>2 DEF JobsInv, NamesDiffer
<1>3. CASE UNCHANGED <<startVars, callVars>>
  BY <1>2, <1>3 DEF startVars, configVars
<1>4. ASSUME NEW c \in Connectors, WorkerStep(c) PROVE JobsInv'
  BY <1>2, <1>4 DEF WorkerStep, WorkerCreate, WorkerConnected, WorkerSend, EnterCall, ReturnCall,
     ReadResult, startVars, configVars
<1>5. ASSUME NEW j \in JobNames, JobStep(j) PROVE JobsInv'
  BY <1>1, <1>2, <1>5, JobCalls DEF startVars, configVars, StartInv
<1>6. CASE LoadPlugins \/ ConnectNext \/ Receive \/ Timeout \/ GiveUp \/ Fatal \/ LoadEtlPlugins \/ Park
  <2>1. UNCHANGED <<world, app, jobs, building, spawned>>
    BY <1>6 DEF LoadPlugins, ConnectNext, Receive, Timeout, GiveUp, Fatal, LoadEtlPlugins, Park, configVars
  <2>2. /\ pc' \notin {"config", "exiting", "dead"} => pc \notin {"config", "exiting", "dead"}
        /\ pc' \in {"spawn", "serving"} => pc \in {"spawn", "serving"}
        /\ pc' \in Reading => pc \in Reading
    BY <1>6 DEF LoadPlugins, ConnectNext, Receive, Timeout, GiveUp, Fatal, LoadEtlPlugins, Park, Goto,
       Reading
  <2>3. QED BY <1>2, <2>1, <2>2
<1>7. CASE EnterCall(Main) \/ ReturnCall(Main) \/ ReadResult(Main)
  BY <1>2, <1>7 DEF EnterCall, ReturnCall, ReadResult, startVars, configVars
<1>8. CASE LoadConfig
  <2>1. UNCHANGED <<world, jobs, building, spawned>> /\ pc = "config" /\ pc' \in {"plugins", "exiting"}
        /\ spawned = {}
    BY <1>1, <1>8 DEF LoadConfig, StartInv
  <2>2. pc' \notin {"config", "exiting", "dead"} => AcceptsConfig(world.main) /\ app' = AppConfig(world.main)
    BY <1>8 DEF LoadConfig, ConfigAccepted
  <2>3. QED BY <1>1, <2>1, <2>2 DEF JobsInv, NamesDiffer, Reading
<1>9. CASE LoadJobs
  <2>1. UNCHANGED <<world, app, building, spawned>> /\ pc = "jobs" /\ pc' \in {"spawn", "exiting"}
    BY <1>9 DEF LoadJobs, Goto
  <2>2. spawned = {} /\ building = [job |-> 1, step |-> 1]
    BY <1>1, <2>1 DEF JobsInv, StartInv, Reading
  <2>3. CASE UNCHANGED jobs /\ pc' = "exiting"
    BY <1>1, <2>1, <2>2, <2>3 DEF JobsInv, NamesDiffer, Reading
  <2>4. CASE ~(UNCHANGED jobs /\ pc' = "exiting")
    <3>1. /\ \A i \in DOMAIN app.job_files :
                app.job_files[i] \in DOMAIN world.files /\ AcceptsJob(world.files[app.job_files[i]])
          /\ jobs' = [i \in DOMAIN app.job_files |-> Job(world.files[app.job_files[i]])]
          /\ pc' = "spawn" => NamesDiffer'
      BY <1>9, <2>4 DEF LoadJobs, Goto, NamesDiffer
    <3>2. DOMAIN app.job_files \subseteq Nat \ {0}
      <4>1. \E w \in DOMAIN Worlds : AcceptsConfig(Worlds[w].main) /\ app = AppConfig(Worlds[w].main)
        BY <2>1 DEF JobsInv, StartInv
      <4>2. IsList(app.job_files)
        BY <4>1, SettingsOfFile
      <4>3. QED BY <4>2 DEF IsList
    <3>3. DOMAIN jobs' \subseteq Nat \ {0}
      BY <3>1, <3>2
    <3>4. \A i \in DOMAIN jobs' : ~(i < building.job)
      BY <2>2, <3>3
    <3>5. spawned' = {jobs'[i].name : i \in {k \in DOMAIN jobs' : k < building'.job /\ jobs'[k].enabled}}
      BY <2>1, <2>2, <3>4
    <3>6. \A i \in DOMAIN jobs' : \E f \in DOMAIN world.files :
             AcceptsJob(world.files[f]) /\ jobs'[i] = Job(world.files[f])
      BY <3>1
    <3>7. /\ pc' \notin {"config", "exiting", "dead"} => AcceptsConfig(world.main) /\ app = AppConfig(world.main)
          /\ pc' \in {"spawn", "serving"} => NamesDiffer'
          /\ pc' \notin Reading
      BY <2>1, <3>1 DEF JobsInv, Reading
    <3>8. QED BY <1>1, <2>1, <2>2, <3>3, <3>5, <3>6, <3>7 DEF JobsInv
  <2>5. QED BY <2>3, <2>4
<1>10. CASE BuildStep \/ StepConfigured
  <2>1. /\ UNCHANGED <<world, app, jobs, spawned>> /\ pc = "spawn" /\ pc' \in {"spawn", "exiting"}
        /\ building' \in {building, [building EXCEPT !.step = @ + 1]}
    <3>1. CASE BuildStep
      BY <3>1 DEF BuildStep, Building, BuildFails, configVars
    <3>2. CASE StepConfigured
      BY <1>1, <3>2 DEF StepConfigured, In, StartInv, BuildFails, configVars
    <3>3. QED BY <1>10, <3>1, <3>2
  <2>2. building \in [job : Nat \ {0}, step : Nat \ {0}]
    BY DEF JobsInv
  <2>3. building' \in [job : Nat \ {0}, step : Nat \ {0}] /\ building'.job = building.job
    BY <2>1, <2>2
  <2>4. QED BY <1>1, <2>1, <2>3 DEF JobsInv, NamesDiffer, Reading
<1>11. CASE SpawnJob
  <2>1. /\ UNCHANGED <<world, app, jobs>> /\ pc = "spawn" /\ pc' \in {"spawn", "exiting"}
        /\ EnabledFrom(building.job) # {}
        /\ \/ UNCHANGED <<building, spawned>>
           \/ building' = [job |-> NextJob + 1, step |-> 1] /\ spawned' = spawned \cup {TheJob.name}
    BY <1>11 DEF SpawnJob, Building, BuildFails, configVars
  <2>2. CASE UNCHANGED <<building, spawned>>
    BY <1>1, <2>1, <2>2 DEF JobsInv, NamesDiffer, Reading
  <2>3. CASE building' = [job |-> NextJob + 1, step |-> 1] /\ spawned' = spawned \cup {TheJob.name}
    <3>1. /\ NextJob \in DOMAIN jobs /\ jobs[NextJob].enabled /\ NextJob \in Nat /\ building.job <= NextJob
          /\ \A k \in DOMAIN jobs : jobs[k].enabled /\ k < NextJob => k < building.job
          /\ DOMAIN jobs \subseteq Nat /\ building.job \in Nat
      BY <2>1, NextJobIsNext DEF JobsInv
    <3>2. {k \in DOMAIN jobs : k < NextJob + 1 /\ jobs[k].enabled}
          = {k \in DOMAIN jobs : k < building.job /\ jobs[k].enabled} \cup {NextJob}
      BY <3>1
    <3>3. spawned' = {jobs[i].name : i \in {k \in DOMAIN jobs : k < NextJob + 1 /\ jobs[k].enabled}}
      BY <2>3, <3>2 DEF JobsInv, TheJob
    <3>4. building' \in [job : Nat \ {0}, step : Nat \ {0}]
      BY <2>3, <3>1
    <3>5. QED BY <1>1, <2>1, <2>3, <3>3, <3>4 DEF JobsInv, NamesDiffer, Reading
  <2>4. QED BY <2>1, <2>2, <2>3
<1>12. QED BY <1>3, <1>4, <1>5, <1>6, <1>7, <1>8, <1>9, <1>10, <1>11 DEF StartupNext, MainStep

LEMMA JobsInitially == StartupInit => JobsInv
<1> SUFFICES ASSUME StartupInit PROVE JobsInv
  OBVIOUS
<1>1. DOMAIN <<>> = {}
  OBVIOUS
<1>2. QED BY <1>1, StartInitially DEF StartupInit, JobsInv, Reading, NamesDiffer

(* What the other modules assume of the settings holds of whatever the     *)
(* loaders accept, for any files.                                          *)
THEOREM SettingsAreUsable == StartupSpec => []SettingsMeetAssumptions
<1>1. JobsInv => SettingsMeetAssumptions
  <2> SUFFICES ASSUME JobsInv, pc \in {"spawn", "serving"}
               PROVE  /\ app.workers >= 1 /\ app.page_size >= 1 /\ app.retry \in 0..(U32 - 1)
                      /\ \A i \in DOMAIN jobs :
                            /\ jobs[i].writers >= 1 /\ jobs[i].mode \in SyncModes
                            /\ (IF jobs[i].source.batch_limit > 0 THEN jobs[i].source.batch_limit
                                ELSE app.page_size) >= 1
    BY DEF SettingsMeetAssumptions
  <2>1. \E w \in DOMAIN Worlds : AcceptsConfig(Worlds[w].main) /\ app = AppConfig(Worlds[w].main)
    BY DEF JobsInv, StartInv
  <2>2. app.workers >= 1 /\ app.page_size >= 1 /\ app.retry \in 0..(U32 - 1) /\ app.page_size \in Int
    BY <2>1, SettingsOfFile
  <2>3. \A i \in DOMAIN jobs : /\ jobs[i].writers >= 1 /\ jobs[i].mode \in SyncModes
                               /\ jobs[i].source.batch_limit \in Int
    BY JobsAreFiles
  <2>4. QED BY <2>2, <2>3
<1>2. JobsInv /\ [StartupNext]_<<startVars, callVars>> => JobsInv'
  BY JobsStep
<1>3. QED BY <1>1, <1>2, JobsInitially, PTL DEF StartupSpec

-----------------------------------------------------------------------------
(* The pipelines: what main builds and the job threads then use.           *)

IsFrame(f) == f = [fn |-> f.fn, inst |-> f.inst, at |-> f.at, ok |-> f.ok, out |-> f.out]

Ready(i, s) == jobs[i].etl[s].kind = "plugin" => inst[Etl(jobs[i].name, s)] = "ready"

\* The plugin steps of the jobs that have a thread are ready, and so are the
\* steps of the next job up to the one main is at, which main may be just
\* configuring.
BuiltInv ==
    /\ JobsInv /\ OwnerInv
    /\ \A i \in DOMAIN jobs : jobs[i].enabled /\ i < building.job => \A s \in DOMAIN jobs[i].etl : Ready(i, s)
    /\ pc = "spawn" /\ EnabledFrom(building.job) # {} =>
          \A s \in DOMAIN TheJob.etl : s < building.step => Ready(NextJob, s)
    /\ ~Idle(Main) =>
          /\ EnabledFrom(building.job) # {} /\ building.step \in DOMAIN TheJob.etl
          /\ TheStep.kind = "plugin" /\ inst[Here] = "created"
          /\ IsFrame(Top(Main)) /\ Top(Main).fn = "configure" /\ Top(Main).inst = Here

LEMMA ProcessorsDiffer ==
  /\ \A p \in Processors : p \in Instances /\ p \notin Datasources
  /\ \A p \in Processors : \A c \in Connectors : p # Ds(c)
  /\ \A i, k, s, r : i # k \/ s # r => Etl(i, s) # Etl(k, r)
BY PluginCallsAssumption, InstancesDiffer DEF Instances, Etl

\* A frame in another place.
LEMMA OneField ==
  ASSUME NEW f, IsFrame(f), NEW x
  PROVE  /\ [f EXCEPT !.at = x] = [fn |-> f.fn, inst |-> f.inst, at |-> x, ok |-> f.ok, out |-> f.out]
         /\ [f EXCEPT !.ok = x] = [fn |-> f.fn, inst |-> f.inst, at |-> f.at, ok |-> x, out |-> f.out]
         /\ [f EXCEPT !.out = x] = [fn |-> f.fn, inst |-> f.inst, at |-> f.at, ok |-> f.ok, out |-> x]
<1> DEFINE g == [fn |-> f.fn, inst |-> f.inst, at |-> f.at, ok |-> f.ok, out |-> f.out]
<1>1. f = g
  BY DEF IsFrame
<1>2. [g EXCEPT !.at = x] = [fn |-> f.fn, inst |-> f.inst, at |-> x, ok |-> f.ok, out |-> f.out]
  OBVIOUS
<1>3. [g EXCEPT !.ok = x] = [fn |-> f.fn, inst |-> f.inst, at |-> f.at, ok |-> x, out |-> f.out]
  OBVIOUS
<1>4. [g EXCEPT !.out = x] = [fn |-> f.fn, inst |-> f.inst, at |-> f.at, ok |-> f.ok, out |-> x]
  OBVIOUS
<1> HIDE DEF g
<1>5. QED BY <1>1, <1>2, <1>3, <1>4

LEMMA FrameReturns ==
  ASSUME NEW f, IsFrame(f), NEW ok, NEW out
  PROVE  [f EXCEPT !.at = "returned", !.ok = ok, !.out = out]
            = [fn |-> f.fn, inst |-> f.inst, at |-> "returned", ok |-> ok, out |-> out]
<1> DEFINE g == [fn |-> f.fn, inst |-> f.inst, at |-> "returned", ok |-> f.ok, out |-> f.out]
           h == [fn |-> f.fn, inst |-> f.inst, at |-> "returned", ok |-> ok, out |-> f.out]
<1>1. [f EXCEPT !.at = "returned"] = g
  BY OneField
<1>2. [g EXCEPT !.ok = ok] = h
  OBVIOUS
<1>3. [h EXCEPT !.out = out] = [fn |-> f.fn, inst |-> f.inst, at |-> "returned", ok |-> ok, out |-> out]
  OBVIOUS
<1>4. [f EXCEPT !.at = "returned", !.ok = ok, !.out = out]
         = [[[f EXCEPT !.at = "returned"] EXCEPT !.ok = ok] EXCEPT !.out = out]
  OBVIOUS
<1> HIDE DEF g, h
<1>5. QED BY <1>1, <1>2, <1>3, <1>4

LEMMA FrameIsRead ==
  ASSUME NEW f, IsFrame(f)
  PROVE  [f EXCEPT !.at = "done", !.out = NoString]
            = [fn |-> f.fn, inst |-> f.inst, at |-> "done", ok |-> f.ok, out |-> NoString]
<1> DEFINE g == [fn |-> f.fn, inst |-> f.inst, at |-> "done", ok |-> f.ok, out |-> f.out]
<1>1. [f EXCEPT !.at = "done"] = g
  BY OneField
<1>2. [g EXCEPT !.out = NoString] = [fn |-> f.fn, inst |-> f.inst, at |-> "done", ok |-> f.ok, out |-> NoString]
  OBVIOUS
<1>3. [f EXCEPT !.at = "done", !.out = NoString] = [[f EXCEPT !.at = "done"] EXCEPT !.out = NoString]
  OBVIOUS
<1> HIDE DEF g
<1>4. QED BY <1>1, <1>2, <1>3

\* A step of a call keeps what the call is, and on what instance.
LEMMA Relabelled ==
  ASSUME NEW t, IsFrame(Top(t)), Enter(t) \/ (\E ok \in BOOLEAN : Return(t, ok)) \/ ReadOut(t)
  PROVE  \E g : IsFrame(g) /\ g.fn = Top(t).fn /\ g.inst = Top(t).inst /\ frames' = SetTop(t, g)
<1>1. CASE Enter(t)
  <2> DEFINE g == [Top(t) EXCEPT !.at = "inside"]
  <2>1. g = [fn |-> Top(t).fn, inst |-> Top(t).inst, at |-> "inside", ok |-> Top(t).ok, out |-> Top(t).out]
    BY OneField
  <2>2. QED BY <1>1, <2>1 DEF Enter, IsFrame
<1>2. ASSUME NEW ok \in BOOLEAN, Return(t, ok)
      PROVE  \E g : IsFrame(g) /\ g.fn = Top(t).fn /\ g.inst = Top(t).inst /\ frames' = SetTop(t, g)
  <2> DEFINE G(out) == [fn |-> Top(t).fn, inst |-> Top(t).inst, at |-> "returned", ok |-> ok, out |-> out]
  <2>1. \A k, out : [Top(t) EXCEPT !.at = "returned", !.ok = k, !.out = out]
                     = [fn |-> Top(t).fn, inst |-> Top(t).inst, at |-> "returned", ok |-> k, out |-> out]
    BY FrameReturns
  <2>2. PICK out : frames' = SetTop(t, G(out))
    BY <1>2, <2>1 DEF Return
  <2>3. IsFrame(G(out)) /\ G(out).fn = Top(t).fn /\ G(out).inst = Top(t).inst
    BY DEF IsFrame
  <2>4. QED BY <2>2, <2>3
<1>3. CASE ReadOut(t)
  <2> DEFINE g == [Top(t) EXCEPT !.at = "done", !.out = NoString]
  <2>1. g = [fn |-> Top(t).fn, inst |-> Top(t).inst, at |-> "done", ok |-> Top(t).ok, out |-> NoString]
    BY FrameIsRead
  <2>2. QED BY <1>3, <2>1 DEF ReadOut, Read, IsFrame
<1>4. QED BY <1>1, <1>2, <1>3

\* Steps that leave main's call, the jobs and their processors alone.
LEMMA SamePipelines ==
  ASSUME BuiltInv, JobsInv', OwnerInv',
         \A p \in Processors : inst'[p] = inst[p],
         UNCHANGED <<jobs, building>>, frames'[Main] = frames[Main],
         pc' = "spawn" => pc = "spawn"
  PROVE  BuiltInv'
<1>1. \A i \in DOMAIN jobs : \A s \in DOMAIN jobs[i].etl :
         jobs[i].etl[s].kind = "plugin" => Etl(jobs[i].name, s) \in Processors
  BY JobsAreFiles DEF BuiltInv
<1>2. \A i \in DOMAIN jobs : \A s \in DOMAIN jobs[i].etl : Ready(i, s) => Ready(i, s)'
  BY <1>1 DEF Ready
<1>3. EnabledFrom(building.job)' = EnabledFrom(building.job) /\ NextJob' = NextJob /\ TheJob' = TheJob
      /\ TheStep' = TheStep /\ Here' = Here
  BY DEF EnabledFrom, NextJob, TheJob, TheStep, Here
<1>4. EnabledFrom(building.job) # {} => NextJob \in DOMAIN jobs
  BY NextJobIsNext DEF BuiltInv
<1>5. pc' = "spawn" /\ EnabledFrom(building.job)' # {} =>
          \A s \in DOMAIN TheJob'.etl : s < building'.step => Ready(NextJob, s)'
  BY <1>2, <1>3, <1>4 DEF BuiltInv, TheJob
<1>6. \A i \in DOMAIN jobs : jobs[i].enabled /\ i < building.job => \A s \in DOMAIN jobs[i].etl : Ready(i, s)'
  BY <1>2 DEF BuiltInv
<1>7. ASSUME ~Idle(Main) PROVE inst'[Here] = "created"
  <2>1. NextJob \in DOMAIN jobs /\ building.step \in DOMAIN jobs[NextJob].etl
        /\ jobs[NextJob].etl[building.step].kind = "plugin" /\ inst[Here] = "created"
    BY <1>4, <1>7 DEF BuiltInv, TheJob, TheStep
  <2>2. Here \in Processors
    BY <1>1, <2>1 DEF Here, TheJob
  <2>3. QED BY <2>1, <2>2
<1>8. ~Idle(Main)' =>
          /\ EnabledFrom(building.job)' # {} /\ building'.step \in DOMAIN TheJob'.etl
          /\ TheStep'.kind = "plugin" /\ inst'[Here'] = "created"
          /\ IsFrame(Top(Main)') /\ Top(Main)'.fn = "configure" /\ Top(Main)'.inst = Here'
  BY <1>3, <1>7 DEF BuiltInv, Idle, Top
<1>9. QED BY <1>3, <1>5, <1>6, <1>8 DEF BuiltInv, IsFrame

\* Outside the building of pipelines no processor is touched.
LEMMA ProcessorsKept ==
  ASSUME OwnerInv,
         \/ UNCHANGED inst
         \/ \E c \in Connectors : \/ \E v : inst' = Put(Ds(c), v)
                                  \/ inst' = Destroyed({Ds(c)})
  PROVE  \A p \in Processors : inst'[p] = inst[p]
<1>1. /\ inst = [i \in Instances |-> inst[i]]
      /\ \A p \in Processors : p \in Instances /\ \A c \in Connectors : p # Ds(c)
  BY ProcessorsDiffer DEF OwnerInv
<1>2. CASE UNCHANGED inst
  BY <1>2
<1>3. ASSUME NEW c \in Connectors, NEW v, inst' = Put(Ds(c), v) PROVE \A p \in Processors : inst'[p] = inst[p]
  BY <1>1, <1>3 DEF Put
<1>4. ASSUME NEW c \in Connectors, inst' = Destroyed({Ds(c)}) PROVE \A p \in Processors : inst'[p] = inst[p]
  BY <1>1, <1>4 DEF Destroyed
<1>5. QED BY <1>2, <1>3, <1>4

\* Where nothing is built yet, whatever the jobs are.
LEMMA NothingBuilt ==
  JobsInv /\ building = [job |-> 1, step |-> 1] =>
    /\ \A i \in DOMAIN jobs : jobs[i].enabled /\ i < building.job => \A s \in DOMAIN jobs[i].etl : Ready(i, s)
    /\ pc = "spawn" /\ EnabledFrom(building.job) # {} =>
          \A s \in DOMAIN TheJob.etl : s < building.step => Ready(NextJob, s)
<1> SUFFICES ASSUME JobsInv, building = [job |-> 1, step |-> 1]
             PROVE  /\ \A i \in DOMAIN jobs : ~(i < building.job)
                    /\ EnabledFrom(building.job) # {} => \A s \in DOMAIN TheJob.etl : ~(s < building.step)
  OBVIOUS
<1>1. \A i \in DOMAIN jobs : ~(i < building.job)
  BY DEF JobsInv
<1>2. ASSUME EnabledFrom(building.job) # {}, NEW s \in DOMAIN TheJob.etl PROVE ~(s < building.step)
  <2>1. NextJob \in DOMAIN jobs
    BY <1>2, NextJobIsNext
  <2>2. s \in Nat \ {0}
    BY <1>2, <2>1, JobsAreFiles DEF TheJob
  <2>3. QED BY <2>2
<1>3. QED BY <1>1, <1>2

LEMMA NothingBuiltNext ==
  ASSUME JobsInv', OwnerInv', building' = [job |-> 1, step |-> 1], Idle(Main)'
  PROVE  BuiltInv'
<1>1. (/\ \A i \in DOMAIN jobs : jobs[i].enabled /\ i < building.job => \A s \in DOMAIN jobs[i].etl : Ready(i, s)
       /\ pc = "spawn" /\ EnabledFrom(building.job) # {} =>
            \A s \in DOMAIN TheJob.etl : s < building.step => Ready(NextJob, s))'
  <2>1. (JobsInv /\ building = [job |-> 1, step |-> 1])'
    OBVIOUS
  <2>2. QED BY <2>1, NothingBuilt, PTL
<1>2. QED BY <1>1 DEF BuiltInv

\* While main builds, the next job stays the next, and is none of those that
\* have a thread.
LEMMA NextJobStays ==
  ASSUME BuiltInv, pc = "spawn", EnabledFrom(building.job) # {}, UNCHANGED jobs, building'.job = building.job
  PROVE  /\ NextJob' = NextJob /\ TheJob' = TheJob /\ EnabledFrom(building.job)' = EnabledFrom(building.job)
         /\ NextJob \in DOMAIN jobs /\ TheJob = jobs[NextJob] /\ DOMAIN TheJob.etl \subseteq Nat \ {0}
         /\ IsList(TheJob.etl)
         /\ \A s \in DOMAIN TheJob.etl : TheJob.etl[s].kind = "plugin" => Etl(TheJob.name, s) \in Processors
         /\ building \in [job : Nat \ {0}, step : Nat \ {0}]
<1>1. /\ NextJob' = NextJob /\ TheJob' = TheJob /\ EnabledFrom(building.job)' = EnabledFrom(building.job)
      /\ TheJob = jobs[NextJob]
  BY DEF NextJob, TheJob, EnabledFrom
<1>2. NextJob \in DOMAIN jobs
  BY NextJobIsNext DEF BuiltInv
<1>3. QED BY <1>1, <1>2, JobsAreFiles DEF BuiltInv, JobsInv

LEMMA OthersStayReady ==
  ASSUME BuiltInv, pc = "spawn", EnabledFrom(building.job) # {}, UNCHANGED jobs,
         UNCHANGED inst \/ (\E v : inst' = Put(Here, v)) \/ BuildFails,
         NEW i \in DOMAIN jobs, jobs[i].enabled, i < building.job, NEW s \in DOMAIN jobs[i].etl
  PROVE  Ready(i, s)'
<1>1. SUFFICES ASSUME jobs[i].etl[s].kind = "plugin" PROVE inst'[Etl(jobs[i].name, s)] = "ready"
  BY DEF Ready
<1>2. /\ inst[Etl(jobs[i].name, s)] = "ready" /\ inst = [x \in Instances |-> inst[x]]
      /\ Etl(jobs[i].name, s) \in Instances
  BY <1>1, JobsAreFiles, ProcessorsDiffer DEF BuiltInv, OwnerInv, Ready
<1>3. jobs[i].name # TheJob.name
  BY NextJobIsNext DEF BuiltInv, JobsInv
<1>4. \A r : Etl(jobs[i].name, s) # Etl(TheJob.name, r)
  BY <1>3, ProcessorsDiffer
<1>5. CASE UNCHANGED inst
  BY <1>2, <1>5
<1>6. CASE \E v : inst' = Put(Here, v)
  BY <1>2, <1>4, <1>6 DEF Put, Here
<1>7. CASE BuildFails
  BY <1>2, <1>4, <1>7 DEF BuildFails, Destroyed
<1>8. QED BY <1>5, <1>6, <1>7

\* Main has got one step further with a pipeline.
LEMMA StepIsBuilt ==
  ASSUME BuiltInv, JobsInv', OwnerInv', pc = "spawn", EnabledFrom(building.job) # {},
         building.step \in DOMAIN TheJob.etl, UNCHANGED jobs, building' = [building EXCEPT !.step = @ + 1],
         Idle(Main)',
         \/ inst' = inst /\ TheStep.kind # "plugin"
         \/ inst' = Put(Here, "ready")
  PROVE  BuiltInv'
<1>1. building.step \in Nat /\ building'.step = building.step + 1 /\ building'.job = building.job
  BY DEF BuiltInv, JobsInv
<1>2. /\ NextJob' = NextJob /\ TheJob' = TheJob /\ EnabledFrom(building.job)' = EnabledFrom(building.job)
      /\ NextJob \in DOMAIN jobs /\ TheJob = jobs[NextJob] /\ DOMAIN TheJob.etl \subseteq Nat \ {0}
      /\ \A s \in DOMAIN TheJob.etl : TheJob.etl[s].kind = "plugin" => Etl(TheJob.name, s) \in Processors
  BY <1>1, NextJobStays
<1>3. \A i \in DOMAIN jobs : jobs[i].enabled /\ i < building.job => \A s \in DOMAIN jobs[i].etl : Ready(i, s)'
  BY OthersStayReady
<1>4. ASSUME NEW s \in DOMAIN TheJob.etl, s < building.step + 1 PROVE Ready(NextJob, s)'
  <2>1. SUFFICES ASSUME TheJob.etl[s].kind = "plugin" PROVE inst'[Etl(TheJob.name, s)] = "ready"
    BY <1>2 DEF Ready
  <2>2. /\ Etl(TheJob.name, s) \in Instances /\ inst = [x \in Instances |-> inst[x]]
    BY <1>2, <2>1, ProcessorsDiffer DEF BuiltInv, OwnerInv
  <2>3. CASE s = building.step
    BY <2>1, <2>2, <2>3 DEF TheStep, Here, Put
  <2>4. CASE s # building.step
    <3>1. s < building.step
      BY <1>1, <1>2, <1>4, <2>4
    <3>2. inst[Etl(TheJob.name, s)] = "ready"
      BY <1>2, <2>1, <3>1 DEF BuiltInv, Ready
    <3>3. Etl(TheJob.name, s) # Here
      BY <2>4, ProcessorsDiffer DEF Here
    <3>4. QED BY <2>2, <3>2, <3>3 DEF Put
  <2>5. QED BY <2>3, <2>4
<1>5. QED BY <1>1, <1>2, <1>3, <1>4 DEF BuiltInv

LEMMA StepsCount == JobsInv /\ EnabledFrom(building.job) # {} => DOMAIN TheJob.etl \subseteq Nat \ {0}
BY NextJobIsNext, JobsAreFiles DEF TheJob

LEMMA BuiltStep ==
  ASSUME BuiltInv, [StartupNext]_<<startVars, callVars>>
  PROVE  BuiltInv'
<1>1. /\ JobsInv' /\ OwnerInv' /\ JobsInv /\ OwnerInv /\ FramesFunction /\ Main \in Threads
      /\ inst = [i \in Instances |-> inst[i]] /\ inst' = [i \in Instances |-> inst'[i]]
  BY JobsStep, OwnerStep, ThreadsDiffer DEF BuiltInv, OwnerInv, StartInv
<1>2. ASSUME UNCHANGED <<jobs, building>>, frames'[Main] = frames[Main], pc' = "spawn" => pc = "spawn",
             \/ UNCHANGED inst
             \/ \E c \in Connectors : \/ \E v : inst' = Put(Ds(c), v)
                                      \/ inst' = Destroyed({Ds(c)})
      PROVE  BuiltInv'
  <2>1. \A p \in Processors : inst'[p] = inst[p]
    BY <1>1, <1>2, ProcessorsKept
  <2>2. QED BY <1>1, <1>2, <2>1, SamePipelines
<1>3. CASE UNCHANGED <<startVars, callVars>>
  BY <1>2, <1>3 DEF startVars, configVars, callVars
<1>4. ASSUME NEW c \in Connectors, WorkerStep(c) PROVE BuiltInv'
  <2>1. frames'[Main] = frames[Main]
    BY <1>1, <1>4, WorkerCalls, ThreadsDiffer DEF OnlyCallsOf
  <2>2. CASE WorkerCreate(c) \/ WorkerConnected(c) \/ WorkerSend(c)
    <3>1. UNCHANGED <<jobs, building, pc>>
      BY <2>2 DEF WorkerCreate, WorkerConnected, WorkerSend, configVars
    <3>2. UNCHANGED inst \/ (\E v : inst' = Put(Ds(c), v)) \/ inst' = Destroyed({Ds(c)})
      BY <2>2 DEF WorkerCreate, WorkerConnected, WorkerSend
    <3>3. QED BY <1>2, <2>1, <3>1, <3>2
  <2>3. CASE EnterCall(Connector(c)) \/ ReturnCall(Connector(c)) \/ ReadResult(Connector(c))
    <3>1. UNCHANGED <<startVars, inst>>
      BY <1>1, <2>3, StackSteps, ThreadsDiffer DEF EnterCall, ReturnCall, ReadResult
    <3>2. QED BY <1>2, <2>1, <3>1 DEF startVars, configVars
  <2>4. QED BY <1>4, <2>2, <2>3 DEF WorkerStep
<1>5. ASSUME NEW j \in JobNames, JobStep(j) PROVE BuiltInv'
  <2>1. UNCHANGED <<startVars, inst>> /\ frames'[Main] = frames[Main]
    BY <1>1, <1>5, JobCalls, ThreadsDiffer DEF OnlyCallsOf
  <2>2. QED BY <1>2, <2>1 DEF startVars, configVars
<1>6. CASE LoadConfig \/ LoadPlugins \/ ConnectNext \/ Receive \/ Timeout \/ Fatal \/ LoadEtlPlugins \/ Park
  <2>1. UNCHANGED <<jobs, building, inst, frames>> /\ (pc' = "spawn" => pc = "spawn")
    BY <1>6 DEF LoadConfig, LoadPlugins, ConnectNext, Receive, Timeout, Fatal, LoadEtlPlugins, Park, Goto,
       configVars, callVars
  <2>2. QED BY <1>2, <2>1
<1>7. CASE GiveUp
  <2>1. UNCHANGED <<jobs, building, frames>> /\ pc' = "exiting"
    BY <1>7 DEF GiveUp, configVars
  <2>2. receiver \in Connectors
    BY <1>1, <1>7 DEF GiveUp, JobsInv, StartInv
  <2>3. UNCHANGED inst \/ inst' = Destroyed({Ds(receiver)})
    BY <1>7 DEF GiveUp
  <2>4. QED BY <1>2, <2>1, <2>2, <2>3
<1>8. CASE LoadJobs
  <2>1. pc = "jobs" /\ UNCHANGED <<building, frames>>
    BY <1>8 DEF LoadJobs, callVars
  <2>2. Idle(Main)' /\ building' = [job |-> 1, step |-> 1]
    BY <1>1, <2>1 DEF JobsInv, StartInv, Reading, Idle
  <2>3. QED BY <1>1, <2>2, NothingBuiltNext
<1>9. ASSUME pc = "spawn", EnabledFrom(building.job) # {}, UNCHANGED <<jobs, building>>, pc' = "exiting",
             BuildFails, Idle(Main)'
      PROVE  BuiltInv'
  <2>1. \A i \in DOMAIN jobs : jobs[i].enabled /\ i < building.job => \A s \in DOMAIN jobs[i].etl : Ready(i, s)'
    BY <1>9, OthersStayReady
  <2>2. QED BY <1>1, <1>9, <2>1 DEF BuiltInv
<1>10. CASE BuildStep
  <2>1. /\ pc = "spawn" /\ Idle(Main) /\ EnabledFrom(building.job) # {} /\ UNCHANGED jobs
        /\ building.step <= Len(TheJob.etl)
    BY <1>10 DEF BuildStep, Building, configVars
  <2>2. building.step \in DOMAIN TheJob.etl
    <3>1. NextJob \in DOMAIN jobs
      BY <1>1, <2>1, NextJobIsNext
    <3>2. IsList(TheJob.etl) /\ building.step \in Nat \ {0}
      BY <1>1, <3>1, JobsAreFiles DEF TheJob, JobsInv
    <3>3. QED BY <2>1, <3>2 DEF IsList
  <2>3. CASE building' = [building EXCEPT !.step = @ + 1]
    <3>1. UNCHANGED frames /\ ((inst' = inst /\ TheStep.kind # "plugin") \/ inst' = Put(Here, "ready"))
      <4>1. building' # building
        BY <1>1, <2>3 DEF JobsInv
      <4>2. QED BY <1>10, <4>1 DEF BuildStep, BuildFails
    <3>2. QED BY <1>1, <2>1, <2>2, <2>3, <3>1, StepIsBuilt DEF Idle
  <2>4. CASE BuildFails /\ UNCHANGED frames
    BY <1>9, <2>1, <2>4 DEF BuildFails, Idle
  <2>5. CASE /\ TheStep.kind = "plugin" /\ inst' = Put(Here, "created")
             /\ frames' = Pushed(Main, "configure", Here) /\ UNCHANGED <<pc, building>>
    <3>1. /\ NextJob' = NextJob /\ TheJob' = TheJob /\ EnabledFrom(building.job)' = EnabledFrom(building.job)
          /\ NextJob \in DOMAIN jobs /\ TheJob = jobs[NextJob] /\ Here \in Instances
          /\ \A s \in DOMAIN TheJob.etl : TheJob.etl[s].kind = "plugin" => Etl(TheJob.name, s) \in Instances
      BY <2>1, <2>2, <2>5, NextJobStays, ProcessorsDiffer DEF TheStep, Here
    <3>2. TheStep' = TheStep /\ Here' = Here /\ inst'[Here] = "created"
      BY <1>1, <2>5, <3>1 DEF TheStep, Here, Put
    <3>3. ASSUME NEW s \in DOMAIN TheJob.etl, s < building.step PROVE Ready(NextJob, s)'
      <4>1. Etl(TheJob.name, s) # Here
        BY <3>3, ProcessorsDiffer, <1>1 DEF Here, JobsInv
      <4>2. Ready(NextJob, s)
        BY <2>1, <3>3 DEF BuiltInv
      <4>3. QED BY <1>1, <2>1, <2>5, <3>1, <4>1, <4>2 DEF Ready, Put
    <3>4. frames'[Main] = <<NewCall("configure", Here)>>
      BY <1>1, <2>1, <2>5, OneCall DEF Pushed, Idle, FramesFunction
    <3>5. Top(Main)' = NewCall("configure", Here)
      BY <3>4, OneCall DEF Top
    <3>6. (IsFrame(Top(Main)) /\ Top(Main).fn = "configure" /\ Top(Main).inst = Here)'
      BY <3>2, <3>5 DEF IsFrame, NewCall
    <3>7. \A i \in DOMAIN jobs : jobs[i].enabled /\ i < building.job => \A s \in DOMAIN jobs[i].etl : Ready(i, s)'
      BY <2>1, <2>5, OthersStayReady
    <3>8. QED BY <1>1, <2>1, <2>2, <2>5, <3>1, <3>2, <3>3, <3>6, <3>7 DEF BuiltInv
  <2>6. QED BY <1>10, <2>3, <2>4, <2>5 DEF BuildStep
<1>11. CASE StepConfigured
  <2>1. /\ ~Idle(Main) /\ frames' = Popped(Main) /\ UNCHANGED jobs
        /\ \/ inst' = Put(Here, "ready") /\ building' = [building EXCEPT !.step = @ + 1]
           \/ BuildFails
    BY <1>11 DEF StepConfigured, In, configVars
  <2>2. /\ pc = "spawn" /\ EnabledFrom(building.job) # {} /\ building.step \in DOMAIN TheJob.etl
        /\ Shallow(Main)
    BY <1>1, <2>1 DEF BuiltInv, JobsInv, StartInv
  <2>3. Idle(Main)'
    <3>1. frames[Main] = <<Top(Main)>>
      BY <2>1, <2>2, AtMostOne
    <3>2. QED BY <1>1, <2>1, <3>1, OneCall DEF Popped, FramesFunction, Idle
  <2>4. CASE BuildFails
    BY <1>9, <2>1, <2>2, <2>3, <2>4 DEF BuildFails
  <2>5. QED BY <1>1, <2>1, <2>2, <2>3, <2>4, StepIsBuilt
<1>12. CASE SpawnJob
  <2>1. /\ pc = "spawn" /\ Idle(Main) /\ EnabledFrom(building.job) # {} /\ UNCHANGED <<jobs, frames>>
        /\ ~(building.step <= Len(TheJob.etl)) /\ Idle(Main)'
    <3>1. IsList(TheJob.etl) /\ building.step \in Nat
      BY <1>1, <1>12, NextJobIsNext, JobsAreFiles DEF SpawnJob, Building, TheJob, JobsInv
    <3>2. QED BY <1>12, <3>1 DEF SpawnJob, Building, configVars, Idle, IsList
  <2>2. CASE BuildFails
    BY <1>9, <2>1, <2>2 DEF BuildFails
  <2>3. CASE building' = [job |-> NextJob + 1, step |-> 1] /\ UNCHANGED inst
    <3>1. /\ NextJob \in DOMAIN jobs /\ NextJob \in Nat /\ TheJob = jobs[NextJob]
          /\ \A k \in DOMAIN jobs : jobs[k].enabled /\ k < NextJob => k < building.job
          /\ IsList(TheJob.etl) /\ DOMAIN jobs \subseteq Nat /\ building.step \in Nat
      BY <1>1, <2>1, NextJobIsNext, JobsAreFiles DEF TheJob, JobsInv
    <3>2. \A s \in DOMAIN TheJob.etl : s < building.step
      BY <2>1, <3>1 DEF IsList
    <3>3. ASSUME NEW i \in DOMAIN jobs, jobs[i].enabled, i < NextJob + 1, NEW s \in DOMAIN jobs[i].etl
          PROVE  Ready(i, s)'
      <4>1. i < building.job \/ i = NextJob
        BY <3>1, <3>3
      <4>2. Ready(i, s)
        BY <2>1, <3>1, <3>2, <3>3, <4>1 DEF BuiltInv
      <4>3. QED BY <2>1, <2>3, <4>2 DEF Ready
    <3>4. (JobsInv /\ EnabledFrom(building.job) # {} => DOMAIN TheJob.etl \subseteq Nat \ {0})'
      BY StepsCount, PTL
    <3>5. (EnabledFrom(building.job) # {})' => \A s \in DOMAIN TheJob'.etl : ~(s < 1)
      BY <1>1, <3>4
    <3>6. QED BY <1>1, <2>1, <2>3, <3>3, <3>5 DEF BuiltInv
  <2>4. QED BY <1>12, <2>2, <2>3 DEF SpawnJob
<1>13. CASE EnterCall(Main) \/ ReturnCall(Main) \/ ReadResult(Main)
  <2>1. ~Idle(Main) /\ UNCHANGED <<startVars, inst>> /\ Shallow(Main) /\ IsFrame(Top(Main))
    BY <1>1, <1>13, StackSteps DEF EnterCall, ReturnCall, ReadResult, BuiltInv, JobsInv, StartInv
  <2>2. PICK g : IsFrame(g) /\ g.fn = Top(Main).fn /\ g.inst = Top(Main).inst /\ frames' = SetTop(Main, g)
    BY <1>13, <2>1, Relabelled DEF EnterCall, ReturnCall, ReadResult
  <2>3. Top(Main)' = g /\ ~Idle(Main)'
    <3>1. frames[Main] = <<Top(Main)>>
      BY <2>1, AtMostOne
    <3>2. frames'[Main] = <<g>>
      BY <1>1, <2>2, <3>1, OneCall DEF SetTop, FramesFunction
    <3>3. QED BY <3>2, OneCall DEF Top, Idle
  <2>4. /\ UNCHANGED <<jobs, building, pc>> /\ EnabledFrom(building.job)' = EnabledFrom(building.job)
        /\ NextJob' = NextJob /\ TheJob' = TheJob /\ TheStep' = TheStep /\ Here' = Here
    BY <2>1 DEF startVars, configVars, EnabledFrom, NextJob, TheJob, TheStep, Here
  <2>5. \A i, s : Ready(i, s)' <=> Ready(i, s)
    BY <2>1, <2>4 DEF Ready
  <2>6. QED BY <1>1, <2>1, <2>2, <2>3, <2>4, <2>5 DEF BuiltInv
<1>14. QED BY <1>3, <1>4, <1>5, <1>6, <1>7, <1>8, <1>10, <1>11, <1>12, <1>13 DEF StartupNext, MainStep

LEMMA BuiltInitially == StartupInit => BuiltInv
<1> SUFFICES ASSUME StartupInit PROVE BuiltInv
  OBVIOUS
<1>1. JobsInv /\ OwnerInv /\ building = [job |-> 1, step |-> 1]
  BY JobsInitially, OwnersInitially DEF StartupInit
<1>2. Idle(Main)
  BY ThreadsDiffer DEF StartupInit, CallsInit, Idle
<1>3. QED BY <1>1, <1>2, NothingBuilt DEF BuiltInv

-----------------------------------------------------------------------------
(* The steps of a pipeline and those of its file.                          *)

\* The steps of a document; of the single-step form, the document itself.
LEMMA StepsOfFile ==
  ASSUME NEW i \in DOMAIN Worlds, NEW f \in DOMAIN Worlds[i].files, AcceptsJob(Worlds[i].files[f])
  PROVE  LET y == Worlds[i].files[f]
             steps == Job(y).etl
         IN  /\ ~Is("map", At(y, "etl")) => Len(steps) = Len(Items(At(y, "etl")))
             /\ Is("map", At(y, "etl")) =>
                   \/ \E key \in {"plugin", "builtin"} : ~Is("absent", At(y, key))
                   \/ 1 \in DOMAIN steps /\ steps[1] = Step(y.map[1][1].str, y.map[1][2])
<1> DEFINE y == Worlds[i].files[f]
           steps == Job(y).etl
           etl == At(y, "etl")
<1>1. /\ IsList(StepNodes(y)) /\ IsList(steps) /\ ~({"list", "map"} \subseteq DOMAIN etl)
      /\ steps = [k \in DOMAIN StepNodes(y) |-> ParseStep(StepNodes(y)[k])]
  BY FilesAssumption DEF Job
<1>2. Len(steps) = Len(StepNodes(y))
  <2>1. Len(steps) \in Nat /\ Len(StepNodes(y)) \in Nat /\ 1..Len(steps) = 1..Len(StepNodes(y))
    BY <1>1 DEF IsList
  <2>2. \A m, n \in Nat : 1..m = 1..n => m = n
    <3>1. ASSUME NEW m \in Nat, NEW n \in Nat, 1..m = 1..n, m > n PROVE FALSE
      <4>1. m \in 1..m /\ m \notin 1..n
        BY <3>1
      <4>2. QED BY <3>1, <4>1
    <3>2. ASSUME NEW m \in Nat, NEW n \in Nat, 1..m = 1..n PROVE m = n
      BY <3>1, <3>2
    <3>3. QED BY <3>2
  <2>3. QED BY <2>1, <2>2
<1>3. ASSUME ~Is("map", etl) PROVE Len(steps) = Len(Items(etl))
  BY <1>2, <1>3 DEF StepNodes, Items
<1>4. ASSUME Is("map", etl), \A key \in {"plugin", "builtin"} : Is("absent", At(y, key))
      PROVE  1 \in DOMAIN steps /\ steps[1] = Step(y.map[1][1].str, y.map[1][2])
  <2>1. StepNodes(y) = <<y>> /\ DOMAIN <<y>> = {1} /\ <<y>>[1] = y
    BY <1>1, <1>4 DEF StepNodes, Is
  <2>2. Is("map", y)
    <3>1. ~Is("map", Absent)
      BY DEF Is, Absent
    <3>2. QED BY <1>4, <3>1 DEF At
  <2>3. ParseStep(y) = Step(y.map[1][1].str, y.map[1][2])
    BY <1>4, <2>2 DEF ParseStep
  <2>4. QED BY <1>1, <2>1, <2>3
<1>5. QED BY <1>3, <1>4

\* A step that can be built.
Fitting(i, s) ==
    LET step == jobs[i].etl[s]
    IN  IF step.kind = "plugin" THEN Registered(app.etl_plugin_paths, step.name)
        ELSE step.kind = "builtin" /\ Fits(step.name, step.config)

\* The jobs are those of the files, in their order, and each step that main
\* has passed could be built, with the one it is just configuring.
FitInv ==
    /\ BuiltInv
    /\ pc \in Reading => jobs = <<>>
    /\ \A i \in DOMAIN jobs : LET f == app.job_files[i]
                              IN  f \in DOMAIN world.files /\ AcceptsJob(world.files[f]) /\ jobs[i] = Job(world.files[f])
    /\ \A i \in DOMAIN jobs : jobs[i].enabled /\ i < building.job => \A s \in DOMAIN jobs[i].etl : Fitting(i, s)
    /\ pc = "spawn" /\ EnabledFrom(building.job) # {} =>
          \A s \in DOMAIN TheJob.etl : s < building.step \/ (s = building.step /\ ~Idle(Main)) => Fitting(NextJob, s)

LEMMA SameFitting ==
  ASSUME UNCHANGED <<world, app, jobs>>
  PROVE  \A i, s : Fitting(i, s)' <=> Fitting(i, s)
<1>1. \A paths, type : Registered(paths, type)' <=> Registered(paths, type)
  BY DEF Registered
<1>2. QED BY <1>1 DEF Fitting

\* Most steps leave the jobs and the place of main in its loops alone.
LEMMA FitsAsBefore ==
  ASSUME FitInv, BuiltInv', UNCHANGED <<world, app, jobs, building>>,
         pc' \in Reading => pc \in Reading, pc' = "spawn" => pc = "spawn", ~Idle(Main)' => ~Idle(Main)
  PROVE  FitInv'
<1>1. /\ NextJob' = NextJob /\ TheJob' = TheJob /\ EnabledFrom(building.job)' = EnabledFrom(building.job)
      /\ \A i, s : Fitting(i, s)' <=> Fitting(i, s)
  BY SameFitting DEF NextJob, TheJob, EnabledFrom
<1>2. QED BY <1>1 DEF FitInv

\* One step further with a pipeline, or just about to configure the step.
LEMMA FitsToo ==
  ASSUME FitInv, BuiltInv', UNCHANGED <<world, app, jobs>>, pc = "spawn", pc' = "spawn",
         EnabledFrom(building.job) # {}, building.step \in DOMAIN TheJob.etl, Fitting(NextJob, building.step),
         UNCHANGED building \/ (building' = [building EXCEPT !.step = @ + 1] /\ Idle(Main)')
  PROVE  FitInv'
<1>1. building \in [job : Nat \ {0}, step : Nat \ {0}] /\ DOMAIN TheJob.etl \subseteq Nat
  BY StepsCount DEF FitInv, BuiltInv, JobsInv
<1>2. building'.job = building.job
  BY <1>1
<1>3. /\ NextJob' = NextJob /\ TheJob' = TheJob /\ EnabledFrom(building.job)' = EnabledFrom(building.job)
      /\ \A i, s : Fitting(i, s)' <=> Fitting(i, s)
  BY <1>2, SameFitting DEF NextJob, TheJob, EnabledFrom
<1>4. ASSUME NEW s \in DOMAIN TheJob.etl, s < building'.step \/ (s = building'.step /\ ~Idle(Main)')
      PROVE  Fitting(NextJob, s)
  <2>1. s < building.step \/ s = building.step
    BY <1>1, <1>4
  <2>2. QED BY <2>1 DEF FitInv
<1>5. pc' \notin Reading
  BY DEF Reading
<1>6. QED BY <1>2, <1>3, <1>4, <1>5 DEF FitInv

LEMMA FitStep ==
  ASSUME FitInv, [StartupNext]_<<startVars, callVars>>
  PROVE  FitInv'
<1>1. /\ BuiltInv' /\ BuiltInv /\ JobsInv /\ JobsInv' /\ StartInv /\ FramesFunction
      /\ Main \in Threads
  BY BuiltStep, ThreadsDiffer DEF FitInv, BuiltInv, JobsInv, StartInv
<1>2. CASE UNCHANGED <<startVars, callVars>>
  BY <1>1, <1>2, FitsAsBefore DEF startVars, configVars, callVars, Idle
<1>3. ASSUME NEW c \in Connectors, WorkerStep(c) PROVE FitInv'
  <2>1. frames'[Main] = frames[Main]
    BY <1>1, <1>3, WorkerCalls, ThreadsDiffer DEF OnlyCallsOf
  <2>2. UNCHANGED <<world, app, jobs, building, pc>>
    BY <1>3 DEF WorkerStep, WorkerCreate, WorkerConnected, WorkerSend, EnterCall, ReturnCall, ReadResult,
       startVars, configVars
  <2>3. QED BY <1>1, <2>1, <2>2, FitsAsBefore DEF Idle
<1>4. ASSUME NEW j \in JobNames, JobStep(j) PROVE FitInv'
  <2>1. UNCHANGED startVars /\ frames'[Main] = frames[Main]
    BY <1>1, <1>4, JobCalls, ThreadsDiffer DEF OnlyCallsOf
  <2>2. QED BY <1>1, <2>1, FitsAsBefore DEF startVars, configVars, Idle
<1>5. CASE LoadPlugins \/ ConnectNext \/ Receive \/ Timeout \/ GiveUp \/ Fatal \/ LoadEtlPlugins \/ Park
  <2>1. UNCHANGED <<world, app, jobs, building, frames>>
    BY <1>5 DEF LoadPlugins, ConnectNext, Receive, Timeout, GiveUp, Fatal, LoadEtlPlugins, Park, configVars,
       callVars
  <2>2. (pc' \in Reading => pc \in Reading) /\ (pc' = "spawn" => pc = "spawn")
    BY <1>5 DEF LoadPlugins, ConnectNext, Receive, Timeout, GiveUp, Fatal, LoadEtlPlugins, Park, Goto, Reading
  <2>3. QED BY <1>1, <2>1, <2>2, FitsAsBefore DEF Idle
<1>6. CASE EnterCall(Main) \/ ReturnCall(Main) \/ ReadResult(Main)
  <2>1. ~Idle(Main) /\ UNCHANGED startVars
    BY <1>1, <1>6, StackSteps DEF EnterCall, ReturnCall, ReadResult
  <2>2. QED BY <1>1, <2>1, FitsAsBefore DEF startVars, configVars
<1>7. CASE LoadConfig
  <2>1. /\ UNCHANGED <<world, jobs>> /\ pc' \notin {"spawn"} /\ jobs = <<>>
    BY <1>7 DEF LoadConfig, FitInv, Reading
  <2>2. DOMAIN <<>> = {}
    OBVIOUS
  <2>3. QED BY <1>1, <2>1, <2>2 DEF FitInv
<1>8. CASE LoadJobs
  <2>1. pc = "jobs" /\ UNCHANGED <<world, app, building, frames>> /\ pc' \in {"spawn", "exiting"}
    BY <1>8 DEF LoadJobs, Goto, callVars
  <2>2. jobs = <<>> /\ building = [job |-> 1, step |-> 1] /\ Idle(Main)' /\ pc' \notin Reading
    BY <1>1, <2>1 DEF FitInv, JobsInv, StartInv, Reading, Idle
  <2>3. \A i \in DOMAIN jobs' : LET f == app.job_files[i]
                                IN  f \in DOMAIN world.files /\ AcceptsJob(world.files[f]) /\ jobs'[i] = Job(world.files[f])
    <3>1. DOMAIN <<>> = {}
      OBVIOUS
    <3>2. QED BY <1>8, <2>2, <3>1 DEF LoadJobs
  <2>4. \A i \in DOMAIN jobs' : ~(i < building'.job)
    BY <1>1, <2>1, <2>2 DEF JobsInv
  <2>5. (EnabledFrom(building.job) # {})' => \A s \in DOMAIN TheJob'.etl : ~(s < building'.step)
    <3>1. (JobsInv /\ EnabledFrom(building.job) # {} => DOMAIN TheJob.etl \subseteq Nat \ {0})'
      BY StepsCount, PTL
    <3>2. QED BY <1>1, <2>1, <2>2, <3>1
  <2>6. QED BY <1>1, <2>1, <2>2, <2>3, <2>4, <2>5 DEF FitInv
<1>9. ASSUME UNCHANGED <<world, app, jobs, building>>, pc' = "exiting" PROVE FitInv'
  <2>1. \A i, s : Fitting(i, s)' <=> Fitting(i, s)
    BY <1>9, SameFitting
  <2>2. QED BY <1>1, <1>9, <2>1 DEF FitInv, Reading
<1>10. CASE BuildStep
  <2>1. /\ pc = "spawn" /\ Idle(Main) /\ EnabledFrom(building.job) # {} /\ UNCHANGED <<world, app, jobs>>
        /\ building.step <= Len(TheJob.etl)
    BY <1>10 DEF BuildStep, Building, configVars
  <2>2. building.step \in DOMAIN TheJob.etl /\ TheJob = jobs[NextJob]
    <3>1. NextJob \in DOMAIN jobs
      BY <1>1, <2>1, NextJobIsNext
    <3>2. IsList(TheJob.etl) /\ building.step \in Nat \ {0}
      BY <1>1, <3>1, JobsAreFiles DEF TheJob, JobsInv
    <3>3. QED BY <2>1, <3>2 DEF IsList, TheJob
  <2>3. CASE BuildFails
    BY <1>9, <2>1, <2>3 DEF BuildFails
  <2>4. CASE ~BuildFails
    <3>1. Fitting(NextJob, building.step)
      BY <1>10, <2>2, <2>4 DEF BuildStep, Fitting, TheStep
    <3>2. /\ pc' = "spawn"
          /\ UNCHANGED building \/ (building' = [building EXCEPT !.step = @ + 1] /\ UNCHANGED frames)
      BY <1>10, <2>1, <2>4 DEF BuildStep
    <3>3. QED BY <1>1, <2>1, <2>2, <3>1, <3>2, FitsToo DEF Idle
  <2>5. QED BY <2>3, <2>4
<1>11. CASE StepConfigured
  <2>1. /\ ~Idle(Main) /\ frames' = Popped(Main) /\ UNCHANGED <<world, app, jobs>>
        /\ \/ building' = [building EXCEPT !.step = @ + 1] /\ UNCHANGED pc
           \/ BuildFails
    BY <1>11 DEF StepConfigured, In, configVars
  <2>2. /\ pc = "spawn" /\ EnabledFrom(building.job) # {} /\ building.step \in DOMAIN TheJob.etl
        /\ Shallow(Main)
    BY <1>1, <2>1 DEF BuiltInv, JobsInv, StartInv
  <2>3. Idle(Main)'
    <3>1. frames[Main] = <<Top(Main)>>
      BY <2>1, <2>2, AtMostOne
    <3>2. QED BY <1>1, <2>1, <3>1, OneCall DEF Popped, FramesFunction, Idle
  <2>4. Fitting(NextJob, building.step)
    BY <2>1, <2>2 DEF FitInv
  <2>5. CASE BuildFails
    BY <1>9, <2>1, <2>5 DEF BuildFails
  <2>6. QED BY <1>1, <2>1, <2>2, <2>3, <2>4, <2>5, FitsToo
<1>12. CASE SpawnJob
  <2>1. /\ pc = "spawn" /\ Idle(Main) /\ EnabledFrom(building.job) # {} /\ UNCHANGED <<world, app, jobs, frames>>
        /\ building.step > Len(TheJob.etl)
    BY <1>12 DEF SpawnJob, Building, configVars
  <2>2. CASE BuildFails
    BY <1>9, <2>1, <2>2 DEF BuildFails
  <2>3. CASE building' = [job |-> NextJob + 1, step |-> 1] /\ UNCHANGED pc
    <3>1. /\ NextJob \in DOMAIN jobs /\ NextJob \in Nat /\ TheJob = jobs[NextJob]
          /\ \A k \in DOMAIN jobs : jobs[k].enabled /\ k < NextJob => k < building.job
          /\ IsList(TheJob.etl) /\ DOMAIN jobs \subseteq Nat /\ building.step \in Nat
      BY <1>1, <2>1, NextJobIsNext, JobsAreFiles DEF TheJob, JobsInv
    <3>2. \A s \in DOMAIN TheJob.etl : s < building.step
      BY <2>1, <3>1 DEF IsList
    <3>3. ASSUME NEW i \in DOMAIN jobs, jobs[i].enabled, i < NextJob + 1, NEW s \in DOMAIN jobs[i].etl
          PROVE  Fitting(i, s)'
      <4>1. i < building.job \/ i = NextJob
        BY <3>1, <3>3
      <4>2. Fitting(i, s)
        BY <2>1, <3>1, <3>2, <3>3, <4>1 DEF FitInv
      <4>3. QED BY <2>1, <4>2, SameFitting
    <3>4. (JobsInv /\ EnabledFrom(building.job) # {} => DOMAIN TheJob.etl \subseteq Nat \ {0})'
      BY StepsCount, PTL
    <3>5. (EnabledFrom(building.job) # {})' => \A s \in DOMAIN TheJob'.etl : ~(s < 1)
      BY <1>1, <3>4
    <3>6. Idle(Main)' /\ pc' \notin Reading
      BY <2>1, <2>3 DEF Idle, Reading
    <3>7. QED BY <1>1, <2>1, <2>3, <3>3, <3>5, <3>6 DEF FitInv
  <2>4. QED BY <1>12, <2>2, <2>3 DEF SpawnJob
<1>13. QED BY <1>2, <1>3, <1>4, <1>5, <1>6, <1>7, <1>8, <1>10, <1>11, <1>12 DEF StartupNext, MainStep

LEMMA FitInitially == StartupInit => FitInv
<1> SUFFICES ASSUME StartupInit PROVE FitInv
  OBVIOUS
<1>1. DOMAIN <<>> = {} /\ jobs = <<>> /\ pc = "config"
  BY DEF StartupInit
<1>2. BuiltInv
  BY BuiltInitially
<1>3. QED BY <1>1, <1>2 DEF FitInv

(* A job that runs has every step its file lists, built-in steps in a form *)
(* they accept and plugin steps configured, and none by the single-step    *)
(* form: for any files and any plugins.                                    *)
THEOREM PipelinesAreBuilt == StartupSpec => []PipelinesMatchFiles
<1>1. FitInv => PipelinesMatchFiles
  <2> SUFFICES ASSUME FitInv, NEW name \in spawned
               PROVE  \E i \in EnabledFrom(1) :
                         LET file == world.files[app.job_files[i]]
                             steps == jobs[i].etl
                             Builds(step) == is_builtin(step) \/ Registered(app.etl_plugin_paths, step)
                         IN  /\ jobs[i].name = name
                             /\ ~Is("map", At(file, "etl")) => Len(steps) = Len(Items(At(file, "etl")))
                             /\ \A s \in DOMAIN steps :
                                   IF steps[s].kind = "builtin" THEN Fits(steps[s].name, steps[s].config)
                                   ELSE /\ inst[Etl(name, s)] = "ready"
                                        /\ Registered(app.etl_plugin_paths, steps[s].name)
                             /\ Is("map", At(file, "etl")) =>
                                   \/ \E key \in {"plugin", "builtin"} : ~Is("absent", At(file, key))
                                   \/ Builds(file.map[1][1].str)
    BY DEF PipelinesMatchFiles
  <2>1. PICK i \in DOMAIN jobs : jobs[i].name = name /\ jobs[i].enabled /\ i < building.job
    BY DEF FitInv, BuiltInv, JobsInv
  <2>2. i \in EnabledFrom(1)
    BY <2>1 DEF EnabledFrom, FitInv, BuiltInv, JobsInv
  <2> DEFINE file == world.files[app.job_files[i]]
             steps == jobs[i].etl
  <2>3. \A s \in DOMAIN steps : Fitting(i, s) /\ Ready(i, s)
    BY <2>1 DEF FitInv, BuiltInv
  <2>4. \A s \in DOMAIN steps :
           IF steps[s].kind = "builtin" THEN Fits(steps[s].name, steps[s].config)
           ELSE inst[Etl(name, s)] = "ready" /\ Registered(app.etl_plugin_paths, steps[s].name)
    BY <2>1, <2>3 DEF Fitting, Ready
  <2>5. /\ ~Is("map", At(file, "etl")) => Len(steps) = Len(Items(At(file, "etl")))
        /\ Is("map", At(file, "etl")) =>
              \/ \E key \in {"plugin", "builtin"} : ~Is("absent", At(file, key))
              \/ 1 \in DOMAIN steps /\ steps[1] = Step(file.map[1][1].str, file.map[1][2])
    <3>1. PICK w \in DOMAIN Worlds : world = Worlds[w]
      BY DEF FitInv, BuiltInv, JobsInv, StartInv
    <3>2. /\ app.job_files[i] \in DOMAIN Worlds[w].files /\ AcceptsJob(Worlds[w].files[app.job_files[i]])
          /\ jobs[i] = Job(Worlds[w].files[app.job_files[i]])
      BY <3>1 DEF FitInv
    <3>3. QED BY <3>1, <3>2, StepsOfFile
  <2>6. ASSUME 1 \in DOMAIN steps, steps[1] = Step(file.map[1][1].str, file.map[1][2])
        PROVE  is_builtin(file.map[1][1].str) \/ Registered(app.etl_plugin_paths, file.map[1][1].str)
    BY <2>3, <2>6 DEF Fitting, Step
  <2>7. QED BY <2>1, <2>2, <2>4, <2>5, <2>6
<1>2. FitInv /\ [StartupNext]_<<startVars, callVars>> => FitInv'
  BY FitStep
<1>3. QED BY <1>1, <1>2, FitInitially, PTL DEF StartupSpec

-----------------------------------------------------------------------------
(* Strings, and the stack of calls of each thread.                         *)

\* One more call on a stack, and one less.
LEMMA PushCall ==
  ASSUME NEW S, NEW s \in Seq(S), NEW f \in S
  PROVE  /\ Last(Append(s, f)) = f /\ Front(Append(s, f)) = s /\ s \o <<f>> = Append(s, f)
         /\ Len(Append(s, f)) = Len(s) + 1
<1>1. /\ Append(s, f) \in Seq(S) /\ Len(Append(s, f)) = Len(s) + 1 /\ Len(s) \in Nat
      /\ Append(s, f)[Len(s) + 1] = f /\ \A i \in 1..Len(s) : Append(s, f)[i] = s[i]
  BY AppendProperties
<1>2. SubSeq(Append(s, f), 1, Len(s)) = s
  <2>1. \A i \in 1..Len(s) : Append(s, f)[i] \in S
    BY <1>1
  <2>2. /\ SubSeq(Append(s, f), 1, Len(s)) \in Seq(S) /\ Len(SubSeq(Append(s, f), 1, Len(s))) = Len(s)
        /\ \A i \in 1..Len(s) : SubSeq(Append(s, f), 1, Len(s))[i] = s[i]
    BY <1>1, <2>1, SubSeqProperties
  <2>3. QED BY <2>2, SeqEqual
<1>3. s \o <<f>> = Append(s, f)
  BY AppendIsConcat
<1>4. QED BY <1>1, <1>2, <1>3 DEF Last, Front

LEMMA TwoCalls ==
  ASSUME NEW f, NEW g
  PROVE  /\ Len(<<f, g>>) = 2 /\ <<f, g>> # <<>> /\ Last(<<f, g>>) = g /\ Front(<<f, g>>) = <<f>>
         /\ <<f>> \o <<g>> = <<f, g>> /\ Append(<<f>>, g) = <<f, g>>
<1> DEFINE S == {f, g}
<1>1. <<f>> \in Seq(S) /\ <<f, g>> \in Seq(S) /\ g \in S /\ Len(<<f>>) = 1 /\ Len(<<f, g>>) = 2
  OBVIOUS
<1>2. Append(<<f>>, g) = <<f, g>>
  <2> HIDE DEF S
  <2>1. /\ Append(<<f>>, g) \in Seq(S) /\ Len(Append(<<f>>, g)) = 2
        /\ Append(<<f>>, g)[1] = f /\ Append(<<f>>, g)[2] = g
    BY <1>1, AppendProperties
  <2>2. \A i \in 1..2 : Append(<<f>>, g)[i] = <<f, g>>[i]
    BY <2>1
  <2>3. QED BY <1>1, <2>1, <2>2, SeqEqual
<1>3. QED BY <1>1, <1>2, PushCall

LEMMA ThreeCalls ==
  ASSUME NEW f, NEW g, NEW h
  PROVE  /\ Len(<<f, g, h>>) = 3 /\ <<f, g, h>> # <<>> /\ Last(<<f, g, h>>) = h /\ Front(<<f, g, h>>) = <<f, g>>
         /\ <<f, g>> \o <<h>> = <<f, g, h>> /\ Append(<<f, g>>, h) = <<f, g, h>>
<1> DEFINE S == {f, g, h}
<1>1. <<f, g>> \in Seq(S) /\ <<f, g, h>> \in Seq(S) /\ h \in S /\ Len(<<f, g>>) = 2 /\ Len(<<f, g, h>>) = 3
  OBVIOUS
<1>2. Append(<<f, g>>, h) = <<f, g, h>>
  <2> HIDE DEF S
  <2>1. /\ Append(<<f, g>>, h) \in Seq(S) /\ Len(Append(<<f, g>>, h)) = 3
        /\ Append(<<f, g>>, h)[1] = f /\ Append(<<f, g>>, h)[2] = g /\ Append(<<f, g>>, h)[3] = h
    BY <1>1, AppendProperties
  <2>2. \A i \in 1..3 : Append(<<f, g>>, h)[i] = <<f, g, h>>[i]
    BY <2>1
  <2>3. QED BY <1>1, <2>1, <2>2, SeqEqual
<1>3. QED BY <1>1, <1>2, PushCall

\* Strings are numbered, and there are finitely many.
HeapTyped ==
    /\ IsFiniteSet(DOMAIN heap) /\ DOMAIN heap \subseteq Nat \ {NoString}
    /\ \A s \in DOMAIN heap : heap[s] \in [fn : Calls, ok : BOOLEAN]

\* The allocator finds a free place, whatever has been left behind.
LEMMA AllocIsFresh ==
  ASSUME HeapTyped, NEW fn \in Calls, NEW ok \in BOOLEAN
  PROVE  LET s == Alloc(fn, ok)
         IN  /\ s.ptr \in Nat \ {NoString} /\ s.ptr \notin DOMAIN heap
             /\ DOMAIN s.heap = DOMAIN heap \cup {s.ptr} /\ s.heap[s.ptr] = [fn |-> fn, ok |-> ok]
             /\ \A x \in DOMAIN heap : s.heap[x] = heap[x]
             /\ IsFiniteSet(DOMAIN s.heap)
             /\ \A x \in DOMAIN s.heap : s.heap[x] \in [fn : Calls, ok : BOOLEAN]
<1> DEFINE n == Cardinality(DOMAIN heap)
           free == (1..(n + 1)) \ DOMAIN heap
           p == Min(free)
<1>1. n \in Nat
  BY FS_CardinalityType DEF HeapTyped
<1>2. free # {}
  <2>1. SUFFICES ASSUME 1..(n + 1) \subseteq DOMAIN heap PROVE FALSE
    OBVIOUS
  <2>2. Cardinality(1..(n + 1)) <= n
    BY <2>1, FS_Subset DEF HeapTyped
  <2>3. Cardinality(1..(n + 1)) = n + 1
    BY <1>1, FS_Interval
  <2>4. QED BY <1>1, <2>2, <2>3
<1>3. p \in free
  <2>1. free \subseteq Nat
    BY <1>1
  <2> HIDE DEF free
  <2>2. QED BY <1>2, <2>1, LeastIsMin
<1>4. p \in Nat \ {0} /\ p \notin DOMAIN heap
  BY <1>1, <1>3
<1>5. /\ Alloc(fn, ok).ptr = p
      /\ Alloc(fn, ok).heap = [x \in DOMAIN heap \cup {p} |->
                                 IF x = p THEN [fn |-> fn, ok |-> ok] ELSE heap[x]]
  BY DEF Alloc
<1> HIDE DEF p
<1>6. IsFiniteSet(DOMAIN heap \cup {p})
  BY FS_AddElement DEF HeapTyped
<1>7. QED BY <1>4, <1>5, <1>6 DEF HeapTyped, NoString

LEMMA FreeIsTyped ==
  ASSUME HeapTyped, NEW s, heap' = Free(s) \/ UNCHANGED heap
  PROVE  HeapTyped'
<1>1. CASE heap' = Free(s)
  <2>1. DOMAIN heap' = DOMAIN heap \ {s} /\ \A x \in DOMAIN heap \ {s} : heap'[x] = heap[x]
    BY <1>1 DEF Free
  <2>2. IsFiniteSet(DOMAIN heap')
    BY <2>1, FS_RemoveElement DEF HeapTyped
  <2>3. QED BY <2>1, <2>2 DEF HeapTyped
<1>2. CASE UNCHANGED heap
  BY <1>2 DEF HeapTyped
<1>3. QED BY <1>1, <1>2

\* A frame whose out pointer is set only between the return of the call and
\* the reading of its result.
CleanFrame == {f \in Frame : f.at # "returned" => f.out = NoString}

LEMMA CleanFrames ==
  /\ \A f \in CleanFrame :
        /\ IsFrame(f) /\ f.fn \in Calls /\ f.inst \in Instances \cup {Nobody} /\ f.ok \in BOOLEAN /\ f.out \in Nat
        /\ f.at \in {"entry", "inside", "returned", "done"} /\ (f.at # "returned" => f.out = NoString)
  /\ \A fn \in Calls : \A i \in Instances \cup {Nobody} : NewCall(fn, i) \in CleanFrame
BY DEF CleanFrame, Frame, IsFrame, NewCall, NoString

LEMMA RecordIsClean ==
  ASSUME NEW fn \in Calls, NEW i \in Instances \cup {Nobody}, NEW ok \in BOOLEAN, NEW out \in Nat
  PROVE  /\ [fn |-> fn, inst |-> i, at |-> "returned", ok |-> ok, out |-> out] \in CleanFrame
         /\ [fn |-> fn, inst |-> i, at |-> "inside", ok |-> ok, out |-> NoString] \in CleanFrame
         /\ [fn |-> fn, inst |-> i, at |-> "done", ok |-> ok, out |-> NoString] \in CleanFrame
BY DEF CleanFrame, Frame, NoString

\* What each of the three steps of a call makes of its frame.
LEMMA EnterMakes ==
  ASSUME NEW t, Top(t) \in CleanFrame, Enter(t)
  PROVE  LET f == Top(t)
             g == [fn |-> f.fn, inst |-> f.inst, at |-> "inside", ok |-> f.ok, out |-> NoString]
         IN  f.at = "entry" /\ f.out = NoString /\ g \in CleanFrame /\ frames' = SetTop(t, g)
<1> DEFINE f == Top(t)
           g == [fn |-> f.fn, inst |-> f.inst, at |-> "inside", ok |-> f.ok, out |-> NoString]
<1>1. f.at = "entry" /\ f.out = NoString /\ IsFrame(f) /\ g \in CleanFrame
  <2>1. f.at = "entry" /\ frames' = SetTop(t, [f EXCEPT !.at = "inside"])
    BY DEF Enter
  <2>2. QED BY <2>1, CleanFrames, RecordIsClean
<1>2. [f EXCEPT !.at = "inside"] = g
  BY <1>1, OneField
<1>3. frames' = SetTop(t, [f EXCEPT !.at = "inside"])
  BY DEF Enter
<1>4. QED BY <1>1, <1>2, <1>3

LEMMA ReturnMakes ==
  ASSUME HeapTyped, NEW t, Top(t) \in CleanFrame, NEW ok \in BOOLEAN, Return(t, ok)
  PROVE  LET f == Top(t)
             G(out) == [fn |-> f.fn, inst |-> f.inst, at |-> "returned", ok |-> ok, out |-> out]
         IN  /\ f.at = "inside" /\ f.out = NoString
             /\ \/ heap' = heap /\ frames' = SetTop(t, G(NoString)) /\ G(NoString) \in CleanFrame
                \/ LET s == Alloc(f.fn, ok)
                   IN  heap' = s.heap /\ frames' = SetTop(t, G(s.ptr)) /\ G(s.ptr) \in CleanFrame
<1> DEFINE f == Top(t)
           s == Alloc(f.fn, ok)
           G(out) == [fn |-> f.fn, inst |-> f.inst, at |-> "returned", ok |-> ok, out |-> out]
<1>1. f.at = "inside" /\ f.out = NoString /\ IsFrame(f) /\ f.fn \in Calls /\ f.inst \in Instances \cup {Nobody}
  <2>1. f.at = "inside"
    BY DEF Return
  <2>2. QED BY <2>1, CleanFrames
<1>2. \A out : [f EXCEPT !.at = "returned", !.ok = ok, !.out = out] = G(out)
  BY <1>1, FrameReturns
<1>3. s.ptr \in Nat /\ NoString \in Nat
  BY <1>1, AllocIsFresh DEF NoString
<1>4. G(NoString) \in CleanFrame /\ G(s.ptr) \in CleanFrame
  BY <1>1, <1>3, RecordIsClean
<1>5. \/ heap' = heap /\ frames' = SetTop(t, [f EXCEPT !.at = "returned", !.ok = ok, !.out = NoString])
      \/ heap' = s.heap /\ frames' = SetTop(t, [f EXCEPT !.at = "returned", !.ok = ok, !.out = s.ptr])
  BY DEF Return
<1>6. QED BY <1>1, <1>2, <1>4, <1>5

LEMMA ReadMakes ==
  ASSUME NEW t, Top(t) \in CleanFrame, ReadOut(t)
  PROVE  LET f == Top(t)
             g == [fn |-> f.fn, inst |-> f.inst, at |-> "done", ok |-> f.ok, out |-> NoString]
         IN  f.at = "returned" /\ g \in CleanFrame /\ frames' = SetTop(t, g)
<1> DEFINE f == Top(t)
           g == [fn |-> f.fn, inst |-> f.inst, at |-> "done", ok |-> f.ok, out |-> NoString]
<1>1. f.at = "returned" /\ IsFrame(f) /\ g \in CleanFrame
  <2>1. f.at = "returned"
    BY DEF ReadOut, Read
  <2>2. QED BY <2>1, CleanFrames, RecordIsClean
<1>2. [f EXCEPT !.at = "done", !.out = NoString] = g
  BY <1>1, FrameIsRead
<1>3. frames' = SetTop(t, [f EXCEPT !.at = "done", !.out = NoString])
  BY DEF ReadOut, Read
<1>4. QED BY <1>1, <1>2, <1>3

LEMMA TopStep ==
  ASSUME HeapTyped, NEW t, Top(t) \in CleanFrame,
         Enter(t) \/ (\E ok \in BOOLEAN : Return(t, ok)) \/ ReadOut(t)
  PROVE  /\ HeapTyped'
         /\ \E g \in CleanFrame : g.fn = Top(t).fn /\ g.inst = Top(t).inst /\ frames' = SetTop(t, g)
<1>1. CASE Enter(t)
  <2>1. UNCHANGED heap
    BY <1>1 DEF Enter
  <2>2. QED BY <1>1, <2>1, EnterMakes DEF HeapTyped
<1>2. ASSUME NEW ok \in BOOLEAN, Return(t, ok)
      PROVE  /\ HeapTyped'
             /\ \E g \in CleanFrame : g.fn = Top(t).fn /\ g.inst = Top(t).inst /\ frames' = SetTop(t, g)
  <2>1. CASE heap' = heap
    BY <1>2, <2>1, ReturnMakes DEF HeapTyped
  <2>2. CASE heap' # heap
    <3>1. Top(t).fn \in Calls
      BY CleanFrames
    <3>2. heap' = Alloc(Top(t).fn, ok).heap
      BY <1>2, <2>2, ReturnMakes
    <3>3. HeapTyped'
      <4>1. Alloc(Top(t).fn, ok).ptr \in Nat \ {NoString}
            /\ DOMAIN heap' = DOMAIN heap \cup {Alloc(Top(t).fn, ok).ptr} /\ IsFiniteSet(DOMAIN heap')
            /\ \A x \in DOMAIN heap' : heap'[x] \in [fn : Calls, ok : BOOLEAN]
        BY <3>1, <3>2, AllocIsFresh
      <4>2. QED BY <4>1 DEF HeapTyped
    <3>4. QED BY <1>2, <2>2, <3>3, ReturnMakes
  <2>3. QED BY <2>1, <2>2
<1>3. CASE ReadOut(t)
  <2>1. HeapTyped'
    BY <1>3, FreeIsTyped DEF ReadOut, Read
  <2>2. QED BY <1>3, <2>1, ReadMakes
<1>4. QED BY <1>1, <1>2, <1>3

-----------------------------------------------------------------------------
(* The shapes of a job thread's stack, and what may follow what.           *)

\* The calls a job thread makes itself: on its connections, or a plugin step.
JobCall(j, f) ==
    \/ /\ f.fn \in {"query_page", "truncate", "batch_insert"}
       /\ f.inst \in {Ds(JobNamed(j).source.connection), Ds(JobNamed(j).target.connection)}
    \/ f.fn = "process" /\ \E s \in PluginsFrom(j, 1) : f.inst = Etl(j, s)

\* The instances of the connections the manager has.
OpenInstances == {Ds(c) : c \in open}

\* A job thread makes one call; a plugin may look something up while it
\* processes a row, and the host queries any open connection for it.
JobStack(j, s) ==
    \/ s = <<>>
    \/ \E f \in CleanFrame : s = <<f>> /\ JobCall(j, f)
    \/ \E f, g \in CleanFrame :
          /\ s = <<f, g>> /\ JobCall(j, f) /\ f.fn = "process" /\ f.at = "inside"
          /\ g.fn = "lookup" /\ g.inst = Nobody
    \/ \E f, g, h \in CleanFrame :
          /\ s = <<f, g, h>> /\ JobCall(j, f) /\ f.fn = "process" /\ f.at = "inside"
          /\ g.fn = "lookup" /\ g.inst = Nobody /\ g.at = "inside"
          /\ h.fn = "query_params" /\ h.inst \in OpenInstances

\* The two stacks inside a plugin's call, by what is below the top.
InLookup(j, s, g) == \E f \in CleanFrame : s = <<f, g>> /\ JobCall(j, f) /\ f.fn = "process" /\ f.at = "inside"
InQuery(j, s, h) ==
    \E f, g \in CleanFrame :
       /\ s = <<f, g, h>> /\ JobCall(j, f) /\ f.fn = "process" /\ f.at = "inside"
       /\ g.fn = "lookup" /\ g.inst = Nobody /\ g.at = "inside"

JobConnected(j) == {JobNamed(j).source.connection, JobNamed(j).target.connection} \subseteq open

StackInv ==
    /\ BuiltInv /\ HeapTyped
    /\ ~Idle(Main) => Top(Main) \in CleanFrame
    /\ \A c \in Connectors : ~Idle(Connector(c)) =>
          Top(Connector(c)) \in CleanFrame /\ Top(Connector(c)).fn = "connect" /\ Top(Connector(c)).inst = Ds(c)
    /\ \A j \in JobNames : JobStack(j, frames[JobThread(j)]) /\ (~Idle(JobThread(j)) => JobConnected(j))

\* A job that has a thread is the one of its name, and was built.
LEMMA JobNamedIsBuilt ==
  ASSUME JobsInv, NEW j \in spawned
  PROVE  \E k \in DOMAIN jobs : /\ JobNamed(j) = jobs[k] /\ jobs[k].name = j /\ jobs[k].enabled
                                /\ k < building.job
<1>1. PICK k \in DOMAIN jobs : jobs[k].name = j /\ jobs[k].enabled /\ k < building.job
  BY DEF JobsInv
<1>2. DOMAIN jobs \subseteq Nat \ {0} /\ NamesDiffer
  BY DEF JobsInv
<1>3. k \in EnabledFrom(1)
  BY <1>1, <1>2 DEF EnabledFrom
<1>4. \A i \in EnabledFrom(1) : jobs[i].name = j => i = k
  BY <1>1, <1>2 DEF EnabledFrom, NamesDiffer
<1>5. JobNamed(j) = jobs[k]
  BY <1>1, <1>3, <1>4 DEF JobNamed
<1>6. QED BY <1>1, <1>5

\* The shapes of a stack, apart.
LEMMA TopOfJobStack ==
  ASSUME NEW j, NEW t, JobStack(j, frames[t]), ~Idle(t)
  PROVE  /\ Top(t) \in CleanFrame
         /\ \/ Top(t).fn \notin {"lookup", "query_params"} /\ frames[t] = <<Top(t)>> /\ JobCall(j, Top(t))
            \/ Top(t).fn = "lookup" /\ Top(t).inst = Nobody /\ InLookup(j, frames[t], Top(t))
            \/ /\ Top(t).fn = "query_params" /\ Top(t).inst \in OpenInstances
               /\ InQuery(j, frames[t], Top(t))
<1>1. ASSUME NEW f \in CleanFrame, frames[t] = <<f>>, JobCall(j, f)
      PROVE  f = Top(t) /\ f.fn \notin {"lookup", "query_params"}
  BY <1>1, OneCall DEF Top, JobCall
<1>2. ASSUME NEW f, NEW g, frames[t] = <<f, g>> PROVE g = Top(t)
  BY <1>2, TwoCalls DEF Top
<1>3. ASSUME NEW f, NEW g, NEW h, frames[t] = <<f, g, h>> PROVE h = Top(t)
  <2>1. Last(<<f, g, h>>) = h
    BY ThreeCalls
  <2>2. QED BY <1>3, <2>1 DEF Top
<1>4. CASE \E f \in CleanFrame : frames[t] = <<f>> /\ JobCall(j, f)
  BY <1>1, <1>4
<1>5. ASSUME NEW f \in CleanFrame, NEW g \in CleanFrame, frames[t] = <<f, g>>, JobCall(j, f), f.fn = "process",
             f.at = "inside", g.fn = "lookup", g.inst = Nobody
      PROVE  /\ Top(t) \in CleanFrame /\ Top(t).fn = "lookup" /\ Top(t).inst = Nobody
             /\ InLookup(j, frames[t], Top(t))
  BY <1>2, <1>5 DEF InLookup
<1>6. ASSUME NEW f \in CleanFrame, NEW g \in CleanFrame, NEW h \in CleanFrame, frames[t] = <<f, g, h>>,
             JobCall(j, f), f.fn = "process", f.at = "inside",
             g.fn = "lookup", g.inst = Nobody, g.at = "inside",
             h.fn = "query_params", h.inst \in OpenInstances
      PROVE  /\ Top(t) \in CleanFrame /\ Top(t).fn = "query_params"
             /\ Top(t).inst \in OpenInstances
             /\ InQuery(j, frames[t], Top(t))
  <2>1. h = Top(t)
    BY <1>3, <1>6
  <2>2. QED BY <1>6, <2>1 DEF InQuery
<1>7. CASE \E f, g \in CleanFrame :
             /\ frames[t] = <<f, g>> /\ JobCall(j, f) /\ f.fn = "process" /\ f.at = "inside"
             /\ g.fn = "lookup" /\ g.inst = Nobody
  BY <1>5, <1>7
<1>8. CASE \E f, g, h \in CleanFrame :
             /\ frames[t] = <<f, g, h>> /\ JobCall(j, f) /\ f.fn = "process" /\ f.at = "inside"
             /\ g.fn = "lookup" /\ g.inst = Nobody /\ g.at = "inside"
             /\ h.fn = "query_params" /\ h.inst \in OpenInstances
  BY <1>6, <1>8
<1>9. QED BY <1>4, <1>7, <1>8 DEF JobStack, Idle

\* The top of a job's stack in another place.
LEMMA NewTop ==
  ASSUME NEW j, NEW t \in Threads, FramesFunction, JobStack(j, frames[t]), ~Idle(t),
         NEW g \in CleanFrame, g.fn = Top(t).fn, g.inst = Top(t).inst, frames' = SetTop(t, g)
  PROVE  JobStack(j, frames'[t]) /\ ~Idle(t)' /\ Top(t)' = g
<1>1. frames'[t] = Front(frames[t]) \o <<g>>
  BY DEF SetTop, FramesFunction
<1>2. CASE Top(t).fn \notin {"lookup", "query_params"}
  <2>1. frames[t] = <<Top(t)>> /\ JobCall(j, Top(t))
    BY <1>2, TopOfJobStack
  <2>2. frames'[t] = <<g>> /\ JobCall(j, g)
    BY <1>1, <2>1, OneCall DEF JobCall
  <2>3. QED BY <2>2, OneCall DEF JobStack, Idle, Top
<1>3. CASE Top(t).fn = "lookup"
  <2>0. InLookup(j, frames[t], Top(t))
    BY <1>3, TopOfJobStack
  <2>1. PICK f \in CleanFrame : frames[t] = <<f, Top(t)>> /\ JobCall(j, f) /\ f.fn = "process" /\ f.at = "inside"
    BY <2>0 DEF InLookup
  <2>2. Top(t).inst = Nobody
    BY <1>3, TopOfJobStack
  <2>3. frames'[t] = <<f, g>>
    <3>1. Front(<<f, Top(t)>>) = <<f>> /\ <<f>> \o <<g>> = <<f, g>>
      BY TwoCalls
    <3>2. QED BY <1>1, <2>1, <3>1
  <2>4. Top(t)' = g /\ ~Idle(t)'
    <3>1. Last(<<f, g>>) = g /\ <<f, g>> # <<>>
      BY TwoCalls
    <3>2. QED BY <2>3, <3>1 DEF Top, Idle
  <2>5. QED BY <1>3, <2>1, <2>2, <2>3, <2>4 DEF JobStack
<1>4. CASE Top(t).fn = "query_params"
  <2>1. InQuery(j, frames[t], Top(t))
    BY <1>4, TopOfJobStack
  <2>2. PICK f \in CleanFrame, e \in CleanFrame :
           /\ frames[t] = <<f, e, Top(t)>> /\ JobCall(j, f) /\ f.fn = "process" /\ f.at = "inside"
           /\ e.fn = "lookup" /\ e.inst = Nobody /\ e.at = "inside"
    BY <2>1 DEF InQuery
  <2>3. Top(t).inst \in OpenInstances
    BY <1>4, TopOfJobStack
  <2>4. frames'[t] = <<f, e, g>>
    <3>1. Front(<<f, e, Top(t)>>) = <<f, e>> /\ <<f, e>> \o <<g>> = <<f, e, g>>
      BY ThreeCalls
    <3>2. QED BY <1>1, <2>2, <3>1
  <2>5. Top(t)' = g /\ ~Idle(t)'
    <3>1. Last(<<f, e, g>>) = g /\ <<f, e, g>> # <<>>
      BY ThreeCalls
    <3>2. QED BY <2>4, <3>1 DEF Top, Idle
  <2>6. QED BY <1>4, <2>2, <2>3, <2>4, <2>5 DEF JobStack
<1>5. QED BY <1>2, <1>3, <1>4

\* What a job's call is made on: instances that exist.
LEMMA JobInstances ==
  ASSUME StackInv, NEW j \in spawned
  PROVE  /\ j \in JobNames
         /\ \A s \in PluginsFrom(j, 1) : Etl(j, s) \in Processors /\ inst[Etl(j, s)] = "ready"
         /\ \A c \in open : c \in Connectors /\ Ds(c) \in Datasources /\ Ds(c) \in Instances /\ inst[Ds(c)] = "ready"
         /\ JobConnected(j) =>
               \A c \in {JobNamed(j).source.connection, JobNamed(j).target.connection} :
                  c \in Connectors /\ Ds(c) \in Datasources /\ Ds(c) \in Instances /\ inst[Ds(c)] = "ready"
<1>1. PICK k \in DOMAIN jobs : JobNamed(j) = jobs[k] /\ jobs[k].name = j /\ jobs[k].enabled /\ k < building.job
  BY JobNamedIsBuilt DEF StackInv, BuiltInv
<1>2. j \in JobNames
  BY <1>1, JobsAreFiles DEF StackInv, BuiltInv
<1>3. ASSUME NEW s \in PluginsFrom(j, 1) PROVE Etl(j, s) \in Processors /\ inst[Etl(j, s)] = "ready"
  <2>1. s \in DOMAIN jobs[k].etl /\ jobs[k].etl[s].kind = "plugin"
    BY <1>1, <1>3 DEF PluginsFrom
  <2>2. Etl(j, s) \in Processors
    BY <1>1, <2>1, JobsAreFiles DEF StackInv, BuiltInv
  <2>3. Ready(k, s)
    BY <1>1, <2>1 DEF StackInv, BuiltInv
  <2>4. QED BY <1>1, <2>1, <2>2, <2>3 DEF Ready
<1>4. ASSUME NEW c \in open
      PROVE  c \in Connectors /\ Ds(c) \in Datasources /\ Ds(c) \in Instances /\ inst[Ds(c)] = "ready"
  <2>1. c \in Connectors
    BY DEF StackInv, BuiltInv, JobsInv, StartInv
  <2>2. OnItsWay(c) /\ worker[c] \in {"off", "calling", "ok", "err"}
    BY <2>1 DEF StackInv, BuiltInv, OwnerInv
  <2>3. inst[Ds(c)] = "ready"
    BY <2>2 DEF OnItsWay
  <2>4. QED BY <2>1, <2>3, InstancesDiffer
<1>5. QED BY <1>2, <1>3, <1>4 DEF JobConnected

\* The next call of a pass is one of the job's calls.
LEMMA FollowsIsJobCall ==
  ASSUME StackInv, NEW j \in spawned, JobConnected(j)
  PROVE  Follows(j) = <<>> \/ \E f \in CleanFrame : Follows(j) = <<f>> /\ JobCall(j, f) /\ f.at = "entry"
<1> DEFINE target == Ds(JobNamed(j).target.connection)
           from == IF Top(JobThread(j)).fn = "process" THEN Top(JobThread(j)).inst[3] + 1 ELSE 1
           steps == PluginsFrom(j, from)
<1>1. target \in Instances
  BY JobInstances
<1>2. ASSUME NEW fn \in {"truncate", "batch_insert"}
      PROVE  NewCall(fn, target) \in CleanFrame /\ JobCall(j, NewCall(fn, target)) /\ NewCall(fn, target).at = "entry"
  <2>1. fn \in Calls
    BY DEF Calls, EmptyCalls, SilentCalls
  <2>2. NewCall(fn, target) \in CleanFrame
    BY <1>1, <2>1, CleanFrames
  <2>3. JobCall(j, NewCall(fn, target)) /\ NewCall(fn, target).at = "entry"
    BY DEF JobCall, NewCall
  <2>4. QED BY <2>2, <2>3
<1>3. ASSUME steps # {}
      PROVE  LET f == NewCall("process", Etl(j, Min(steps)))
             IN  f \in CleanFrame /\ JobCall(j, f) /\ f.at = "entry"
  <2>1. PICK k \in DOMAIN jobs : JobNamed(j) = jobs[k]
    BY JobNamedIsBuilt DEF StackInv, BuiltInv
  <2>2. DOMAIN JobNamed(j).etl \subseteq Nat \ {0}
    BY <2>1, JobsAreFiles DEF StackInv, BuiltInv
  <2>3. Min(steps) \in steps
    <3>1. steps \subseteq Nat
      BY <2>2 DEF PluginsFrom
    <3> HIDE DEF steps
    <3>2. QED BY <1>3, <3>1, LeastIsMin
  <2>4. Min(steps) \in PluginsFrom(j, 1)
    BY <2>2, <2>3 DEF PluginsFrom
  <2>5. "process" \in Calls /\ Etl(j, Min(steps)) \in Instances
    BY <2>4, JobInstances, ProcessorsDiffer DEF Calls, PayloadCalls
  <2>6. NewCall("process", Etl(j, Min(steps))) \in CleanFrame
    BY <2>5, CleanFrames
  <2> HIDE DEF steps
  <2>7. QED BY <2>4, <2>6 DEF JobCall, NewCall
<1>4. \/ Follows(j) = <<>>
      \/ \E fn \in {"truncate", "batch_insert"} : Follows(j) = <<NewCall(fn, target)>>
      \/ steps # {} /\ Follows(j) = <<NewCall("process", Etl(j, Min(steps)))>>
  BY DEF Follows
<1> HIDE DEF target, steps
<1>5. QED BY <1>2, <1>3, <1>4

-----------------------------------------------------------------------------
(* A step of a thread in its own calls.                                    *)

\* A thread that holds no mutex and no string.
Quiet(t) ==
    Idle(t) \/ /\ Top(t) \in CleanFrame /\ Top(t).out = NoString
               /\ ~(Top(t).at = "inside" /\ Top(t).inst \in Datasources)

QuietStep(t) == Quiet(t) /\ Quiet(t)' /\ UNCHANGED <<heap, lock>>

\* The kinds of steps of a thread, as far as mutexes and strings go.
CallStep(t) == QuietStep(t) \/ Enter(t) \/ (\E ok \in BOOLEAN : Return(t, ok)) \/ ReadOut(t) \/ LookupQueried(t)

LEMMA LastOfThree == \A f, g, h : Last(<<f, g, h>>) = h
  BY ThreeCalls, Zenon

LEMMA EntryIsQuiet ==
  ASSUME NEW t, NEW f \in CleanFrame, f.at = "entry",
         NEW s, s = <<f>> \/ \E g : s = <<g, f>> \/ \E e : s = <<e, g, f>>,
         (frames[t])' = s
  PROVE  Quiet(t)'
<1>1. Last(s) = f
  <2>1. ASSUME NEW e, NEW g, s = <<e, g, f>> PROVE Last(s) = f
    <3>1. Last(<<e, g, f>>) = f
      BY LastOfThree, SMT
    <3>2. QED BY <2>1, <3>1, Zenon
  <2>2. ASSUME NEW g, s = <<g, f>> PROVE Last(s) = f
    BY <2>2, TwoCalls
  <2>3. CASE s = <<f>>
    BY <2>3, OneCall
  <2>4. QED BY <2>1, <2>2, <2>3
<1>2. f.out = NoString
  BY CleanFrames
<1>3. QED BY <1>1, <1>2 DEF Quiet, Top

\* The host answers the plugin: the query is done, the callback returns.
Answered(t) ==
    LET string == Alloc("lookup", Top(t).ok)
    IN  [fn |-> "lookup", inst |-> Nobody, at |-> "returned", ok |-> Top(t).ok, out |-> string.ptr]

LEMMA LookupReturns ==
  ASSUME FramesFunction, HeapTyped, NEW j, NEW t \in Threads, JobStack(j, frames[t]), LookupQueried(t)
  PROVE  /\ ~Idle(t) /\ Top(t).fn = "query_params" /\ Top(t).at = "done" /\ Top(t) \in CleanFrame
         /\ heap' = Alloc("lookup", Top(t).ok).heap
         /\ HeapTyped' /\ JobStack(j, frames'[t]) /\ Answered(t) \in CleanFrame
         /\ Top(t)' = Answered(t) /\ ~Idle(t)'
<1> DEFINE string == Alloc("lookup", Top(t).ok)
           e == Answered(t)
<1>1. /\ Top(t).fn = "query_params" /\ Top(t).at = "done" /\ ~Idle(t) /\ heap' = string.heap
  BY DEF LookupQueried, In
<1>2. PICK f \in CleanFrame, g \in CleanFrame :
         /\ frames[t] = <<f, g, Top(t)>> /\ JobCall(j, f) /\ f.fn = "process" /\ f.at = "inside"
         /\ g.fn = "lookup" /\ g.inst = Nobody /\ g.at = "inside"
  <2>1. InQuery(j, frames[t], Top(t))
    BY <1>1, TopOfJobStack
  <2>2. QED BY <2>1 DEF InQuery
<1>3. Top(t) \in CleanFrame /\ Top(t).ok \in BOOLEAN /\ "lookup" \in Calls
  BY <1>1, TopOfJobStack, CleanFrames DEF Calls, PayloadCalls
<1>4. e \in CleanFrame /\ HeapTyped'
  <2>1. /\ string.ptr \in Nat \ {NoString} /\ DOMAIN string.heap = DOMAIN heap \cup {string.ptr}
        /\ IsFiniteSet(DOMAIN string.heap)
        /\ \A x \in DOMAIN string.heap : string.heap[x] \in [fn : Calls, ok : BOOLEAN]
    BY <1>3, AllocIsFresh
  <2>2. QED BY <1>1, <1>3, <2>1, RecordIsClean DEF HeapTyped, Answered
<1>5. frames'[t] = <<f, e>>
  <2>1. /\ Front(<<f, g, Top(t)>>) = <<f, g>> /\ Len(<<f, g, Top(t)>>) = 3 /\ <<f, g, Top(t)>>[2] = g
        /\ Front(<<f, g>>) = <<f>> /\ <<f>> \o <<e>> = <<f, e>>
    <3> HIDE DEF e
    <3>1. Front(<<f, g, Top(t)>>) = <<f, g>> /\ Len(<<f, g, Top(t)>>) = 3
      BY ThreeCalls
    <3>2. Front(<<f, g>>) = <<f>> /\ <<f>> \o <<e>> = <<f, e>>
      BY TwoCalls
    <3>3. QED BY <3>1, <3>2
  <2>2. frames[t][Len(frames[t]) - 1] = g /\ Front(Front(frames[t])) = <<f>>
    BY <1>2, <2>1
  <2>3. [g EXCEPT !.at = "returned", !.ok = Top(t).ok, !.out = string.ptr] = e
    <3>1. IsFrame(g)
      BY CleanFrames
    <3>2. \A k, p : [g EXCEPT !.at = "returned", !.ok = k, !.out = p]
                      = [fn |-> g.fn, inst |-> g.inst, at |-> "returned", ok |-> k, out |-> p]
      BY <3>1, FrameReturns
    <3> HIDE DEF string
    <3>3. [g EXCEPT !.at = "returned", !.ok = Top(t).ok, !.out = string.ptr]
             = [fn |-> g.fn, inst |-> g.inst, at |-> "returned", ok |-> Top(t).ok, out |-> string.ptr]
      BY <3>2, Zenon
    <3>4. e = [fn |-> "lookup", inst |-> Nobody, at |-> "returned", ok |-> Top(t).ok, out |-> string.ptr]
      BY DEF Answered, string
    <3>5. QED BY <1>2, <3>3, <3>4, Zenon
  <2> HIDE DEF e
  <2>4. QED BY <2>1, <2>2, <2>3 DEF LookupQueried, FramesFunction
<1>6. e.fn = "lookup" /\ e.inst = Nobody
  BY DEF Answered
<1> HIDE DEF e
<1>7. JobStack(j, frames'[t])
  BY <1>2, <1>4, <1>5, <1>6 DEF JobStack
<1>8. Top(t)' = e /\ ~Idle(t)'
  <2>1. Last(<<f, e>>) = e /\ <<f, e>> # <<>>
    BY TwoCalls
  <2>2. QED BY <1>5, <2>1 DEF Top, Idle
<1>9. QED BY <1>1, <1>3, <1>4, <1>7, <1>8 DEF e

LEMMA JobStackStep ==
  ASSUME StackInv, NEW j \in JobNames, JobStep(j)
  PROVE  /\ HeapTyped' /\ JobStack(j, frames'[JobThread(j)])
         /\ (~Idle(JobThread(j))' => JobConnected(j)) /\ CallStep(JobThread(j))
<1> DEFINE t == JobThread(j)
           source == JobNamed(j).source.connection
<1>1. /\ FramesFunction /\ t \in Threads /\ JobStack(j, frames[t]) /\ (~Idle(t) => JobConnected(j)) /\ HeapTyped
      /\ j \in spawned
  BY ThreadsDiffer, JobCalls DEF StackInv, BuiltInv, JobsInv, StartInv
<1> HIDE DEF t
<1>2. CASE StartPass(j)
  <2> DEFINE f == NewCall("query_page", Ds(source))
  <2>1. /\ Idle(t) /\ JobConnected(j) /\ UNCHANGED <<heap, lock>> /\ frames' = Pushed(t, "query_page", Ds(source))
    BY <1>2 DEF StartPass, Call, JobConnected, t
  <2>2. Ds(source) \in Instances /\ "query_page" \in Calls
    BY <1>1, <2>1, JobInstances DEF Calls, PayloadCalls
  <2>3. f \in CleanFrame /\ f.at = "entry" /\ JobCall(j, f)
    <3>1. f \in CleanFrame
      BY <2>2, CleanFrames
    <3>2. QED BY <3>1 DEF NewCall, JobCall
  <2>4. frames'[t] = <<f>>
    BY <1>1, <2>1, OneCall DEF Pushed, Idle, FramesFunction
  <2> HIDE DEF f
  <2>5. Quiet(t)'
    BY <2>3, <2>4, EntryIsQuiet
  <2>6. JobStack(j, frames'[t])
    BY <2>3, <2>4 DEF JobStack
  <2>7. HeapTyped'
    BY <1>1, <2>1 DEF HeapTyped
  <2>8. QED BY <2>1, <2>5, <2>6, <2>7 DEF CallStep, QuietStep, Quiet, t
<1>3. CASE Proceed(j)
  <2>1. /\ Top(t).at = "done" /\ UNCHANGED <<heap, lock>> /\ frames'[t] = Follows(j) /\ ~Idle(t)
    <3>1. Len(frames[t]) = 1 /\ Top(t).at = "done" /\ UNCHANGED <<heap, lock>> /\ frames'[t] = Follows(j)
      BY <1>1, <1>3 DEF Proceed, FramesFunction, t
    <3>2. Len(<<>>) = 0
      OBVIOUS
    <3>3. QED BY <3>1, <3>2 DEF Idle
  <2>2. Quiet(t)
    BY <1>1, <2>1, TopOfJobStack, CleanFrames DEF Quiet
  <2>3. JobConnected(j) /\ HeapTyped'
    BY <1>1, <2>1 DEF HeapTyped
  <2>4. Follows(j) = <<>> \/ \E f \in CleanFrame : Follows(j) = <<f>> /\ JobCall(j, f) /\ f.at = "entry"
    BY <1>1, <2>3, FollowsIsJobCall
  <2>5. CASE Follows(j) = <<>>
    BY <2>1, <2>2, <2>3, <2>5 DEF JobStack, CallStep, QuietStep, Quiet, Idle, t
  <2>6. ASSUME NEW f \in CleanFrame, Follows(j) = <<f>>, JobCall(j, f), f.at = "entry"
        PROVE  Quiet(t)' /\ JobStack(j, frames'[t])
    BY <2>1, <2>6, EntryIsQuiet DEF JobStack
  <2>7. QED BY <2>1, <2>2, <2>3, <2>4, <2>5, <2>6 DEF CallStep, QuietStep, t
<1>4. CASE EnterCall(t) \/ ReturnCall(t) \/ ReadResult(t) \/ (In(t, "lookup", "inside") /\ Return(t, FALSE))
  <2>1. ~Idle(t) /\ (Enter(t) \/ (\E ok \in BOOLEAN : Return(t, ok)) \/ ReadOut(t))
    BY <1>1, <1>4, StackSteps DEF EnterCall, ReturnCall, ReadResult
  <2>2. Top(t) \in CleanFrame
    BY <1>1, <2>1, TopOfJobStack
  <2>3. PICK g \in CleanFrame : g.fn = Top(t).fn /\ g.inst = Top(t).inst /\ frames' = SetTop(t, g)
    BY <1>1, <2>1, <2>2, TopStep
  <2>4. HeapTyped' /\ JobStack(j, frames'[t])
    BY <1>1, <2>1, <2>2, <2>3, TopStep, NewTop
  <2>5. QED BY <1>1, <2>1, <2>4 DEF CallStep, t
<1>5. CASE Lookup(t)
  <2> DEFINE g == NewCall("lookup", Nobody)
  <2>1. /\ Top(t).fn = "process" /\ Top(t).at = "inside" /\ ~Idle(t) /\ UNCHANGED <<heap, lock>>
        /\ frames'[t] = Append(frames[t], g)
    BY <1>1, <1>5 DEF Lookup, In, Call, Pushed, FramesFunction
  <2>2. frames[t] = <<Top(t)>> /\ JobCall(j, Top(t)) /\ Top(t) \in CleanFrame
    BY <1>1, <2>1, TopOfJobStack
  <2>3. frames'[t] = <<Top(t), g>>
    BY <2>1, <2>2, TwoCalls
  <2>4. g \in CleanFrame /\ g.fn = "lookup" /\ g.inst = Nobody /\ g.at = "entry"
    <3>1. g \in CleanFrame
      BY CleanFrames DEF Calls, PayloadCalls
    <3>2. QED BY <3>1 DEF NewCall
  <2> HIDE DEF g
  <2>5. JobStack(j, frames'[t])
    BY <2>1, <2>2, <2>3, <2>4 DEF JobStack
  <2>6. Top(t).inst \notin Datasources /\ Top(t).out = NoString
    <3>1. Top(t).inst \in Processors
      BY <1>1, <2>1, <2>2, JobInstances DEF JobCall
    <3>2. QED BY <2>1, <2>2, <3>1, ProcessorsDiffer, CleanFrames
  <2>7. Quiet(t) /\ Quiet(t)'
    BY <2>2, <2>3, <2>4, <2>6, EntryIsQuiet DEF Quiet
  <2>8. HeapTyped'
    BY <1>1, <2>1 DEF HeapTyped
  <2>9. QED BY <1>1, <2>1, <2>5, <2>7, <2>8 DEF CallStep, QuietStep, t
<1>6. ASSUME NEW c \in open, DoLookup(t, Ds(c))
      PROVE  HeapTyped' /\ JobStack(j, frames'[t]) /\ (~Idle(t)' => JobConnected(j)) /\ CallStep(t)
  <2> DEFINE h == NewCall("query_params", Ds(c))
  <2>1. /\ Top(t).fn = "lookup" /\ Top(t).at = "inside" /\ ~Idle(t) /\ UNCHANGED <<heap, lock>>
        /\ frames'[t] = Append(frames[t], h)
    BY <1>1, <1>6 DEF DoLookup, In, Call, Pushed, FramesFunction
  <2>2. PICK f \in CleanFrame : /\ frames[t] = <<f, Top(t)>> /\ JobCall(j, f) /\ f.fn = "process" /\ f.at = "inside"
                                /\ Top(t).inst = Nobody
    <3>1. Top(t).inst = Nobody /\ InLookup(j, frames[t], Top(t))
      BY <1>1, <2>1, TopOfJobStack
    <3>2. QED BY <3>1 DEF InLookup
  <2>3. frames'[t] = <<f, Top(t), h>>
    <3>1. Append(<<f, Top(t)>>, h) = <<f, Top(t), h>>
      BY ThreeCalls
    <3>2. QED BY <2>1, <2>2, <3>1
  <2>4. /\ h \in CleanFrame /\ h.fn = "query_params" /\ h.inst \in OpenInstances /\ h.at = "entry"
        /\ Top(t) \in CleanFrame
    <3>1. Ds(c) \in Instances /\ "query_params" \in Calls
      BY <1>1, <1>6, <2>1, JobInstances DEF Calls, PayloadCalls
    <3>2. h \in CleanFrame
      BY <3>1, CleanFrames
    <3>3. QED BY <1>1, <1>6, <2>1, <3>2, TopOfJobStack DEF NewCall, OpenInstances
  <2> HIDE DEF h
  <2>5. JobStack(j, frames'[t])
    BY <2>1, <2>2, <2>3, <2>4 DEF JobStack
  <2>6. Top(t).inst \notin Datasources /\ Top(t).out = NoString
    BY <2>1, <2>2, <2>4, PluginCallsAssumption, CleanFrames DEF Instances
  <2>7. Quiet(t) /\ Quiet(t)'
    <3>1. \E g : <<f, Top(t), h>> = <<g, h>> \/ \E e : <<f, Top(t), h>> = <<e, g, h>>
      OBVIOUS
    <3>2. Quiet(t)'
      BY <2>3, <2>4, <3>1, EntryIsQuiet
    <3>3. QED BY <2>4, <2>6, <3>2 DEF Quiet
  <2>8. HeapTyped'
    BY <1>1, <2>1 DEF HeapTyped
  <2>9. QED BY <1>1, <2>1, <2>5, <2>7, <2>8 DEF CallStep, QuietStep, t
<1>7. CASE LookupQueried(t)
  BY <1>1, <1>7, LookupReturns DEF CallStep, t
<1>8. CASE LookupDone(t)
  <2>1. /\ Top(t).fn = "lookup" /\ Top(t).at = "done" /\ ~Idle(t) /\ UNCHANGED <<heap, lock>>
        /\ frames'[t] = Front(frames[t])
    BY <1>1, <1>8 DEF LookupDone, In, Popped, FramesFunction
  <2>2. PICK f \in CleanFrame : frames[t] = <<f, Top(t)>> /\ JobCall(j, f) /\ f.fn = "process" /\ f.at = "inside"
    <3>1. InLookup(j, frames[t], Top(t))
      BY <1>1, <2>1, TopOfJobStack
    <3>2. QED BY <3>1 DEF InLookup
  <2>3. frames'[t] = <<f>> /\ Top(t)' = f
    <3>1. frames'[t] = <<f>>
      BY <2>1, <2>2, TwoCalls
    <3>2. QED BY <3>1, OneCall DEF Top
  <2>4. f.inst \notin Datasources /\ f.out = NoString
    BY <1>1, <2>2, JobInstances, ProcessorsDiffer, CleanFrames DEF JobCall
  <2>5. Quiet(t)'
    BY <2>3, <2>4 DEF Quiet
  <2>6. Quiet(t) /\ HeapTyped'
    BY <1>1, <2>1, TopOfJobStack, CleanFrames DEF Quiet, HeapTyped
  <2>7. JobStack(j, frames'[t])
    BY <2>2, <2>3 DEF JobStack
  <2>8. QED BY <1>1, <2>1, <2>5, <2>6, <2>7 DEF CallStep, QuietStep, t
<1>9. QED BY <1>2, <1>3, <1>4, <1>5, <1>6, <1>7, <1>8 DEF JobStep, JobLooksUp, t

-----------------------------------------------------------------------------
(* The threads that make one call at a time, and all of them together.     *)

\* The calls of the threads that make one call at a time.
LoneCalls ==
    /\ ~Idle(Main) => Top(Main) \in CleanFrame
    /\ \A c \in Connectors : ~Idle(Connector(c)) =>
          Top(Connector(c)) \in CleanFrame /\ Top(Connector(c)).fn = "connect" /\ Top(Connector(c)).inst = Ds(c)

LEMMA SameJobs ==
  ASSUME UNCHANGED jobs, NEW j
  PROVE  JobNamed(j)' = JobNamed(j) /\ PluginsFrom(j, 1)' = PluginsFrom(j, 1)
<1>1. EnabledFrom(1)' = EnabledFrom(1)
  BY DEF EnabledFrom
<1>2. JobNamed(j)' = JobNamed(j)
  BY <1>1 DEF JobNamed
<1>3. QED BY <1>2 DEF PluginsFrom

LEMMA SameStack ==
  ASSUME UNCHANGED jobs, open \subseteq open', NEW j, NEW t, JobStack(j, frames'[t])
  PROVE  JobStack(j, frames[t])'
<1>1. OpenInstances \subseteq OpenInstances'
  BY DEF OpenInstances
<1>2. QED BY <1>1, SameJobs DEF JobStack, JobCall

LEMMA StacksNext ==
  ASSUME BuiltInv', HeapTyped', LoneCalls', open \subseteq open',
         \A j \in JobNames : \/ Idle(JobThread(j))'
                             \/ UNCHANGED jobs /\ JobStack(j, frames'[JobThread(j)]) /\ JobConnected(j)
  PROVE  StackInv'
<1>1. ASSUME NEW j \in JobNames
      PROVE  (JobStack(j, frames[JobThread(j)]) /\ (~Idle(JobThread(j)) => JobConnected(j)))'
  <2>1. CASE Idle(JobThread(j))'
    BY <2>1 DEF JobStack, Idle
  <2>2. CASE UNCHANGED jobs /\ JobStack(j, frames'[JobThread(j)]) /\ JobConnected(j)
    <3>1. JobStack(j, frames[JobThread(j)])'
      BY <2>2, SameStack
    <3>2. JobConnected(j)'
      BY <2>2, SameJobs DEF JobConnected
    <3>3. QED BY <3>1, <3>2
  <2>3. QED BY <2>1, <2>2
<1>2. QED BY <1>1 DEF StackInv, LoneCalls

\* A step of a call, by a thread that makes one at a time.
LEMMA LoneCallStep ==
  ASSUME FramesFunction, HeapTyped, NEW t \in Threads, Shallow(t), ~Idle(t) => Top(t) \in CleanFrame,
         EnterCall(t) \/ ReturnCall(t) \/ ReadResult(t)
  PROVE  /\ ~Idle(t) /\ HeapTyped' /\ Top(t)' \in CleanFrame
         /\ Top(t)'.fn = Top(t).fn /\ Top(t)'.inst = Top(t).inst
         /\ CallStep(t) /\ OnlyCallsOf(t) /\ UNCHANGED startVars
<1>1. /\ ~Idle(t) /\ (Enter(t) \/ (\E ok \in BOOLEAN : Return(t, ok)) \/ ReadOut(t))
      /\ OnlyCallsOf(t) /\ UNCHANGED startVars
  BY StackSteps DEF EnterCall, ReturnCall, ReadResult
<1>2. HeapTyped' /\ \E g \in CleanFrame : g.fn = Top(t).fn /\ g.inst = Top(t).inst /\ frames' = SetTop(t, g)
  BY <1>1, TopStep
<1>3. PICK g \in CleanFrame : g.fn = Top(t).fn /\ g.inst = Top(t).inst /\ frames' = SetTop(t, g)
  BY <1>2
<1>4. frames'[t] = <<g>>
  <2>1. frames[t] = <<Top(t)>>
    BY <1>1, AtMostOne
  <2>2. QED BY <1>3, <2>1, OneCall DEF SetTop, FramesFunction
<1>5. Top(t)' = g
  BY <1>4, OneCall DEF Top
<1>6. QED BY <1>1, <1>2, <1>3, <1>5 DEF CallStep

\* A thread that makes one call at a time begins and ends one.
LEMMA LoneCallBegins ==
  ASSUME FramesFunction, NEW t \in Threads, Idle(t), NEW fn \in Calls, NEW i \in Instances,
         frames' = Pushed(t, fn, i), UNCHANGED <<heap, lock>>
  PROVE  /\ Top(t)' \in CleanFrame /\ Top(t)'.fn = fn /\ Top(t)'.inst = i
         /\ CallStep(t) /\ OnlyCallsOf(t)
<1> DEFINE f == NewCall(fn, i)
<1>1. f \in CleanFrame /\ f.fn = fn /\ f.inst = i /\ f.at = "entry"
  <2>1. f \in CleanFrame
    BY CleanFrames
  <2>2. QED BY <2>1 DEF NewCall
<1>2. frames'[t] = <<f>> /\ OnlyCallsOf(t)
  BY OneCall DEF Pushed, Idle, FramesFunction, OnlyCallsOf
<1> HIDE DEF f
<1>3. Top(t)' = f
  BY <1>2, OneCall DEF Top
<1>4. Quiet(t) /\ Quiet(t)'
  BY <1>1, <1>2, EntryIsQuiet DEF Quiet
<1>5. QED BY <1>1, <1>2, <1>3, <1>4 DEF CallStep, QuietStep

LEMMA LoneCallEnds ==
  ASSUME FramesFunction, NEW t \in Threads, Shallow(t), ~Idle(t), Top(t) \in CleanFrame, Top(t).at = "done",
         frames' = Popped(t), UNCHANGED <<heap, lock>>
  PROVE  Idle(t)' /\ CallStep(t) /\ OnlyCallsOf(t)
<1>1. frames'[t] = <<>> /\ OnlyCallsOf(t)
  <2>1. frames[t] = <<Top(t)>>
    BY AtMostOne
  <2>2. QED BY <2>1, OneCall DEF Popped, FramesFunction, OnlyCallsOf
<1>2. Idle(t)' /\ Quiet(t)'
  BY <1>1 DEF Idle, Quiet
<1>3. Quiet(t)
  BY CleanFrames DEF Quiet
<1>4. QED BY <1>1, <1>2, <1>3 DEF CallStep, QuietStep

\* What happens to the calls in one step: nothing, or a step of one thread's.
CallsMove == UNCHANGED <<heap, lock, frames>> \/ \E t \in Threads : OnlyCallsOf(t) /\ CallStep(t)

LEMMA StackStep ==
  ASSUME StackInv, [StartupNext]_<<startVars, callVars>>
  PROVE  StackInv' /\ CallsMove
<1>1. /\ BuiltInv' /\ BuiltInv /\ HeapTyped /\ LoneCalls /\ FramesFunction /\ Main \in Threads /\ Shallow(Main)
      /\ \A c \in Connectors : Connector(c) \in Threads /\ Shallow(Connector(c))
      /\ \A j \in JobNames : /\ JobThread(j) \in Threads /\ JobStack(j, frames[JobThread(j)])
                             /\ (~Idle(JobThread(j)) => JobConnected(j))
  BY BuiltStep, ThreadsDiffer DEF StackInv, LoneCalls, BuiltInv, JobsInv, StartInv, OwnerInv, OnItsWay
<1>2. ASSUME UNCHANGED jobs, open \subseteq open', HeapTyped', LoneCalls',
             \A j \in JobNames : frames'[JobThread(j)] = frames[JobThread(j)]
      PROVE  StackInv'
  BY <1>1, <1>2, StacksNext DEF Idle
<1>3. ASSUME UNCHANGED frames, UNCHANGED heap PROVE HeapTyped' /\ LoneCalls'
  BY <1>1, <1>3 DEF HeapTyped, LoneCalls, Idle, Top
<1>4. CASE UNCHANGED <<startVars, callVars>>
  BY <1>2, <1>3, <1>4 DEF startVars, configVars, callVars, CallsMove
<1>5. ASSUME NEW c \in Connectors, WorkerStep(c) PROVE StackInv' /\ CallsMove
  <2> DEFINE t == Connector(c)
  <2>1. /\ OnlyCallsOf(t) /\ UNCHANGED <<jobs, open>>
        /\ \A j \in JobNames : frames'[JobThread(j)] = frames[JobThread(j)]
        /\ t \in Threads
    <3>1. OnlyCallsOf(t) /\ t \in Threads
      BY <1>1, <1>5, WorkerCalls
    <3>2. UNCHANGED <<jobs, open>>
      BY <1>5 DEF WorkerStep, WorkerCreate, WorkerConnected, WorkerSend, EnterCall, ReturnCall, ReadResult,
         startVars, configVars
    <3>3. QED BY <3>1, <3>2, ThreadsDiffer DEF OnlyCallsOf
  <2>2. ASSUME ~Idle(t)' => Top(t)' \in CleanFrame /\ Top(t)'.fn = "connect" /\ Top(t)'.inst = Ds(c)
        PROVE  LoneCalls'
    <3>1. frames'[Main] = frames[Main] /\ \A d \in Connectors : d # c => frames'[Connector(d)] = frames[Connector(d)]
      BY <2>1, ThreadsDiffer DEF OnlyCallsOf
    <3>2. QED BY <1>1, <2>2, <3>1 DEF LoneCalls, Top, Idle
  <2> HIDE DEF t
  <2>3. CASE WorkerCreate(c)
    <3>1. Idle(t) /\ UNCHANGED <<heap, lock>> /\ (UNCHANGED frames \/ frames' = Pushed(t, "connect", Ds(c)))
      BY <2>3 DEF WorkerCreate, t
    <3>2. CASE UNCHANGED frames
      BY <1>2, <1>3, <2>1, <3>1, <3>2 DEF CallsMove
    <3>3. CASE frames' = Pushed(t, "connect", Ds(c))
      <4>1. "connect" \in Calls /\ Ds(c) \in Instances
        BY InstancesDiffer DEF Calls, SilentCalls
      <4>2. Top(t)' \in CleanFrame /\ Top(t)'.fn = "connect" /\ Top(t)'.inst = Ds(c) /\ CallStep(t)
        BY <1>1, <2>1, <3>1, <3>3, <4>1, LoneCallBegins
      <4>3. HeapTyped' /\ LoneCalls'
        BY <1>1, <2>2, <3>1, <4>2 DEF HeapTyped
      <4>4. QED BY <1>2, <2>1, <4>2, <4>3 DEF CallsMove
    <3>4. QED BY <3>1, <3>2, <3>3
  <2>4. CASE WorkerConnected(c)
    <3>1. ~Idle(t) /\ Top(t).at = "done" /\ frames' = Popped(t) /\ UNCHANGED <<heap, lock>>
      BY <2>4 DEF WorkerConnected, In, t
    <3>2. Shallow(t) /\ Top(t) \in CleanFrame
      BY <1>1, <3>1 DEF LoneCalls, t
    <3>3. Idle(t)' /\ CallStep(t)
      BY <1>1, <2>1, <3>1, <3>2, LoneCallEnds
    <3>4. HeapTyped' /\ LoneCalls'
      BY <1>1, <2>2, <3>1, <3>3 DEF HeapTyped
    <3>5. QED BY <1>2, <2>1, <3>3, <3>4 DEF CallsMove
  <2>5. CASE WorkerSend(c)
    <3>1. UNCHANGED <<heap, lock, frames>>
      BY <2>5 DEF WorkerSend
    <3>2. QED BY <1>2, <1>3, <2>1, <3>1 DEF CallsMove
  <2>6. CASE EnterCall(t) \/ ReturnCall(t) \/ ReadResult(t)
    <3>1. Shallow(t) /\ (~Idle(t) => Top(t) \in CleanFrame)
      BY <1>1 DEF LoneCalls, t
    <3>2. /\ ~Idle(t) /\ HeapTyped' /\ Top(t)' \in CleanFrame
          /\ Top(t)'.fn = Top(t).fn /\ Top(t)'.inst = Top(t).inst /\ CallStep(t)
      BY <1>1, <2>1, <2>6, <3>1, LoneCallStep
    <3>3. Top(t).fn = "connect" /\ Top(t).inst = Ds(c)
      BY <1>1, <3>2 DEF LoneCalls, t
    <3>4. LoneCalls'
      BY <2>2, <3>2, <3>3
    <3>5. QED BY <1>2, <2>1, <3>2, <3>4 DEF CallsMove
  <2>7. QED BY <1>5, <2>3, <2>4, <2>5, <2>6 DEF WorkerStep, t
<1>6. ASSUME NEW j \in JobNames, JobStep(j) PROVE StackInv' /\ CallsMove
  <2>1. /\ HeapTyped' /\ JobStack(j, frames'[JobThread(j)]) /\ (~Idle(JobThread(j))' => JobConnected(j))
        /\ CallStep(JobThread(j))
    BY <1>6, JobStackStep
  <2>2. UNCHANGED startVars /\ OnlyCallsOf(JobThread(j))
    BY <1>1, <1>6, JobCalls
  <2>3. UNCHANGED <<jobs, open>>
    BY <2>2 DEF startVars, configVars
  <2>4. LoneCalls'
    <3>1. frames'[Main] = frames[Main] /\ \A c \in Connectors : frames'[Connector(c)] = frames[Connector(c)]
      BY <2>2, ThreadsDiffer DEF OnlyCallsOf
    <3>2. QED BY <1>1, <3>1 DEF LoneCalls, Top, Idle
  <2>5. ASSUME NEW i \in JobNames
        PROVE  \/ Idle(JobThread(i))'
               \/ JobStack(i, frames'[JobThread(i)]) /\ JobConnected(i)
    <3>1. CASE i = j
      BY <2>1, <3>1
    <3>2. CASE i # j
      <4>1. frames'[JobThread(i)] = frames[JobThread(i)]
        BY <2>2, <3>2, ThreadsDiffer DEF OnlyCallsOf
      <4>2. QED BY <1>1, <4>1 DEF Idle
    <3>3. QED BY <3>1, <3>2
  <2>6. StackInv'
    BY <1>1, <2>1, <2>3, <2>4, <2>5, StacksNext
  <2>7. QED BY <1>1, <2>1, <2>2, <2>6 DEF CallsMove
<1>7. CASE MainStep
  <2>1. OnlyCallsOf(Main) /\ open \subseteq open'
        /\ \A j \in JobNames : frames'[JobThread(j)] = frames[JobThread(j)]
    <3>1. OnlyCallsOf(Main)
      BY <1>1, <1>7, MainCalls
    <3>2. open \subseteq open'
      BY <1>1, <1>7, MainMoves DEF BuiltInv, JobsInv
    <3>3. QED BY <3>1, <3>2, ThreadsDiffer DEF OnlyCallsOf
  <2>2. ASSUME ~Idle(Main)' => Top(Main)' \in CleanFrame PROVE LoneCalls'
    <3>1. \A c \in Connectors : frames'[Connector(c)] = frames[Connector(c)]
      BY <2>1, ThreadsDiffer DEF OnlyCallsOf
    <3>2. QED BY <1>1, <2>2, <3>1 DEF LoneCalls, Top, Idle
  <2>3. CASE LoadConfig \/ LoadPlugins \/ ConnectNext \/ Receive \/ Timeout \/ GiveUp \/ Fatal
             \/ LoadEtlPlugins \/ SpawnJob \/ Park
    <3>1. UNCHANGED <<jobs, heap, lock, frames>>
      BY <2>3 DEF LoadConfig, LoadPlugins, ConnectNext, Receive, Timeout, GiveUp, Fatal,
         LoadEtlPlugins, SpawnJob, Park, callVars, configVars
    <3>2. QED BY <1>2, <1>3, <2>1, <3>1 DEF CallsMove
  <2>4. CASE LoadJobs
    <3>1. pc = "jobs" /\ UNCHANGED <<heap, lock, frames>>
      BY <2>4 DEF LoadJobs, callVars
    <3>2. \A j \in JobNames : Idle(JobThread(j))'
      BY <1>1, <3>1 DEF BuiltInv, JobsInv, StartInv, Idle
    <3>3. QED BY <1>1, <1>3, <2>1, <3>1, <3>2, StacksNext DEF CallsMove
  <2>5. CASE BuildStep
    <3>1. /\ Idle(Main) /\ UNCHANGED <<jobs, heap, lock>>
          /\ \/ UNCHANGED frames
             \/ frames' = Pushed(Main, "configure", Here) /\ UNCHANGED building /\ pc' = pc
      BY <2>5 DEF BuildStep, Building, configVars
    <3>2. CASE UNCHANGED frames
      BY <1>2, <1>3, <2>1, <3>1, <3>2 DEF CallsMove
    <3>3. CASE frames' = Pushed(Main, "configure", Here)
      <4>1. "configure" \in Calls /\ Here \in Instances
        <5>1. TheStep.kind = "plugin" /\ building.step <= Len(TheJob.etl) /\ EnabledFrom(building.job) # {}
          <6>1. frames' # frames
            <7>1. frames'[Main] = Append(<<>>, NewCall("configure", Here)) /\ frames[Main] = <<>>
              BY <1>1, <3>1, <3>3 DEF Pushed, Idle, FramesFunction
            <7>2. Len(frames'[Main]) = 1 /\ Len(<<>>) = 0
              BY <7>1, OneCall
            <7>3. QED BY <7>1, <7>2
          <6>2. QED BY <2>5, <6>1 DEF BuildStep, Building
        <5>2. NextJob \in DOMAIN jobs
          BY <1>1, <5>1, NextJobIsNext DEF BuiltInv
        <5>3. IsList(TheJob.etl) /\ building.step \in Nat \ {0}
          BY <1>1, <5>2, JobsAreFiles DEF TheJob, BuiltInv, JobsInv
        <5>4. building.step \in DOMAIN TheJob.etl
          BY <5>1, <5>3 DEF IsList
        <5>5. Here \in Processors
          BY <1>1, <5>1, <5>2, <5>4, JobsAreFiles DEF TheJob, TheStep, Here, BuiltInv
        <5>6. QED BY <5>5, ProcessorsDiffer DEF Calls, SilentCalls
      <4>2. Top(Main)' \in CleanFrame /\ CallStep(Main)
        BY <1>1, <3>1, <3>3, <4>1, LoneCallBegins
      <4>3. HeapTyped' /\ LoneCalls'
        BY <1>1, <2>2, <3>1, <4>2 DEF HeapTyped
      <4>4. QED BY <1>1, <1>2, <2>1, <3>1, <4>2, <4>3 DEF CallsMove
    <3>4. QED BY <3>1, <3>2, <3>3
  <2>6. CASE StepConfigured
    <3>1. ~Idle(Main) /\ Top(Main).at = "done" /\ frames' = Popped(Main) /\ UNCHANGED <<jobs, heap, lock>>
      BY <2>6 DEF StepConfigured, In, configVars
    <3>2. Idle(Main)' /\ CallStep(Main)
      BY <1>1, <3>1, LoneCallEnds DEF LoneCalls
    <3>3. HeapTyped' /\ LoneCalls'
      BY <1>1, <2>2, <3>1, <3>2 DEF HeapTyped
    <3>4. QED BY <1>1, <1>2, <2>1, <3>1, <3>2, <3>3 DEF CallsMove
  <2>7. CASE EnterCall(Main) \/ ReturnCall(Main) \/ ReadResult(Main)
    <3>1. HeapTyped' /\ Top(Main)' \in CleanFrame /\ CallStep(Main) /\ UNCHANGED startVars
      BY <1>1, <2>7, LoneCallStep DEF LoneCalls
    <3>2. UNCHANGED jobs
      BY <3>1 DEF startVars, configVars
    <3>3. QED BY <1>1, <1>2, <2>1, <2>2, <3>1, <3>2 DEF CallsMove
  <2>8. QED BY <1>7, <2>3, <2>4, <2>5, <2>6, <2>7 DEF MainStep
<1>8. QED BY <1>4, <1>5, <1>6, <1>7 DEF StartupNext

LEMMA StackInitially == StartupInit => StackInv
<1> SUFFICES ASSUME StartupInit PROVE StackInv
  OBVIOUS
<1>1. \A t \in Threads : Idle(t) /\ frames[t] = <<>>
  BY DEF StartupInit, CallsInit, Idle
<1>2. HeapTyped
  <2>1. heap = <<>> /\ DOMAIN <<>> = {}
    BY DEF StartupInit, CallsInit
  <2>2. QED BY <2>1, FS_EmptySet DEF HeapTyped
<1>3. BuiltInv
  BY BuiltInitially
<1>4. QED BY <1>1, <1>2, <1>3, ThreadsDiffer DEF StackInv, JobStack

-----------------------------------------------------------------------------
(* Every call that is under way.                                           *)

\* The calls of a job: all but the innermost are inside a plugin's process.
LEMMA JobFrames ==
  ASSUME StackInv, NEW j \in JobNames, NEW t, t = JobThread(j), NEW i \in DOMAIN frames[t]
  PROVE  LET f == frames[t][i]
         IN  /\ ~Idle(t) /\ j \in spawned /\ JobConnected(j)
             /\ f \in CleanFrame /\ frames[t] \in Seq(CleanFrame)
             /\ f = Top(t) \/ (f.at = "inside" /\ f.inst \notin Datasources)
             /\ \/ JobCall(j, f) \/ f.inst = Nobody
                \/ f.fn = "query_params" /\ f.inst \in OpenInstances
<1>1. /\ JobStack(j, frames[t]) /\ ~Idle(t) /\ j \in spawned /\ JobConnected(j)
  <2>1. ~Idle(t)
    BY DEF Idle
  <2>2. QED BY <2>1 DEF StackInv, BuiltInv, JobsInv, StartInv
<1>2. ASSUME NEW f, JobCall(j, f), f.fn = "process" PROVE f.inst \notin Datasources
  <2>1. f.inst \in Processors
    BY <1>1, <1>2, JobInstances DEF JobCall
  <2>2. QED BY <2>1, ProcessorsDiffer
<1>3. Nobody \notin Datasources
  BY PluginCallsAssumption DEF Instances
<1>4. CASE Top(t).fn \notin {"lookup", "query_params"}
  <2>1. frames[t] = <<Top(t)>> /\ JobCall(j, Top(t)) /\ Top(t) \in CleanFrame
    BY <1>1, <1>4, TopOfJobStack
  <2>2. frames[t] \in Seq(CleanFrame) /\ frames[t][i] = Top(t)
    BY <2>1
  <2>3. QED BY <1>1, <2>1, <2>2
<1>5. CASE Top(t).fn = "lookup"
  <2>1. InLookup(j, frames[t], Top(t)) /\ Top(t).inst = Nobody /\ Top(t) \in CleanFrame
    BY <1>1, <1>5, TopOfJobStack
  <2>2. PICK f \in CleanFrame : frames[t] = <<f, Top(t)>> /\ JobCall(j, f) /\ f.fn = "process" /\ f.at = "inside"
    BY <2>1 DEF InLookup
  <2>3. frames[t] \in Seq(CleanFrame) /\ frames[t][i] \in {f, Top(t)}
    BY <2>1, <2>2
  <2>4. QED BY <1>1, <1>2, <2>1, <2>2, <2>3
<1>6. CASE Top(t).fn = "query_params"
  <2>1. InQuery(j, frames[t], Top(t)) /\ Top(t).inst \in OpenInstances /\ Top(t) \in CleanFrame
    BY <1>1, <1>6, TopOfJobStack
  <2>2. PICK f \in CleanFrame, g \in CleanFrame :
           /\ frames[t] = <<f, g, Top(t)>> /\ JobCall(j, f) /\ f.fn = "process" /\ f.at = "inside"
           /\ g.fn = "lookup" /\ g.inst = Nobody /\ g.at = "inside"
    BY <2>1 DEF InQuery
  <2>3. frames[t] \in Seq(CleanFrame) /\ frames[t][i] \in {f, g, Top(t)}
    BY <2>1, <2>2
  <2>4. QED BY <1>1, <1>2, <1>3, <1>6, <2>1, <2>2, <2>3
<1>7. QED BY <1>4, <1>5, <1>6

\* The call of a thread that makes one at a time.
LEMMA LoneFrame ==
  ASSUME StackInv, NEW t \in Threads, Shallow(t), ~Idle(t), Top(t) \in CleanFrame
  PROVE  frames[t] \in Seq(CleanFrame) /\ \A i \in DOMAIN frames[t] : frames[t][i] = Top(t)
<1>1. frames[t] = <<Top(t)>>
  BY AtMostOne
<1>2. QED BY <1>1

LEMMA ThreadKinds ==
  ASSUME NEW t \in Threads
  PROVE  t = Main \/ (\E c \in Connectors : t = Connector(c)) \/ (\E j \in JobNames : t = JobThread(j))
BY StartupAssumption

\* The calls of any thread.
LEMMA AllFrames ==
  ASSUME StackInv, NEW t \in Threads, ~Idle(t)
  PROVE  /\ frames[t] \in Seq(CleanFrame) /\ Top(t) \in CleanFrame
         /\ \A i \in DOMAIN frames[t] :
               /\ frames[t][i] \in CleanFrame
               /\ frames[t][i] = Top(t) \/ (frames[t][i].at = "inside" /\ frames[t][i].inst \notin Datasources)
         /\ Len(frames[t]) \in DOMAIN frames[t] /\ frames[t][Len(frames[t])] = Top(t)
<1>1. /\ frames[t] \in Seq(CleanFrame)
      /\ \A i \in DOMAIN frames[t] :
            /\ frames[t][i] \in CleanFrame
            /\ frames[t][i] = Top(t) \/ (frames[t][i].at = "inside" /\ frames[t][i].inst \notin Datasources)
  <2>1. CASE t = Main
    <3>1. Shallow(t) /\ Top(t) \in CleanFrame
      BY <2>1 DEF StackInv, BuiltInv, JobsInv, StartInv
    <3>2. QED BY <3>1, LoneFrame
  <2>2. ASSUME NEW c \in Connectors, t = Connector(c)
        PROVE  frames[t] \in Seq(CleanFrame) /\ \A i \in DOMAIN frames[t] : frames[t][i] = Top(t) /\ Top(t) \in CleanFrame
    <3>1. Shallow(t) /\ Top(t) \in CleanFrame
      BY <2>2 DEF StackInv, BuiltInv, OwnerInv, OnItsWay
    <3>2. QED BY <3>1, LoneFrame
  <2>3. ASSUME NEW j \in JobNames, t = JobThread(j)
        PROVE  /\ frames[t] \in Seq(CleanFrame)
               /\ \A i \in DOMAIN frames[t] :
                     /\ frames[t][i] \in CleanFrame
                     /\ frames[t][i] = Top(t) \/ (frames[t][i].at = "inside" /\ frames[t][i].inst \notin Datasources)
    <3>1. DOMAIN frames[t] # {}
      <4>1. JobStack(j, frames[t])
        BY <2>3 DEF StackInv
      <4>2. \A f, g, h : DOMAIN <<f>> # {} /\ DOMAIN <<f, g>> # {} /\ DOMAIN <<f, g, h>> # {}
        OBVIOUS
      <4>3. \/ \E f : frames[t] = <<f>>
            \/ \E f, g : frames[t] = <<f, g>>
            \/ \E f, g, h : frames[t] = <<f, g, h>>
        BY <4>1 DEF JobStack, Idle
      <4>4. QED BY <4>2, <4>3
    <3>2. QED BY <2>3, <3>1, JobFrames
  <2>4. QED BY <2>1, <2>2, <2>3, ThreadKinds
<1>2. Len(frames[t]) \in DOMAIN frames[t] /\ frames[t][Len(frames[t])] = Top(t)
  BY <1>1, LenProperties DEF Idle, Top, Last
<1>3. QED BY <1>1, <1>2

-----------------------------------------------------------------------------
(* What the steps of a call do to its frame, the mutexes and the strings.  *)

Entered(t) ==
    /\ Top(t).at = "entry" /\ Top(t)'.at = "inside" /\ Top(t)'.inst = Top(t).inst /\ Top(t)'.out = NoString
    /\ Top(t).inst \in Datasources => lock[Top(t).inst] = Nobody
    /\ lock' = IF Top(t).inst \in Datasources THEN [lock EXCEPT ![Top(t).inst] = t] ELSE lock
    /\ UNCHANGED heap

Returned(t) ==
    /\ Top(t).at = "inside" /\ Top(t)'.at = "returned"
    /\ lock' = IF Top(t).inst \in Datasources THEN [lock EXCEPT ![Top(t).inst] = Nobody] ELSE lock
    /\ \/ Top(t)'.out = NoString /\ UNCHANGED heap
       \/ \E fn \in Calls, ok \in BOOLEAN :
             /\ heap' = Alloc(fn, ok).heap /\ Top(t)'.out = Alloc(fn, ok).ptr
             /\ Top(t)'.fn = fn /\ Top(t)'.ok = ok

WasRead(t) ==
    /\ Top(t).at = "returned" /\ Top(t)'.at = "done" /\ Top(t)'.out = NoString /\ UNCHANGED lock
    /\ (Keeps(Top(t)) /\ UNCHANGED heap) \/ heap' = Free(Top(t).out)

WasAnswered(t) ==
    /\ Top(t).at = "done" /\ Top(t)'.at = "returned" /\ UNCHANGED lock
    /\ \E ok \in BOOLEAN :
          /\ heap' = Alloc("lookup", ok).heap /\ Top(t)'.out = Alloc("lookup", ok).ptr
          /\ Top(t)'.fn = "lookup" /\ Top(t)'.ok = ok

LEMMA NewTopIs ==
  ASSUME FramesFunction, NEW t \in Threads, frames[t] \in Seq(CleanFrame), ~Idle(t), NEW g \in CleanFrame,
         frames' = SetTop(t, g)
  PROVE  Top(t)' = g /\ ~Idle(t)'
<1>1. frames'[t] = Front(frames[t]) \o <<g>>
  BY DEF SetTop, FramesFunction
<1>2. Front(frames[t]) \in Seq(CleanFrame)
  <2>1. Len(frames[t]) \in Nat /\ \A i \in 1..(Len(frames[t]) - 1) : frames[t][i] \in CleanFrame
    BY LenProperties, ElementOfSeq
  <2>2. QED BY <2>1, SubSeqProperties DEF Front
<1>3. /\ Last(Append(Front(frames[t]), g)) = g /\ Front(frames[t]) \o <<g>> = Append(Front(frames[t]), g)
      /\ Len(Append(Front(frames[t]), g)) = Len(Front(frames[t])) + 1 /\ Len(Front(frames[t])) \in Nat
  BY <1>2, PushCall, LenProperties
<1>4. frames'[t] = Append(Front(frames[t]), g)
  BY <1>1, <1>3
<1>5. Top(t)' = g
  BY <1>3, <1>4 DEF Top
<1>6. Len(<<>>) = 0
  OBVIOUS
<1>7. frames'[t] # <<>>
  BY <1>3, <1>4, <1>6
<1>8. QED BY <1>5, <1>7 DEF Idle

LEMMA CallKinds ==
  ASSUME StackInv, NEW t \in Threads, CallStep(t)
  PROVE  \/ QuietStep(t)
         \/ /\ ~Idle(t) /\ ~Idle(t)' /\ Top(t) \in CleanFrame
            /\ Entered(t) \/ Returned(t) \/ WasRead(t) \/ WasAnswered(t)
<1>1. FramesFunction /\ HeapTyped
  BY DEF StackInv, BuiltInv, JobsInv, StartInv
<1>2. ~Idle(t) => Top(t) \in CleanFrame /\ frames[t] \in Seq(CleanFrame)
  BY AllFrames
<1>3. CASE Enter(t)
  <2>1. ~Idle(t)
    BY <1>3 DEF Enter
  <2> DEFINE f == Top(t)
             g == [fn |-> f.fn, inst |-> f.inst, at |-> "inside", ok |-> f.ok, out |-> NoString]
  <2>2. f.at = "entry" /\ g \in CleanFrame /\ frames' = SetTop(t, g)
    BY <1>2, <1>3, <2>1, EnterMakes
  <2>3. Top(t)' = g /\ ~Idle(t)'
    BY <1>1, <1>2, <2>1, <2>2, NewTopIs
  <2>4. Top(t)'.at = "inside" /\ Top(t)'.inst = Top(t).inst /\ Top(t)'.out = NoString
    BY <2>3
  <2>5. QED BY <1>2, <1>3, <2>1, <2>2, <2>3, <2>4 DEF Enter, Entered
<1>4. ASSUME NEW ok \in BOOLEAN, Return(t, ok)
      PROVE  ~Idle(t) /\ ~Idle(t)' /\ Top(t) \in CleanFrame /\ Returned(t)
  <2> DEFINE f == Top(t)
             s == Alloc(f.fn, ok)
             G(out) == [fn |-> f.fn, inst |-> f.inst, at |-> "returned", ok |-> ok, out |-> out]
  <2>1. ~Idle(t) /\ f \in CleanFrame /\ f.fn \in Calls
    BY <1>2, <1>4, CleanFrames DEF Return
  <2>2. /\ f.at = "inside"
        /\ \/ heap' = heap /\ frames' = SetTop(t, G(NoString)) /\ G(NoString) \in CleanFrame
           \/ heap' = s.heap /\ frames' = SetTop(t, G(s.ptr)) /\ G(s.ptr) \in CleanFrame
    BY <1>1, <1>4, <2>1, ReturnMakes
  <2>3. \A out : G(out).at = "returned" /\ G(out).out = out /\ G(out).fn = f.fn /\ G(out).ok = ok
    OBVIOUS
  <2>4. \/ heap' = heap /\ Top(t)' = G(NoString) /\ ~Idle(t)'
        \/ heap' = s.heap /\ Top(t)' = G(s.ptr) /\ ~Idle(t)'
    <3> HIDE DEF s, G
    <3>1. QED BY <1>1, <1>2, <2>1, <2>2, NewTopIs
  <2>5. lock' = IF f.inst \in Datasources THEN [lock EXCEPT ![f.inst] = Nobody] ELSE lock
    BY <1>4 DEF Return
  <2> HIDE DEF G
  <2>6. QED BY <2>1, <2>2, <2>3, <2>4, <2>5 DEF Returned
<1>5. CASE ReadOut(t)
  <2>1. ~Idle(t) /\ UNCHANGED lock
    BY <1>5 DEF ReadOut, Read
  <2> DEFINE f == Top(t)
             g == [fn |-> f.fn, inst |-> f.inst, at |-> "done", ok |-> f.ok, out |-> NoString]
  <2>2. f.at = "returned" /\ g \in CleanFrame /\ frames' = SetTop(t, g)
    BY <1>2, <1>5, <2>1, ReadMakes
  <2>3. Top(t)' = g /\ ~Idle(t)'
    BY <1>1, <1>2, <2>1, <2>2, NewTopIs
  <2>4. Top(t)'.at = "done" /\ Top(t)'.out = NoString
    BY <2>3
  <2>5. (Keeps(Top(t)) /\ UNCHANGED heap) \/ heap' = Free(Top(t).out)
    BY <1>5 DEF ReadOut, Read
  <2>6. QED BY <1>2, <2>1, <2>2, <2>3, <2>4, <2>5 DEF WasRead
<1>6. CASE LookupQueried(t)
  <2>1. ~Idle(t) /\ Top(t).fn = "query_params" /\ UNCHANGED lock
    BY <1>6 DEF LookupQueried, In
  <2>2. PICK j \in JobNames : t = JobThread(j)
    <3>1. t # Main
      BY <2>1 DEF StackInv, BuiltInv
    <3>2. \A c \in Connectors : t # Connector(c)
      BY <2>1 DEF StackInv
    <3>3. QED BY <3>1, <3>2, ThreadKinds
  <2>3. JobStack(j, frames[t])
    BY <2>2 DEF StackInv
  <2>4. /\ Top(t).at = "done" /\ Top(t) \in CleanFrame /\ heap' = Alloc("lookup", Top(t).ok).heap
        /\ Top(t)' = Answered(t) /\ ~Idle(t)'
    BY <1>1, <1>6, <2>3, LookupReturns
  <2>5. Top(t).ok \in BOOLEAN
    BY <2>4, CleanFrames
  <2>6. /\ Answered(t).at = "returned" /\ Answered(t).fn = "lookup" /\ Answered(t).ok = Top(t).ok
        /\ Answered(t).out = Alloc("lookup", Top(t).ok).ptr
    BY DEF Answered
  <2>7. QED BY <2>1, <2>4, <2>5, <2>6 DEF WasAnswered
<1>7. QED BY <1>3, <1>4, <1>5, <1>6 DEF CallStep

-----------------------------------------------------------------------------
(* The mutexes of the datasources.                                         *)

Inside(t, d) == ~Idle(t) /\ Top(t).at = "inside" /\ Top(t).inst = d

\* A thread holds the mutex of the datasource its innermost call is inside.
LockInv ==
    /\ lock \in [Datasources -> Threads \cup {Nobody}]
    /\ \A d \in Datasources : \A t \in Threads : lock[d] = t <=> Inside(t, d)

LEMMA LockStep ==
  ASSUME StackInv, LockInv, CallsMove
  PROVE  LockInv'
<1>1. CASE UNCHANGED <<heap, lock, frames>>
  BY <1>1 DEF LockInv, Inside, Idle, Top
<1>2. ASSUME NEW t \in Threads, OnlyCallsOf(t), CallStep(t) PROVE LockInv'
  <2>1. ASSUME NEW u \in Threads, u # t, NEW d PROVE Inside(u, d)' <=> Inside(u, d)
    BY <1>2, <2>1 DEF OnlyCallsOf, Inside, Idle, Top
  <2>2. Nobody \notin Threads /\ lock \in [Datasources -> Threads \cup {Nobody}]
    BY PluginCallsAssumption DEF LockInv
  <2>3. ASSUME UNCHANGED lock, NEW d \in Datasources, ~Inside(t, d), ~Inside(t, d)', NEW u \in Threads
        PROVE  lock'[d] = u <=> Inside(u, d)'
    BY <2>1, <2>3 DEF LockInv
  <2>4. CASE QuietStep(t)
    <3>1. UNCHANGED lock /\ \A d \in Datasources : ~Inside(t, d) /\ ~Inside(t, d)'
      BY <2>4 DEF QuietStep, Quiet, Inside
    <3>2. QED BY <2>2, <2>3, <3>1 DEF LockInv
  <2>5. CASE ~Idle(t) /\ ~Idle(t)' /\ Entered(t)
    <3> DEFINE i == Top(t).inst
    <3>1. \A d : ~Inside(t, d) /\ (Inside(t, d)' <=> d = i)
      BY <2>5 DEF Entered, Inside
    <3>2. CASE i \in Datasources
      <4>1. lock[i] = Nobody /\ lock' = [lock EXCEPT ![i] = t]
        BY <2>5, <3>2 DEF Entered
      <4>2. ASSUME NEW d \in Datasources, NEW u \in Threads PROVE lock'[d] = u <=> Inside(u, d)'
        BY <2>1, <2>2, <3>1, <4>1 DEF LockInv
      <4>3. QED BY <2>2, <4>1, <4>2 DEF LockInv
    <3>3. CASE i \notin Datasources
      <4>1. UNCHANGED lock
        BY <2>5, <3>3 DEF Entered
      <4>2. QED BY <2>2, <2>3, <3>1, <3>3, <4>1 DEF LockInv
    <3>4. QED BY <3>2, <3>3
  <2>6. CASE ~Idle(t) /\ ~Idle(t)' /\ Returned(t)
    <3> DEFINE i == Top(t).inst
    <3>1. \A d : ~Inside(t, d)' /\ (Inside(t, d) <=> d = i)
      BY <2>6 DEF Returned, Inside
    <3>2. CASE i \in Datasources
      <4>1. lock[i] = t /\ lock' = [lock EXCEPT ![i] = Nobody]
        BY <2>6, <3>1, <3>2 DEF Returned, LockInv
      <4>2. ASSUME NEW d \in Datasources, NEW u \in Threads PROVE lock'[d] = u <=> Inside(u, d)'
        BY <2>1, <2>2, <3>1, <4>1 DEF LockInv
      <4>3. QED BY <2>2, <4>1, <4>2 DEF LockInv
    <3>3. CASE i \notin Datasources
      <4>1. UNCHANGED lock
        BY <2>6, <3>3 DEF Returned
      <4>2. QED BY <2>2, <2>3, <3>1, <3>3, <4>1 DEF LockInv
    <3>4. QED BY <3>2, <3>3
  <2>7. CASE ~Idle(t) /\ ~Idle(t)' /\ (WasRead(t) \/ WasAnswered(t))
    <3>1. UNCHANGED lock /\ \A d : ~Inside(t, d) /\ ~Inside(t, d)'
      BY <2>7 DEF WasRead, WasAnswered, Inside
    <3>2. QED BY <2>2, <2>3, <3>1 DEF LockInv
  <2>8. QED BY <1>2, <2>4, <2>5, <2>6, <2>7, CallKinds
<1>3. QED BY <1>1, <1>2 DEF CallsMove

LEMMA LockInitially == StartupInit => LockInv
<1> SUFFICES ASSUME StartupInit PROVE LockInv
  OBVIOUS
<1>1. /\ lock = [i \in Datasources |-> Nobody] /\ Nobody \notin Threads /\ \A t \in Threads : Idle(t)
  BY PluginCallsAssumption DEF StartupInit, CallsInit, Idle
<1>2. QED BY <1>1 DEF LockInv, Inside

\* The instance of every call of a stack, not only of the innermost one.
LEMMA CallsInstances ==
  ASSUME StackInv, NEW t \in Threads, NEW i \in DOMAIN frames[t], ~Idle(t)
  PROVE  LET f == frames[t][i]
         IN  /\ f.inst # Nobody =>
                   inst[f.inst] = IF f.fn \in {"connect", "configure"} THEN "created" ELSE "ready"
             /\ f.inst \in Processors => t = JobThread(f.inst[2]) \/ (t = Main /\ f.inst[2] \notin spawned)
<1> DEFINE f == frames[t][i]
<1>1. CASE t = Main
  <2>1. f = Top(t)
    BY <1>1, LoneFrame DEF StackInv, BuiltInv, JobsInv, StartInv
  <2>2. f.fn = "configure" /\ f.inst = Here /\ inst[Here] = "created" /\ EnabledFrom(building.job) # {} /\ pc = "spawn"
    BY <1>1, <2>1 DEF StackInv, BuiltInv, JobsInv, StartInv
  <2>3. f.inst[2] = TheJob.name /\ TheJob.name \notin spawned
    <3>1. TheJob.name \notin spawned
      BY <2>2, NextJobIsNext DEF StackInv, BuiltInv
    <3>2. QED BY <2>2, <3>1 DEF Here, Etl
  <2>4. QED BY <1>1, <2>2, <2>3
<1>2. ASSUME NEW c \in Connectors, t = Connector(c)
      PROVE  f.fn = "connect" /\ f.inst = Ds(c) /\ inst[Ds(c)] = "created"
  <2>1. f = Top(t)
    BY <1>2, LoneFrame DEF StackInv, BuiltInv, OwnerInv, OnItsWay
  <2>2. QED BY <1>2, <2>1 DEF StackInv, BuiltInv, OwnerInv, OnItsWay
<1>3. ASSUME NEW j \in JobNames, t = JobThread(j)
      PROVE  /\ f.inst # Nobody => inst[f.inst] = "ready" /\ f.fn \notin {"connect", "configure"}
             /\ f.inst \in Processors => t = JobThread(f.inst[2])
  <2>1. /\ j \in spawned /\ JobConnected(j)
        /\ \/ JobCall(j, f) \/ f.inst = Nobody
           \/ f.fn = "query_params" /\ f.inst \in OpenInstances
    BY <1>3, JobFrames
  <2>2. /\ \A s \in PluginsFrom(j, 1) : Etl(j, s) \in Processors /\ inst[Etl(j, s)] = "ready"
        /\ \A c \in open \cup {JobNamed(j).source.connection, JobNamed(j).target.connection} :
              Ds(c) \in Datasources /\ inst[Ds(c)] = "ready"
    BY <2>1, JobInstances
  <2>3. Nobody \notin Processors /\ \A d \in Datasources : d \notin Processors
    BY PluginCallsAssumption DEF Instances
  <2>4. CASE JobCall(j, f)
    <3>1. CASE f.fn = "process" /\ \E s \in PluginsFrom(j, 1) : f.inst = Etl(j, s)
      <4>1. \A s : Etl(j, s)[2] = j
        BY DEF Etl
      <4>2. QED BY <1>3, <2>2, <3>1, <4>1
    <3>2. CASE /\ f.fn \in {"query_page", "truncate", "batch_insert"}
               /\ f.inst \in {Ds(JobNamed(j).source.connection), Ds(JobNamed(j).target.connection)}
      BY <2>2, <2>3, <3>2
    <3>3. QED BY <2>4, <3>1, <3>2 DEF JobCall
  <2>5. QED BY <2>1, <2>2, <2>3, <2>4 DEF OpenInstances
<1>4. \A c \in Connectors : Ds(c) \notin Processors /\ Ds(c) # Nobody
  BY InstancesDiffer, PluginCallsAssumption DEF Instances
<1>5. QED BY <1>1, <1>2, <1>3, <1>4, ThreadKinds

(* A call runs on an instance that exists, alone in a datasource; no       *)
(* circle of threads waits for mutexes; a plugin's instance is its job's.  *)
(* For any number of jobs, connections and pipeline steps.                 *)
THEOREM CallsStaySafe == StartupSpec => []CallsAreSafe
<1>1. StackInv /\ LockInv => CallsAreSafe
  <2> SUFFICES ASSUME StackInv, LockInv, NEW t \in Threads, NEW i \in DOMAIN frames[t]
               PROVE  LET f == frames[t][i]
                      IN  /\ f.inst # Nobody /\ f.at # "done" =>
                                inst[f.inst] = IF f.fn \in {"connect", "configure"} THEN "created" ELSE "ready"
                          /\ f.inst \in Datasources /\ f.at = "inside" => lock[f.inst] = t
                          /\ f.at = "entry" => \A d \in Datasources : lock[d] # t
                          /\ f.inst \in Processors => t = JobThread(f.inst[2]) \/ (t = Main /\ f.inst[2] \notin spawned)
    BY DEF CallsAreSafe
  <2>1. ~Idle(t)
    BY DEF Idle
  <2>2. frames[t][i] = Top(t) \/ (frames[t][i].at = "inside" /\ frames[t][i].inst \notin Datasources)
    BY <2>1, AllFrames
  <2>3. ASSUME frames[t][i] = Top(t)
        PROVE  /\ Top(t).inst \in Datasources /\ Top(t).at = "inside" => lock[Top(t).inst] = t
               /\ Top(t).at = "entry" => \A d \in Datasources : lock[d] # t
    BY <2>1 DEF LockInv, Inside
  <2>4. QED BY <2>1, <2>2, <2>3, CallsInstances
<1>2. StartupInit => StackInv /\ LockInv
  BY StackInitially, LockInitially
<1>3. StackInv /\ LockInv /\ [StartupNext]_<<startVars, callVars>> => (StackInv /\ LockInv)'
  BY StackStep, LockStep
<1>4. QED BY <1>1, <1>2, <1>3, PTL DEF StartupSpec

-----------------------------------------------------------------------------
(* Who has to free a string.                                               *)

Out(t) == IF Idle(t) THEN NoString ELSE Top(t).out

LeftBehind(s) == heap[s].fn = "lookup" \/ (heap[s].fn \in {"connect", "configure"} /\ ~heap[s].ok)

\* The out pointer of an innermost call is the string the callee allocated,
\* each string is in one such pointer, and the others were left behind.
OutInv ==
    /\ \A t \in Threads : Out(t) # NoString =>
          Out(t) \in DOMAIN heap /\ heap[Out(t)] = [fn |-> Top(t).fn, ok |-> Top(t).ok]
    /\ \A t, u \in Threads : t # u /\ Out(t) # NoString => Out(t) # Out(u)
    /\ \A s \in DOMAIN heap : LeftBehind(s) \/ \E t \in Threads : Out(t) = s

\* A thread that gets a fresh string.
LEMMA StringGiven ==
  ASSUME HeapTyped, OutInv, NEW t \in Threads, OnlyCallsOf(t), Out(t) = NoString, ~Idle(t)',
         NEW fn \in Calls, NEW ok \in BOOLEAN, heap' = Alloc(fn, ok).heap,
         Top(t)'.out = Alloc(fn, ok).ptr, Top(t)'.fn = fn, Top(t)'.ok = ok
  PROVE  OutInv'
<1> DEFINE p == Alloc(fn, ok).ptr
<1>1. /\ p \in Nat \ {NoString} /\ p \notin DOMAIN heap /\ DOMAIN heap' = DOMAIN heap \cup {p}
      /\ heap'[p] = [fn |-> fn, ok |-> ok] /\ \A x \in DOMAIN heap : heap'[x] = heap[x]
  BY AllocIsFresh
<1>2. Out(t)' = p
  BY DEF Out
<1>3. ASSUME NEW u \in Threads, u # t
      PROVE  Out(u)' = Out(u) /\ (Out(u) # NoString => Top(u)' = Top(u))
  BY <1>3 DEF OnlyCallsOf, Out, Idle, Top
<1> HIDE DEF p
<1>4. ASSUME NEW u \in Threads, Out(u)' # NoString
      PROVE  Out(u)' \in DOMAIN heap' /\ heap'[Out(u)'] = [fn |-> Top(u)'.fn, ok |-> Top(u)'.ok]
  BY <1>1, <1>2, <1>3, <1>4 DEF OutInv
<1>5. ASSUME NEW u \in Threads, NEW v \in Threads, u # v, Out(u)' # NoString PROVE Out(u)' # Out(v)'
  <2>1. \A w \in Threads : w # t /\ Out(w) # NoString => Out(w) \in DOMAIN heap
    BY DEF OutInv
  <2>2. CASE u = t
    BY <1>1, <1>2, <1>3, <1>5, <2>1, <2>2
  <2>3. CASE v = t
    BY <1>1, <1>2, <1>3, <1>5, <2>1, <2>3
  <2>4. CASE u # t /\ v # t
    BY <1>3, <1>5, <2>4 DEF OutInv
  <2>5. QED BY <2>2, <2>3, <2>4
<1>6. ASSUME NEW s \in DOMAIN heap' PROVE LeftBehind(s)' \/ \E u \in Threads : Out(u)' = s
  <2>1. CASE s = p
    BY <1>2, <2>1
  <2>2. CASE s # p
    <3>1. s \in DOMAIN heap /\ heap'[s] = heap[s]
      BY <1>1, <1>6, <2>2
    <3>2. LeftBehind(s) \/ \E u \in Threads : Out(u) = s
      BY <3>1 DEF OutInv
    <3>3. CASE LeftBehind(s)
      BY <3>1, <3>3 DEF LeftBehind
    <3>4. ASSUME NEW u \in Threads, Out(u) = s PROVE \E v \in Threads : Out(v)' = s
      <4>1. u # t
        BY <3>1, <3>4 DEF HeapTyped
      <4>2. QED BY <1>3, <3>4, <4>1
    <3>5. QED BY <3>2, <3>3, <3>4
  <2>3. QED BY <2>1, <2>2
<1>7. QED BY <1>4, <1>5, <1>6 DEF OutInv

\* A thread that no longer has one: it was freed, is left behind, or was none.
LEMMA StringGone ==
  ASSUME HeapTyped, OutInv, NEW t \in Threads, OnlyCallsOf(t), Out(t)' = NoString,
         \/ heap' = Free(Out(t))
         \/ UNCHANGED heap /\ (Out(t) # NoString => Keeps(Top(t)))
  PROVE  OutInv'
<1>1. ASSUME NEW u \in Threads, u # t
      PROVE  Out(u)' = Out(u) /\ (Out(u) # NoString => Top(u)' = Top(u))
  BY <1>1 DEF OnlyCallsOf, Out, Idle, Top
<1>2. ASSUME NEW u \in Threads, NEW v \in Threads, u # v, Out(u)' # NoString PROVE Out(u)' # Out(v)'
  <2>1. u # t
    BY <1>2
  <2>2. CASE v = t
    BY <1>2, <2>2
  <2>3. CASE v # t
    BY <1>1, <1>2, <2>1, <2>3 DEF OutInv
  <2>4. QED BY <2>2, <2>3
<1>3. CASE heap' = Free(Out(t))
  <2>1. DOMAIN heap' = DOMAIN heap \ {Out(t)} /\ \A s \in DOMAIN heap \ {Out(t)} : heap'[s] = heap[s]
    BY <1>3 DEF Free
  <2>2. ASSUME NEW u \in Threads, Out(u)' # NoString
        PROVE  Out(u)' \in DOMAIN heap' /\ heap'[Out(u)'] = [fn |-> Top(u)'.fn, ok |-> Top(u)'.ok]
    <3>1. u # t /\ Out(u)' = Out(u) /\ Top(u)' = Top(u) /\ Out(u) # NoString
      BY <1>1, <2>2
    <3>2. Out(u) # Out(t) /\ Out(u) \in DOMAIN heap /\ heap[Out(u)] = [fn |-> Top(u).fn, ok |-> Top(u).ok]
      BY <3>1 DEF OutInv
    <3>3. QED BY <2>1, <3>1, <3>2
  <2>3. ASSUME NEW s \in DOMAIN heap' PROVE LeftBehind(s)' \/ \E u \in Threads : Out(u)' = s
    <3>1. s \in DOMAIN heap /\ s # Out(t) /\ heap'[s] = heap[s]
      BY <2>1, <2>3
    <3>2. LeftBehind(s) \/ \E u \in Threads : Out(u) = s
      BY <3>1 DEF OutInv
    <3>3. QED BY <1>1, <3>1, <3>2 DEF LeftBehind
  <2>4. QED BY <1>2, <2>2, <2>3 DEF OutInv
<1>4. CASE UNCHANGED heap /\ (Out(t) # NoString => Keeps(Top(t)))
  <2>1. ASSUME NEW u \in Threads, Out(u)' # NoString
        PROVE  Out(u)' \in DOMAIN heap' /\ heap'[Out(u)'] = [fn |-> Top(u)'.fn, ok |-> Top(u)'.ok]
    <3>1. u # t /\ Out(u)' = Out(u) /\ Top(u)' = Top(u) /\ Out(u) # NoString
      BY <1>1, <2>1
    <3>2. QED BY <1>4, <3>1 DEF OutInv
  <2>2. ASSUME NEW s \in DOMAIN heap PROVE LeftBehind(s) \/ \E u \in Threads : Out(u)' = s
    <3>1. LeftBehind(s) \/ \E u \in Threads : Out(u) = s
      BY DEF OutInv
    <3>2. CASE Out(t) = s
      <4>1. Out(t) # NoString
        BY <3>2 DEF HeapTyped
      <4>2. Keeps(Top(t)) /\ heap[s] = [fn |-> Top(t).fn, ok |-> Top(t).ok]
        BY <1>4, <3>2, <4>1 DEF OutInv
      <4>3. QED BY <4>2 DEF Keeps, LeftBehind
    <3>3. CASE Out(t) # s
      BY <1>1, <3>1, <3>3
    <3>4. QED BY <3>2, <3>3
  <2>3. \A s \in DOMAIN heap' : LeftBehind(s)' \/ \E u \in Threads : Out(u)' = s
    BY <1>4, <2>2 DEF LeftBehind
  <2>4. QED BY <1>2, <2>1, <2>3 DEF OutInv
<1>5. QED BY <1>3, <1>4

LEMMA OutStep ==
  ASSUME StackInv, OutInv, CallsMove
  PROVE  OutInv'
<1>1. CASE UNCHANGED <<heap, lock, frames>>
  BY <1>1 DEF OutInv, LeftBehind, Out, Idle, Top
<1>2. ASSUME NEW t \in Threads, OnlyCallsOf(t), CallStep(t) PROVE OutInv'
  <2>1. HeapTyped
    BY DEF StackInv
  <2>2. CASE QuietStep(t)
    <3>1. Out(t) = NoString /\ Out(t)' = NoString /\ UNCHANGED heap
      BY <2>2 DEF QuietStep, Quiet, Out
    <3>2. QED BY <1>2, <2>1, <3>1, StringGone
  <2>3. ASSUME ~Idle(t), ~Idle(t)', Top(t) \in CleanFrame,
               Entered(t) \/ Returned(t) \/ WasRead(t) \/ WasAnswered(t)
        PROVE  OutInv'
    <3>1. Out(t) = Top(t).out /\ Out(t)' = Top(t)'.out /\ (Top(t).at # "returned" => Top(t).out = NoString)
      BY <2>3, CleanFrames DEF Out
    <3>2. CASE Entered(t)
      <4>1. Out(t) = NoString /\ Out(t)' = NoString /\ UNCHANGED heap
        BY <3>1, <3>2 DEF Entered
      <4>2. QED BY <1>2, <2>1, <4>1, StringGone
    <3>3. CASE Returned(t)
      <4>1. Out(t) = NoString
        BY <3>1, <3>3 DEF Returned
      <4>2. CASE Top(t)'.out = NoString /\ UNCHANGED heap
        BY <1>2, <2>1, <3>1, <4>1, <4>2, StringGone
      <4>3. CASE \E fn \in Calls, ok \in BOOLEAN :
                    /\ heap' = Alloc(fn, ok).heap /\ Top(t)'.out = Alloc(fn, ok).ptr
                    /\ Top(t)'.fn = fn /\ Top(t)'.ok = ok
        BY <1>2, <2>1, <2>3, <4>1, <4>3, StringGiven
      <4>4. QED BY <3>3, <4>2, <4>3 DEF Returned
    <3>4. CASE WasRead(t)
      <4>1. Out(t)' = NoString /\ ((Keeps(Top(t)) /\ UNCHANGED heap) \/ heap' = Free(Out(t)))
        BY <3>1, <3>4 DEF WasRead
      <4>2. QED BY <1>2, <2>1, <4>1, StringGone
    <3>5. CASE WasAnswered(t)
      <4>1. Out(t) = NoString /\ "lookup" \in Calls
        BY <3>1, <3>5 DEF WasAnswered, Calls, PayloadCalls
      <4>2. QED BY <1>2, <2>1, <2>3, <3>5, <4>1, StringGiven DEF WasAnswered
    <3>6. QED BY <2>3, <3>2, <3>3, <3>4, <3>5
  <2>4. QED BY <1>2, <2>2, <2>3, CallKinds
<1>3. QED BY <1>1, <1>2 DEF CallsMove

(* Every string has exactly one holder that still reads it, or was left    *)
(* behind by one of the three readers that do not free.                    *)
THEOREM StringsAreOwned == StartupSpec => []StringsHaveOwners
<1> DEFINE Held(t) == {frames[t][i].out : i \in DOMAIN frames[t]} \ {NoString}
<1>1. StackInv /\ OutInv => StringsHaveOwners
  <2> SUFFICES ASSUME StackInv, OutInv
               PROVE  /\ \A t \in Threads : Held(t) \subseteq DOMAIN heap
                      /\ \A t, u \in Threads : t # u => Held(t) \cap Held(u) = {}
                      /\ \A s \in DOMAIN heap : LeftBehind(s) \/ \E t \in Threads : s \in Held(t)
    BY DEF StringsHaveOwners, LeftBehind
  <2>1. ASSUME NEW t \in Threads PROVE Held(t) = {Out(t)} \ {NoString}
    <3>1. CASE Idle(t)
      <4>1. DOMAIN <<>> = {}
        OBVIOUS
      <4>2. QED BY <3>1, <4>1 DEF Idle, Out
    <3>2. CASE ~Idle(t)
      <4>1. /\ \A i \in DOMAIN frames[t] : frames[t][i] = Top(t) \/ frames[t][i].out = NoString
            /\ Len(frames[t]) \in DOMAIN frames[t] /\ frames[t][Len(frames[t])] = Top(t)
        <5>1. /\ \A i \in DOMAIN frames[t] :
                    /\ frames[t][i] \in CleanFrame
                    /\ frames[t][i] = Top(t) \/ frames[t][i].at = "inside"
              /\ Len(frames[t]) \in DOMAIN frames[t] /\ frames[t][Len(frames[t])] = Top(t)
          BY <3>2, AllFrames
        <5>2. QED BY <5>1, CleanFrames
      <4>2. Out(t) = Top(t).out
        BY <3>2 DEF Out
      <4>3. QED BY <4>1, <4>2
    <3>3. QED BY <3>1, <3>2
  <2> HIDE DEF Held
  <2>2. \A t \in Threads : Held(t) \subseteq DOMAIN heap
    BY <2>1 DEF OutInv
  <2>3. \A t, u \in Threads : t # u => Held(t) \cap Held(u) = {}
    BY <2>1 DEF OutInv
  <2>4. ASSUME NEW s \in DOMAIN heap PROVE LeftBehind(s) \/ \E t \in Threads : s \in Held(t)
    <3>1. s # NoString
      BY DEF StackInv, HeapTyped
    <3>2. QED BY <2>1, <3>1 DEF OutInv
  <2>5. QED BY <2>2, <2>3, <2>4
<1>2. StartupInit => StackInv /\ OutInv
  <2> SUFFICES ASSUME StartupInit PROVE OutInv
    BY StackInitially
  <2>1. \A t \in Threads : Out(t) = NoString
    BY DEF StartupInit, CallsInit, Idle, Out
  <2>2. DOMAIN heap = {}
    <3>1. heap = <<>> /\ DOMAIN <<>> = {}
      BY DEF StartupInit, CallsInit
    <3>2. QED BY <3>1
  <2>3. QED BY <2>1, <2>2 DEF OutInv
<1>3. StackInv /\ OutInv /\ [StartupNext]_<<startVars, callVars>> => (StackInv /\ OutInv)'
  BY StackStep, OutStep
<1>4. QED BY <1>1, <1>2, <1>3, PTL DEF StartupSpec

-----------------------------------------------------------------------------
(* Types.                                                                  *)

Lives == {"none", "created", "ready", "destroyed"}

LEMMA InstancesLive ==
  ASSUME inst \in [Instances -> Lives], [StartupNext]_<<startVars, callVars>>, FramesFunction
  PROVE  inst' \in [Instances -> Lives]
<1>1. CASE UNCHANGED inst
  BY <1>1
<1>2. CASE \E i, v : inst' = Put(i, v) /\ v \in {"created", "ready"}
  BY <1>2 DEF Put, Lives
<1>3. CASE \E is : inst' = Destroyed(is)
  BY <1>3 DEF Destroyed, Lives
<1>4. CASE UNCHANGED <<startVars, callVars>>
  BY <1>1, <1>4 DEF callVars
<1>5. ASSUME NEW t \in Threads, EnterCall(t) \/ ReturnCall(t) \/ ReadResult(t) PROVE UNCHANGED inst
  BY <1>5, StackSteps DEF EnterCall, ReturnCall, ReadResult
<1>6. ASSUME NEW j \in JobNames, JobStep(j) PROVE UNCHANGED inst
  BY <1>6, JobCalls
<1>7. ASSUME NEW c \in Connectors, WorkerStep(c) PROVE inst' \in [Instances -> Lives]
  <2>1. CASE WorkerCreate(c) \/ WorkerConnected(c) \/ WorkerSend(c)
    BY <1>1, <1>2, <1>3, <2>1 DEF WorkerCreate, WorkerConnected, WorkerSend
  <2>2. QED BY <1>1, <1>5, <1>7, <2>1, ThreadsDiffer DEF WorkerStep
<1>8. CASE MainStep
  <2>1. CASE LoadConfig \/ LoadPlugins \/ ConnectNext \/ Receive \/ Timeout \/ Fatal \/ LoadEtlPlugins
             \/ LoadJobs \/ Park
    BY <1>1, <2>1 DEF LoadConfig, LoadPlugins, ConnectNext, Receive, Timeout, Fatal, LoadEtlPlugins,
       LoadJobs, Park, callVars
  <2>2. CASE GiveUp
    BY <1>1, <1>3, <2>2 DEF GiveUp
  <2>3. CASE BuildStep \/ StepConfigured \/ SpawnJob
    <3>1. \/ UNCHANGED inst \/ inst' = Put(Here, "ready") \/ inst' = Put(Here, "created")
          \/ \E is : inst' = Destroyed(is)
      BY <2>3 DEF BuildStep, StepConfigured, SpawnJob, BuildFails
    <3>2. QED BY <1>1, <1>2, <1>3, <3>1
  <2>4. QED BY <1>1, <1>5, <1>8, <2>1, <2>2, <2>3, ThreadsDiffer DEF MainStep
<1>9. QED BY <1>1, <1>4, <1>6, <1>7, <1>8 DEF StartupNext

LEMMA StacksAreTyped ==
  ASSUME StackInv, NEW t \in Threads
  PROVE  Len(frames[t]) <= 3 /\ \A i \in DOMAIN frames[t] : frames[t][i] \in Frame
<1>1. CASE Idle(t)
  <2>1. Len(<<>>) = 0 /\ DOMAIN <<>> = {}
    OBVIOUS
  <2>2. QED BY <1>1, <2>1 DEF Idle
<1>2. CASE ~Idle(t)
  <2>1. \A i \in DOMAIN frames[t] : frames[t][i] \in Frame
    BY <1>2, AllFrames DEF CleanFrame
  <2>2. CASE Shallow(t)
    BY <2>1, <2>2, LenProperties DEF Shallow
  <2>3. ASSUME NEW j \in JobNames, t = JobThread(j) PROVE Len(frames[t]) <= 3
    <3>1. \/ \E f : frames[t] = <<f>>
          \/ \E f, g : frames[t] = <<f, g>>
          \/ \E f, g, h : frames[t] = <<f, g, h>>
      <4>1. JobStack(j, frames[t])
        BY <2>3 DEF StackInv
      <4>2. QED BY <1>2, <4>1 DEF JobStack, Idle
    <3>2. \A f, g, h : Len(<<f>>) = 1 /\ Len(<<f, g>>) = 2 /\ Len(<<f, g, h>>) = 3
      OBVIOUS
    <3>3. Len(frames[t]) \in {1, 2, 3}
      BY <3>1, <3>2
    <3>4. \A n \in {1, 2, 3} : n <= 3
      OBVIOUS
    <3>5. QED BY <3>3, <3>4
  <2>4. t = Main => Shallow(t)
    BY DEF StackInv, BuiltInv, JobsInv, StartInv
  <2>5. ASSUME NEW c \in Connectors, t = Connector(c) PROVE Shallow(t)
    BY <2>5 DEF StackInv, BuiltInv, OwnerInv, OnItsWay
  <2>6. QED BY <2>1, <2>2, <2>3, <2>4, <2>5, ThreadKinds
<1>3. QED BY <1>1, <1>2

(* No variable leaves its type, and no thread has more than three calls    *)
(* under way, whatever the configuration.                                  *)
THEOREM StartupTypesHold == StartupSpec => []StartupTypeOK
<1> DEFINE Inv == StackInv /\ LockInv /\ inst \in [Instances -> Lives]
<1>1. Inv => StartupTypeOK
  <2> SUFFICES ASSUME Inv PROVE StartupTypeOK
    OBVIOUS
  <2>1. StartInv /\ JobsInv /\ OwnerInv
    BY DEF StackInv, BuiltInv, JobsInv
  <2>2. CallsTypeOK
    BY StacksAreTyped DEF CallsTypeOK, LockInv, StackInv, HeapTyped, Lives
  <2>3. spawned \subseteq JobNames
    BY <2>1, JobsAreFiles DEF JobsInv
  <2>4. receiver \in Connectors \cup {Nobody} /\ open \subseteq Connectors /\ pc \in Places
    BY <2>1 DEF StartInv
  <2>5. building.job \in Nat /\ building.step \in Nat
    BY <2>1 DEF JobsInv
  <2>6. QED BY <2>1, <2>2, <2>3, <2>4, <2>5 DEF StartupTypeOK, Places, StartInv, OwnerInv
<1>2. StartupInit => Inv
  <2> SUFFICES ASSUME StartupInit PROVE LockInv /\ inst \in [Instances -> Lives]
    BY StackInitially
  <2>1. QED BY LockInitially DEF StartupInit, CallsInit, Lives
<1>3. Inv /\ [StartupNext]_<<startVars, callVars>> => Inv'
  <2> SUFFICES ASSUME Inv, [StartupNext]_<<startVars, callVars>> PROVE Inv'
    OBVIOUS
  <2>1. FramesFunction
    BY DEF StackInv, BuiltInv, JobsInv, StartInv
  <2>2. QED BY <2>1, StackStep, LockStep, InstancesLive
<1>4. QED BY <1>1, <1>2, <1>3, PTL DEF StartupSpec
=============================================================================
