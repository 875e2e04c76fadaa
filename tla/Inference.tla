----------------------------- MODULE Inference -----------------------------
(***************************************************************************)
(* Inference in one ApiServer.  The core, the grammar and the math         *)
(* specialist and the eager ELMs are loaded, one after another, into one   *)
(* shared engine; afterwards the request thread and the gossip thread      *)
(* infer with it: in the process, through SGProcessing, or as a job of the *)
(* SuperGenius SDK whose end is guessed from the status of the whole node. *)
(* The ELM chain itself is not here: no router ever selects it.            *)
(***************************************************************************)
EXTENDS Integers, Sequences, FiniteSets

CONSTANTS
    Configs,      \* what ApiServer::Config may say
    NoModel,
    MaxPolls,     \* polls until the deadline of a job
    MaxJobs,      \* bound: jobs the SDK node ever has
    MaxCalls      \* bound: inferences a process is asked for

Threads == {"request", "gossip"}
Specialists == {"grammar", "math"}

\* The roles whose ELM never loads a model into the shared engine: DomainELM has an
\* engine of its own, ToolSupportELM is a stub.
NoSharedEngine == {"code", "science", "toolsupport"}

\* m_enableSgProcessing, m_sgProcessingNetworkMode, m_enableNetwork, m_enableKnowledge
\* and whether the facts can be loaded, and the model paths; an eager entry names a
\* role of ELMRole (ParseELMRole makes every other name PrimaryDraft), the Refiner as
\* "grammar", of which it is the adapter.
ASSUME InferenceAssumption ==
    /\ \A c \in Configs :
          /\ {c.sg, c.network, c.swarm} \subseteq BOOLEAN
          /\ c.knowledge \in {"off", "loads", "fails"}
          /\ Len(c.eager) \in Nat
          /\ \A i \in 1..Len(c.eager) : c.eager[i].model # NoModel
    /\ {MaxPolls, MaxJobs, MaxCalls} \subseteq Nat

VARIABLES
    cfg,       \* m_cfg
    boot,      \* where Initialize is
    engine,    \* m_coreEngine
    loaded,    \* the specialists and ELMs whose m_loaded is set
    client,    \* m_sgClient
    jobs,      \* the jobs of the SDK node, in the order they came
    sdkOn,     \* whether the SDK node processes
    call,      \* what each thread is doing
    asked      \* the number of inferences asked for

serverVars == <<cfg, boot, engine, loaded, client>>
callVars == <<jobs, sdkOn, call, asked>>
inferenceVars == <<serverVars, callVars>>

NoEngine == [loaded |-> FALSE, path |-> NoModel, llm |-> NoModel, bridge |-> "none"]

Idle == [at |-> "idle", target |-> "core", stage |-> "core", core |-> NoModel,
         job |-> 0, left |-> 0, was |-> FALSE, alone |-> FALSE]

At(step) == [at |-> step, next |-> 1]

InferenceInit ==
    /\ cfg \in Configs
    /\ boot = At("down")
    /\ engine = NoEngine
    /\ loaded = {}
    /\ client = "none"
    /\ jobs = <<>>
    /\ sdkOn = TRUE
    /\ call = [t \in Threads |-> Idle]
    /\ asked = 0

-----------------------------------------------------------------------------
(* ApiServer::Initialize *)

\* Mutant of LoadModel: an engine that has a model keeps it.
LoadModelOnce(m) ==
    IF engine.loaded THEN {[ok |-> TRUE, engine |-> engine]}
    ELSE {[ok |-> TRUE, engine |-> [engine EXCEPT !.loaded = TRUE, !.path = m, !.llm = m]]}

\* MNNInferenceEngine::LoadModel.  SGProcessing only stores the path, and makes a new
\* bridge.  The interpreter fails without a model directory; when MNN fails with one,
\* the model before it is gone as well.
LoadModel(m) ==
    IF cfg.sg
      THEN {[ok |-> TRUE,
             engine |-> [engine EXCEPT !.loaded = TRUE, !.path = m, !.bridge = "unwired"]]}
      ELSE {[ok |-> TRUE, engine |-> [engine EXCEPT !.loaded = TRUE, !.path = m, !.llm = m]],
            [ok |-> FALSE, engine |-> engine],
            [ok |-> FALSE, engine |-> [engine EXCEPT !.llm = NoModel]]}

\* InitializeEngine; without a path, stub mode.
BootEngine ==
    /\ boot.at = "engine"
    /\ IF cfg.core = NoModel
         THEN engine' = [engine EXCEPT !.loaded = TRUE]
         ELSE \E r \in LoadModel(cfg.core) : engine' = r.engine
    /\ boot' = At("grammar")
    /\ UNCHANGED <<cfg, loaded, client, callVars>>

\* A specialist that has no model has no engine; one that fails to load is ignored.
BootSpecialist ==
    /\ boot.at \in Specialists
    /\ \/ cfg[boot.at] = NoModel /\ UNCHANGED <<engine, loaded>>
       \/ /\ cfg[boot.at] # NoModel
          /\ \E r \in LoadModel(cfg[boot.at]) :
                /\ engine' = r.engine
                /\ loaded' = IF r.ok THEN loaded \cup {boot.at} ELSE loaded
    /\ boot' = IF boot.at = "grammar" THEN At("math") ELSE At("network")
    /\ UNCHANGED <<cfg, client, callVars>>

\* Mutant of BootNetwork: a client that did not start is not wired.
BootNetworkIfStarted ==
    /\ boot.at = "network"
    /\ \/ ~cfg.network /\ UNCHANGED <<engine, client>>
       \/ /\ cfg.network
          /\ client' \in {"started", "failed"}
          /\ engine' = IF engine.bridge = "none" \/ client' = "failed" THEN engine
                       ELSE [engine EXCEPT !.bridge = "wired"]
    /\ boot' = At("grounding")
    /\ UNCHANGED <<cfg, loaded, callVars>>

\* InitializeNetwork: SGClient::Initialize, and SetSGClient into the bridge there is.
BootNetwork ==
    /\ boot.at = "network"
    /\ \/ ~cfg.network /\ UNCHANGED <<engine, client>>
       \/ /\ cfg.network
          /\ client' \in {"started", "failed"}
          /\ engine' = IF engine.bridge = "none" THEN engine ELSE [engine EXCEPT !.bridge = "wired"]
    /\ boot' = At("grounding")
    /\ UNCHANGED <<cfg, loaded, callVars>>

\* KnowledgeRetrieval::Load is allowed to fail, GroundingELM::Load then is not; without
\* knowledge the role has a RoleELM, which is loaded only when it is eager.
BootGrounding ==
    /\ boot.at = "grounding"
    /\ boot' = IF cfg.knowledge = "fails" THEN At("failed") ELSE At("elms")
    /\ loaded' = IF cfg.knowledge = "loads" THEN loaded \cup {"grounding"} ELSE loaded
    /\ UNCHANGED <<cfg, engine, client, callVars>>

\* An entry whose Load leaves the shared engine alone; GroundingELM ignores the model.
Apart(role) ==
    \/ role \in NoSharedEngine
    \/ role = "grounding" /\ cfg.knowledge # "off"

\* The next eager ELM.  ToolSupportELM never says that it is loaded.
BootElm ==
    /\ boot.at = "elms" /\ boot.next <= Len(cfg.eager)
    /\ LET elm == cfg.eager[boot.next] IN
       \/ /\ Apart(elm.role)
          /\ loaded' = loaded \cup ({elm.role} \ {"toolsupport"})
          /\ boot' = [boot EXCEPT !.next = @ + 1]
          /\ UNCHANGED engine
       \/ /\ elm.role \in Specialists /\ cfg[elm.role] = NoModel
          /\ boot' = At("failed")
          /\ UNCHANGED <<engine, loaded>>
       \/ /\ ~Apart(elm.role)
          /\ elm.role \in Specialists => cfg[elm.role] # NoModel
          /\ \E r \in LoadModel(elm.model) :
                /\ engine' = r.engine
                /\ loaded' = IF r.ok THEN loaded \cup {elm.role} ELSE loaded
                /\ boot' = IF r.ok THEN [boot EXCEPT !.next = @ + 1] ELSE At("failed")
    /\ UNCHANGED <<cfg, client, callVars>>

BootDone ==
    /\ boot.at = "elms" /\ boot.next > Len(cfg.eager)
    /\ boot' = At("ready")
    /\ UNCHANGED <<cfg, engine, loaded, client, callVars>>

Boot == BootEngine \/ BootSpecialist \/ BootNetwork \/ BootGrounding \/ BootElm \/ BootDone

-----------------------------------------------------------------------------
(* Process, and the task handler of the gossip thread *)

\* The router sends a request to the core alone or to a specialist after it; a task
\* from the network is for the core.
Ask(t) ==
    /\ boot.at = "ready" /\ call[t] = Idle /\ asked < MaxCalls
    /\ t = "gossip" => cfg.swarm
    /\ \E target \in {"core"} \cup IF t = "request" THEN Specialists ELSE {} :
          call' = [call EXCEPT ![t].at = "infer", ![t].target = target]
    /\ asked' = asked + 1
    /\ UNCHANGED <<serverVars, jobs, sdkOn>>

\* An inference is over: a failed core ends the request, a failed specialist hands
\* the output of the core on.
Ended(t, by) ==
    LET text == IF call[t].stage = "core" THEN by ELSE call[t].core
        more == call[t].stage = "core" /\ by # NoModel /\ call[t].target # "core"
    IN  [Idle EXCEPT !.at = IF more THEN "specialist" ELSE "return",
                     !.target = call[t].target, !.stage = call[t].stage, !.core = text]

Ends(t, by) ==
    /\ call' = [call EXCEPT ![t] = Ended(t, by)]
    /\ UNCHANGED <<serverVars, jobs, sdkOn, asked>>

\* MNNInferenceEngine::Infer, where no SGProcessing is asked.
Infer(t) ==
    /\ call[t].at = "infer"
    /\ \/ ~engine.loaded /\ Ends(t, NoModel)
       \/ engine.loaded /\ engine.path = NoModel /\ Ends(t, "stub")
       \/ engine.loaded /\ engine.path # NoModel /\ ~cfg.sg /\ Ends(t, engine.llm)

\* SGProcessingBridge::SubmitJob: a job that cannot be submitted is run here, whatever
\* the error (no client in the source returns the two that are handed back instead).
SubmitJob(t) ==
    /\ call[t].at = "infer" /\ engine.loaded /\ engine.path # NoModel /\ cfg.sg
    /\ \/ /\ cfg.network /\ engine.bridge = "wired" /\ client = "started" /\ Len(jobs) < MaxJobs
          /\ jobs' = Append(jobs, "queued")
          /\ call' = [call EXCEPT ![t].at = "poll", ![t].job = Len(jobs) + 1,
                                  ![t].left = MaxPolls, ![t].was = FALSE,
                                  ![t].alone = \A j \in 1..Len(jobs) : jobs[j] = "done"]
       \/ /\ call' = [call EXCEPT ![t].at = "local"]
          /\ UNCHANGED jobs
    /\ UNCHANGED <<serverVars, sdkOn, asked>>

\* GeniusSDKGetProcessingStatus: of the node, not of a job.
Status ==
    IF ~sdkOn THEN "disabled"
    ELSE IF \E j \in 1..Len(jobs) : jobs[j] = "running" THEN "processing" ELSE "idle"

\* Mutant of Poll: an idle node has finished the job.
PollEager(t) ==
    /\ call[t].at = "poll" /\ call[t].left > 0
    /\ \/ Status = "idle" /\ Ends(t, NoModel)
       \/ /\ Status # "idle"
          /\ call' = IF Status = "disabled" THEN [call EXCEPT ![t].at = "local"]
                     ELSE [call EXCEPT ![t].left = @ - 1, ![t].was = TRUE]
          /\ UNCHANGED <<serverVars, jobs, sdkOn, asked>>

\* PollForResult.  A completed job hands back no bytes, of which TensorInterpreter
\* makes no text: the inference fails.  A disabled node is a reason to run it here.
Poll(t) ==
    /\ call[t].at = "poll" /\ call[t].left > 0
    /\ \/ Status = "idle" /\ call[t].was /\ Ends(t, NoModel)
       \/ /\ Status = "disabled"
          /\ call' = [call EXCEPT ![t].at = "local"]
          /\ UNCHANGED <<serverVars, jobs, sdkOn, asked>>
       \/ /\ Status = "processing" \/ (Status = "idle" /\ ~call[t].was)
          /\ call' = [call EXCEPT ![t].left = @ - 1, ![t].was = Status = "processing"]
          /\ UNCHANGED <<serverVars, jobs, sdkOn, asked>>

\* Mutant of DeadlinePassed: the loop has no deadline.
DeadlineIgnored(t) ==
    /\ call[t].at = "poll" /\ call[t].left = 0
    /\ call' = [call EXCEPT ![t].left = MaxPolls]
    /\ UNCHANGED <<serverVars, jobs, sdkOn, asked>>

DeadlinePassed(t) ==
    /\ call[t].at = "poll" /\ call[t].left = 0
    /\ call' = [call EXCEPT ![t].at = "local"]
    /\ UNCHANGED <<serverVars, jobs, sdkOn, asked>>

\* SubmitDirect, of the model the engine holds.
SubmitDirect(t) ==
    /\ call[t].at = "local"
    /\ \E by \in {engine.path, NoModel} : Ends(t, by)

\* RunSpecialist after the core: a specialist that is not loaded returns its input,
\* and math may be done without a model.
Process(t) ==
    /\ call[t].at = "specialist"
    /\ \/ /\ call[t].target \in loaded
          /\ call' = [call EXCEPT ![t].at = "infer", ![t].stage = "specialist"]
       \/ /\ call[t].target \notin loaded \/ call[t].target = "math"
          /\ call' = [call EXCEPT ![t].at = "return"]
    /\ UNCHANGED <<serverVars, jobs, sdkOn, asked>>

Return(t) ==
    /\ call[t].at = "return"
    /\ call' = [call EXCEPT ![t] = Idle]
    /\ UNCHANGED <<serverVars, jobs, sdkOn, asked>>

Work(t) ==
    \/ Infer(t) \/ SubmitJob(t) \/ Poll(t) \/ DeadlinePassed(t) \/ SubmitDirect(t)
    \/ Process(t) \/ Return(t)

-----------------------------------------------------------------------------
(* The SDK node: jobs of its own and of others, until processing is disabled *)

JobStarts ==
    /\ sdkOn
    /\ \E j \in 1..Len(jobs) : jobs[j] = "queued" /\ jobs' = [jobs EXCEPT ![j] = "running"]
    /\ UNCHANGED <<serverVars, sdkOn, call, asked>>

JobEnds ==
    /\ sdkOn
    /\ \E j \in 1..Len(jobs) : jobs[j] = "running" /\ jobs' = [jobs EXCEPT ![j] = "done"]
    /\ UNCHANGED <<serverVars, sdkOn, call, asked>>

OthersJob ==
    /\ client = "started" /\ Len(jobs) < MaxJobs
    /\ jobs' = Append(jobs, "queued")
    /\ UNCHANGED <<serverVars, sdkOn, call, asked>>

Disabled ==
    /\ client = "started" /\ sdkOn
    /\ sdkOn' = FALSE
    /\ UNCHANGED <<serverVars, jobs, call, asked>>

Sdk == JobStarts \/ JobEnds \/ OthersJob \/ Disabled

InferenceNext == Boot \/ Sdk \/ \E t \in Threads : Ask(t) \/ Work(t)

-----------------------------------------------------------------------------
(* Properties *)

\* The models and the roles the configurations speak of.
Models(c) == {c.core, c.grammar, c.math} \cup {c.eager[i].model : i \in 1..Len(c.eager)}
Paths == {NoModel} \cup UNION {Models(c) : c \in Configs}

EagerRoles(c) == {c.eager[i].role : i \in 1..Len(c.eager)}
Roles == Specialists \cup {"grounding"} \cup UNION {EagerRoles(c) : c \in Configs}

InferenceTypeOK ==
    /\ cfg \in Configs
    /\ engine \in [loaded : BOOLEAN, path : Paths, llm : Paths,
                   bridge : {"none", "unwired", "wired"}]
    /\ loaded \subseteq Roles
    /\ client \in {"none", "started", "failed"}
    /\ jobs \in Seq({"queued", "running", "done"}) /\ Len(jobs) <= MaxJobs
    /\ call \in [Threads ->
                   [at : {"idle", "infer", "poll", "local", "specialist", "return"},
                    target : {"core"} \cup Specialists, stage : {"core", "specialist"},
                    core : Paths \cup {"stub"}, job : 0..MaxJobs, left : 0..MaxPolls,
                    was : BOOLEAN, alone : BOOLEAN]]
    /\ asked \in 0..MaxCalls

\* The eager entries that go into the shared engine.
Shared == {i \in 1..Len(cfg.eager) : ~Apart(cfg.eager[i].role)}

\* Whatever is loaded last is what the core, the specialists and the role ELMs all run
\* on, each of which goes on saying that its own model is loaded; and an interpreter
\* that lost its model to a failed load runs on none (LoadModel, Initialize).
LastLoadWins ==
    boot.at = "ready" =>
       /\ IF Shared # {}
            THEN \E i \in Shared :
                    engine.path = cfg.eager[i].model /\ \A j \in Shared : j <= i
            ELSE engine.path =
                    IF "math" \in loaded THEN cfg.math
                    ELSE IF "grammar" \in loaded THEN cfg.grammar
                    ELSE IF engine.loaded THEN cfg.core
                    ELSE NoModel
       /\ ~cfg.sg => engine.llm \in {engine.path, NoModel}

\* In network mode jobs can go out exactly if some model was loaded before
\* SetSGClient and no eager ELM was loaded into the shared engine after it.
WiredUnlessReloaded ==
    boot.at = "ready" /\ cfg.sg /\ cfg.network =>
       (engine.bridge = "wired" <=>
          {cfg.core, cfg.grammar, cfg.math} # {NoModel} /\ Shared = {})

\* A job that is reported complete has ended, if the node had nothing else to do since
\* it was submitted (PollForResult sees only the status of the node).
Completes(t) == call[t].at = "poll" /\ call'[t].at = "return"

CompletionIsOwn ==
    [][\A t \in Threads :
          Completes(t) /\ call[t].alone /\ Len(jobs) = call[t].job
             => jobs[call[t].job] = "done"]_inferenceVars

\* docs/ARCHITECTURE.md:12: in single mode "ApiServer -> Core LLM -> Response, one
\* model handles everything": the core answers with the model it was given.
CoreAnswersFromCoreModel ==
    \A t \in Threads :
       call[t].at = "return" /\ call[t].core \notin {NoModel, "stub"} => call[t].core = cfg.core

\* Every inference ends, whatever the SDK node does (the deadline of PollForResult).
InferenceEnds == \A t \in Threads : call[t].at # "idle" ~> call[t].at = "idle"
=============================================================================
