----------------------------- MODULE NodeProofs -----------------------------
(***************************************************************************)
(* Proofs about Node, for any configurations and passphrases and any       *)
(* number of processes that die at any moment: the key file and the        *)
(* identity of the node, its jobs, and which model and which bridge the    *)
(* shared engine has after the start.                                      *)
(***************************************************************************)
EXTENDS Node, TLAPS

-----------------------------------------------------------------------------
(* The key file *)

\* Where a start is when it has found no key and has not saved the one it makes.
Making == {"generate", "save", "write"}

BootTyped ==
    boot \in [at : {"down", "identity", "engine", "grammar", "math", "network", "grounding",
                    "elms", "ready", "failed", "terminated"} \cup Making,
              next : Nat \ {0}]

\* No key is made while there is one, unless the file could not be opened once.
MadeIfNone == WholeFile /\ ~faulty => boot.at \notin Making

\* The identity the node last had is the one in its file.
FileIsFormer == former # NoKey /\ ~faulty => WholeFile /\ keyFile.key = former

KeyInv == BootTyped /\ MadeIfNone /\ FileIsFormer

LEMMA KeyInit == NodeInit => KeyInv
BY DEF NodeInit, InferenceInit, KeyInv, BootTyped, MadeIfNone, FileIsFormer, Making, At, WholeFile,
       Plain, Absent, NoKey

\* Steps that leave the key file and the identity alone and begin to make no key.
LEMMA KeyElsewhere ==
  ASSUME KeyInv, UNCHANGED <<keyFile, former, faulty>>, BootTyped',
         boot'.at = boot.at \/ boot'.at \notin Making
  PROVE  KeyInv' /\ keyFile' = keyFile /\ former' = former
BY DEF KeyInv, MadeIfNone, FileIsFormer, WholeFile

LEMMA BootGoesOn ==
  ASSUME BootTyped, Boot
  PROVE  BootTyped' /\ boot'.at \notin Making
<1>1. CASE BootEngine \/ BootSpecialist \/ BootNetwork \/ BootGrounding \/ BootDone
  BY <1>1 DEF BootEngine, BootSpecialist, BootNetwork, BootGrounding, BootDone, At, BootTyped, Making
<1>2. CASE BootElm
  <2>1. boot' = [boot EXCEPT !.next = boot.next + 1] \/ boot' = At("failed")
    BY <1>2 DEF BootElm
  <2>2. boot.at = "elms"
    BY <1>2 DEF BootElm
  <2> QED BY <2>1, <2>2 DEF BootTyped, At, Making
<1> QED BY <1>1, <1>2 DEF Boot

\* What a step does to the key file and the identity, given that no key was in danger.
KeyStep ==
    /\ WholeFile /\ ~faulty => keyFile' = keyFile
    /\ former # NoKey /\ ~faulty => former' = former

LEMMA KeyReadKey ==
  ASSUME KeyInv, ReadKey
  PROVE  KeyInv' /\ KeyStep
<1>1. keyFile' = keyFile
  BY DEF ReadKey
<1>2. CASE Uses(keyFile.key) /\ WholeFile /\ UNCHANGED faulty
  BY <1>1, <1>2 DEF Uses, KeyInv, KeyStep, BootTyped, MadeIfNone, FileIsFormer, WholeFile, At, Making
<1>3. CASE boot' = At("generate") /\ UNCHANGED former /\ ~WholeFile /\ UNCHANGED faulty
  BY <1>1, <1>3 DEF KeyInv, KeyStep, BootTyped, MadeIfNone, FileIsFormer, WholeFile, At, Making
<1>4. CASE boot' = At("generate") /\ UNCHANGED former /\ faulty' = TRUE
  BY <1>1, <1>4 DEF KeyInv, KeyStep, BootTyped, MadeIfNone, FileIsFormer, WholeFile, At, Making
<1>5. CASE boot' = At("terminated") /\ UNCHANGED <<former, faulty>>
  BY <1>1, <1>5 DEF KeyInv, KeyStep, BootTyped, MadeIfNone, FileIsFormer, WholeFile, At, Making
<1> QED BY <1>2, <1>3, <1>4, <1>5 DEF ReadKey, WholeFile

LEMMA KeySave ==
  ASSUME KeyInv, Generate \/ SaveOpen \/ SaveWrite
  PROVE  KeyInv' /\ KeyStep
<1>1. boot.at \in Making
  BY DEF Generate, SaveOpen, SaveWrite, Making
<1>2. ~faulty => ~WholeFile /\ former = NoKey
  BY <1>1 DEF KeyInv, MadeIfNone, FileIsFormer
<1>3. KeyStep
  BY <1>2 DEF KeyStep
<1>4. BootTyped'
  BY DEF Generate, SaveOpen, SaveWrite, Uses, At, BootTyped, Making
<1>5. CASE Generate
  BY <1>2, <1>3, <1>4, <1>5 DEF Generate, KeyInv, MadeIfNone, FileIsFormer, WholeFile
<1>6. CASE SaveOpen
  BY <1>2, <1>3, <1>4, <1>6 DEF SaveOpen, KeyInv, MadeIfNone, FileIsFormer, WholeFile, Empty
<1>7. CASE SaveWrite
  BY <1>2, <1>3, <1>4, <1>7
     DEF SaveWrite, Uses, At, KeyInv, MadeIfNone, FileIsFormer, WholeFile, Encrypted, Making
<1> QED BY <1>3, <1>5, <1>6, <1>7

LEMMA KeyNext == KeyInv /\ [NodeNext]_nodeVars => KeyInv' /\ KeyStep
<1> SUFFICES ASSUME KeyInv, [NodeNext]_nodeVars PROVE KeyInv' /\ KeyStep
  OBVIOUS
<1>1. CASE Identity
  BY <1>1, KeyReadKey, KeySave DEF Identity
<1>2. CASE ~Identity
  <2>1. UNCHANGED <<keyFile, former, faulty>>
    BY <1>2 DEF NodeNext, Start, Dies, Serve, Checks, Sleeps, StopRunning, Notify, Disconnect,
                keyVars, stopVars, nodeVars
  <2>2. BootTyped' /\ (boot'.at = boot.at \/ boot'.at \notin Making)
    <3>1. CASE Boot
      BY <3>1, BootGoesOn DEF KeyInv
    <3>2. CASE Start \/ Dies
      BY <3>2 DEF Start, Dies, At, BootTyped, Making
    <3>3. CASE ~Boot /\ ~Start /\ ~Dies
      <4>1. boot' = boot
        BY <1>2, <3>3 DEF NodeNext, Serve, Checks, Sleeps, StopRunning, Notify, Disconnect, Server,
              Sdk, JobStarts, JobEnds, OthersJob, Disabled, Asks, Ask, Work, Infer, Ends, SubmitJob,
              Poll, DeadlinePassed, SubmitDirect, Process, Return, serverVars, inferenceVars, nodeVars
      <4> QED BY <4>1 DEF KeyInv, BootTyped
    <3> QED BY <3>1, <3>2, <3>3
  <2>3. KeyInv' /\ keyFile' = keyFile /\ former' = former
    BY <2>1, <2>2, KeyElsewhere
  <2> QED BY <2>3 DEF KeyStep
<1> QED BY <1>1, <1>2

\* A key that was saved whole is not overwritten.
THEOREM KeyFileIsKept == NodeSpec => KeysAreKept
<1>1. KeyInv /\ [NodeNext]_nodeVars => [WholeFile /\ ~faulty => keyFile' = keyFile]_nodeVars
  BY KeyNext DEF KeyStep
<1>2. KeyInv /\ [NodeNext]_nodeVars => KeyInv'
  BY KeyNext
<1> QED BY <1>1, <1>2, KeyInit, PTL DEF NodeSpec, KeysAreKept

\* The node that comes back is the node that went.
THEOREM NodeComesBack == NodeSpec => SameNodeAgain
<1>1. KeyInv /\ [NodeNext]_nodeVars => [former # NoKey /\ ~faulty => former' = former]_nodeVars
  BY KeyNext DEF KeyStep
<1>2. KeyInv /\ [NodeNext]_nodeVars => KeyInv'
  BY KeyNext
<1> QED BY <1>1, <1>2, KeyInit, PTL DEF NodeSpec, SameNodeAgain

-----------------------------------------------------------------------------
(* Types *)

Calls == [at : {"idle", "infer", "poll", "local", "specialist", "return"},
          target : {"core"} \cup Specialists, stage : {"core", "specialist"},
          core : Paths \cup {"stub"}, job : 0..MaxJobs, left : 0..MaxPolls,
          was : BOOLEAN, alone : BOOLEAN]

Engines == [loaded : BOOLEAN, path : Paths, llm : Paths, bridge : {"none", "unwired", "wired"}]

LEMMA InferenceTypes ==
  InferenceTypeOK <=>
    /\ cfg \in Configs
    /\ engine \in Engines
    /\ loaded \subseteq Roles
    /\ client \in {"none", "started", "failed"}
    /\ jobs \in Seq({"queued", "running", "done"}) /\ Len(jobs) <= MaxJobs
    /\ call \in [Threads -> Calls]
    /\ asked \in 0..MaxCalls
BY DEF InferenceTypeOK, Engines, Calls

LEMMA PathFacts ==
  /\ NoModel \in Paths
  /\ \A c \in Configs : {c.core, c.grammar, c.math} \subseteq Paths
  /\ \A c \in Configs : \A i \in 1..Len(c.eager) :
        c.eager[i].model \in Paths /\ c.eager[i].role \in Roles
<1>1. NoModel \in Paths /\ \A c \in Configs : Models(c) \subseteq Paths
  BY DEF Paths
<1>2. \A c \in Configs : EagerRoles(c) \subseteq Roles
  BY DEF Roles
<1>3. ASSUME NEW c \in Configs
      PROVE  /\ {c.core, c.grammar, c.math} \subseteq Models(c)
             /\ \A i \in 1..Len(c.eager) :
                   c.eager[i].model \in Models(c) /\ c.eager[i].role \in EagerRoles(c)
  BY DEF Models, EagerRoles
<1> QED BY <1>1, <1>2, <1>3

LEMMA LoadModelTypes ==
  ASSUME cfg \in Configs, engine \in Engines, NEW model \in Paths, NEW r \in LoadModel(model)
  PROVE  r.engine \in Engines
<1>1. NoModel \in Paths
  BY PathFacts
<1>2. /\ [engine EXCEPT !.loaded = TRUE, !.path = model, !.bridge = "unwired"] \in Engines
      /\ [engine EXCEPT !.loaded = TRUE, !.path = model, !.llm = model] \in Engines
      /\ [engine EXCEPT !.llm = NoModel] \in Engines
  BY <1>1 DEF Engines
<1>3. r.engine \in {engine, [engine EXCEPT !.llm = NoModel],
                     [engine EXCEPT !.loaded = TRUE, !.path = model, !.bridge = "unwired"],
                     [engine EXCEPT !.loaded = TRUE, !.path = model, !.llm = model]}
  BY DEF LoadModel
<1> QED BY <1>2, <1>3

LEMMA BootTypes ==
  ASSUME InferenceTypeOK, BootTyped, Boot
  PROVE  InferenceTypeOK'
<1>1. /\ cfg' = cfg /\ UNCHANGED <<jobs, call, asked>> /\ cfg \in Configs /\ engine \in Engines
      /\ loaded \subseteq Roles /\ client \in {"none", "started", "failed"}
  BY InferenceTypes
     DEF Boot, BootEngine, BootSpecialist, BootNetwork, BootGrounding, BootElm, BootDone, callVars
<1>2. engine' \in Engines /\ loaded' \subseteq Roles /\ client' \in {"none", "started", "failed"}
  <2>1. CASE BootEngine
    <3>1. CASE cfg.core = NoModel
      BY <1>1, <2>1, <3>1 DEF BootEngine, Engines
    <3>2. CASE cfg.core # NoModel
      <4>1. PICK r \in LoadModel(cfg.core) : engine' = r.engine
        BY <2>1, <3>2 DEF BootEngine
      <4> QED BY <1>1, <2>1, <4>1, PathFacts, LoadModelTypes DEF BootEngine
    <3> QED BY <3>1, <3>2
  <2>2. CASE BootSpecialist
    <3>1. CASE UNCHANGED <<engine, loaded>>
      BY <1>1, <2>2, <3>1 DEF BootSpecialist
    <3>2. CASE ~UNCHANGED <<engine, loaded>>
      <4>1. PICK r \in LoadModel(cfg[boot.at]) :
               /\ engine' = r.engine
               /\ loaded' = IF r.ok THEN loaded \cup {boot.at} ELSE loaded
        BY <2>2, <3>2 DEF BootSpecialist
      <4>2. boot.at \in Specialists /\ cfg[boot.at] \in Paths /\ client' = client
        BY <1>1, <2>2, PathFacts DEF BootSpecialist, Specialists
      <4> QED BY <1>1, <4>1, <4>2, LoadModelTypes DEF Roles
    <3> QED BY <3>1, <3>2
  <2>3. CASE BootNetwork
    BY <1>1, <2>3 DEF BootNetwork, Engines
  <2>4. CASE BootGrounding \/ BootDone
    BY <1>1, <2>4 DEF BootGrounding, BootDone, Roles
  <2>5. CASE BootElm
    <3>1. PICK elm : elm = cfg.eager[boot.next]
      OBVIOUS
    <3>2. boot.next \in 1..Len(cfg.eager)
      BY <1>1, <2>5, InferenceAssumption DEF BootElm, BootTyped
    <3>3. elm.model \in Paths /\ elm.role \in Roles /\ client' = client
      BY <1>1, <2>5, <3>1, <3>2, PathFacts DEF BootElm
    <3>4. CASE UNCHANGED engine /\ loaded' \subseteq loaded \cup {elm.role}
      BY <1>1, <3>3, <3>4
    <3>5. CASE \E r \in LoadModel(elm.model) :
                  engine' = r.engine /\ loaded' = IF r.ok THEN loaded \cup {elm.role} ELSE loaded
      BY <1>1, <3>3, <3>5, LoadModelTypes
    <3> QED BY <2>5, <3>1, <3>4, <3>5 DEF BootElm
  <2> QED BY <2>1, <2>2, <2>3, <2>4, <2>5 DEF Boot
<1> QED BY <1>1, <1>2, InferenceTypes DEF InferenceTypeOK, Engines

LEMMA EndedTypes ==
  ASSUME InferenceTypeOK, NEW t \in Threads, NEW by \in Paths \cup {"stub"}
  PROVE  Ended(t, by) \in Calls
<1>1. call[t] \in Calls
  BY InferenceTypes
<1>2. Idle \in Calls
  BY InferenceAssumption, PathFacts DEF Idle, Calls
<1>3. /\ call[t].target \in {"core"} \cup Specialists /\ call[t].stage \in {"core", "specialist"}
      /\ call[t].core \in Paths \cup {"stub"}
  BY <1>1 DEF Calls
<1>4. PICK text \in Paths \cup {"stub"}, at \in {"specialist", "return"} :
         Ended(t, by) = [Idle EXCEPT !.at = at, !.target = call[t].target,
                                     !.stage = call[t].stage, !.core = text]
  BY <1>3 DEF Ended
<1> QED BY <1>2, <1>3, <1>4 DEF Calls
\* What a thread that is at work is about to do.
LEMMA CallTypes ==
  ASSUME InferenceTypeOK, NEW t \in Threads, NEW c \in Calls,
         call' = [call EXCEPT ![t] = c], UNCHANGED <<serverVars, jobs, asked>>
  PROVE  InferenceTypeOK'
BY DEF InferenceTypeOK, Calls, serverVars

LEMMA EndsTypes ==
  ASSUME InferenceTypeOK, NEW t \in Threads, NEW by \in Paths \cup {"stub"}, Ends(t, by)
  PROVE  InferenceTypeOK'
BY EndedTypes, CallTypes DEF Ends

LEMMA WorkTypes ==
  ASSUME InferenceTypeOK, NEW t \in Threads, Work(t)
  PROVE  InferenceTypeOK'
<1>1. NoModel \in Paths /\ engine.path \in Paths /\ engine.llm \in Paths /\ call[t] \in Calls
      /\ call \in [Threads -> Calls]
  BY PathFacts, InferenceTypes DEF Engines
<1>2. CASE Infer(t)
  BY <1>1, <1>2, EndsTypes DEF Infer
<1>3. CASE SubmitJob(t)
  <2>1. CASE jobs' = jobs /\ call' = [call EXCEPT ![t].at = "local"]
    <3>1. [call[t] EXCEPT !.at = "local"] \in Calls
      BY <1>1 DEF Calls
    <3>2. call' = [call EXCEPT ![t] = [call[t] EXCEPT !.at = "local"]]
      BY <2>1
    <3> QED BY <1>3, <2>1, <3>1, <3>2, CallTypes DEF SubmitJob
  <2>2. CASE Len(jobs) < MaxJobs /\ jobs' = Append(jobs, "queued")
    <3>1. jobs \in Seq({"queued", "running", "done"}) /\ MaxJobs \in Nat /\ MaxPolls \in Nat
      BY InferenceTypes, InferenceAssumption
    <3>2. Len(jobs) \in Nat /\ Len(jobs) + 1 \in 0..MaxJobs /\ MaxPolls \in 0..MaxPolls
      BY <2>2, <3>1
    <3>3. jobs' \in Seq({"queued", "running", "done"}) /\ Len(jobs') <= MaxJobs
      BY <2>2, <3>1
    <3>4. PICK alone \in BOOLEAN :
             call' = [call EXCEPT ![t].at = "poll", ![t].job = Len(jobs) + 1,
                                  ![t].left = MaxPolls, ![t].was = FALSE, ![t].alone = alone]
      <4>1. Len(jobs') = Len(jobs) + 1
        BY <2>2, <3>1
      <4>2. jobs' # jobs
        BY <4>1, <3>2
      <4> QED BY <1>3, <4>2 DEF SubmitJob
    <3>5. call' \in [Threads -> Calls]
      BY <1>1, <3>2, <3>4 DEF Calls
    <3> QED BY <1>3, <3>3, <3>5, InferenceTypes DEF SubmitJob, serverVars, InferenceTypeOK, Calls
  <2> QED BY <1>3, <2>1, <2>2 DEF SubmitJob
<1>4. CASE Poll(t)
  <2>1. CASE Ends(t, NoModel)
    BY <1>1, <2>1, EndsTypes
  <2>2. CASE call' = [call EXCEPT ![t].at = "local"] /\ UNCHANGED <<serverVars, jobs, sdkOn, asked>>
    <3>1. [call[t] EXCEPT !.at = "local"] \in Calls
      BY <1>1 DEF Calls
    <3>2. call' = [call EXCEPT ![t] = [call[t] EXCEPT !.at = "local"]]
      BY <2>2
    <3> QED BY <2>2, <3>1, <3>2, CallTypes
  <2>3. CASE /\ call[t].left > 0
             /\ call' = [call EXCEPT ![t].left = @ - 1, ![t].was = Status = "processing"]
             /\ UNCHANGED <<serverVars, jobs, sdkOn, asked>>
    <3>1. call[t].left - 1 \in 0..MaxPolls
      BY <1>1, <2>3, InferenceAssumption DEF Calls
    <3>2. [call[t] EXCEPT !.left = call[t].left - 1, !.was = Status = "processing"] \in Calls
      BY <1>1, <3>1 DEF Calls
    <3>3. call' = [call EXCEPT ![t] = [call[t] EXCEPT !.left = call[t].left - 1,
                                                      !.was = Status = "processing"]]
      BY <1>1, <2>3
    <3> QED BY <2>3, <3>2, <3>3, CallTypes
  <2> QED BY <1>4, <2>1, <2>2, <2>3 DEF Poll
<1>5. CASE DeadlinePassed(t)
  <2>1. [call[t] EXCEPT !.at = "local"] \in Calls
    BY <1>1 DEF Calls
  <2>2. call' = [call EXCEPT ![t] = [call[t] EXCEPT !.at = "local"]]
    BY <1>5 DEF DeadlinePassed
  <2> QED BY <1>5, <2>1, <2>2, CallTypes DEF DeadlinePassed
<1>6. CASE SubmitDirect(t)
  BY <1>1, <1>6, EndsTypes DEF SubmitDirect
<1>7. CASE Process(t)
  <2>1. /\ [call[t] EXCEPT !.at = "infer", !.stage = "specialist"] \in Calls
        /\ [call[t] EXCEPT !.at = "return"] \in Calls
    BY <1>1 DEF Calls
  <2>2. \/ call' = [call EXCEPT ![t] = [call[t] EXCEPT !.at = "infer", !.stage = "specialist"]]
        \/ call' = [call EXCEPT ![t] = [call[t] EXCEPT !.at = "return"]]
    BY <1>1, <1>7 DEF Process
  <2> QED BY <1>7, <2>1, <2>2, CallTypes DEF Process
<1>8. CASE Return(t)
  <2>1. Idle \in Calls
    BY <1>1, InferenceAssumption DEF Idle, Calls
  <2> QED BY <1>8, <2>1, CallTypes DEF Return
<1> QED BY <1>2, <1>3, <1>4, <1>5, <1>6, <1>7, <1>8 DEF Work

LEMMA AskTypes ==
  ASSUME InferenceTypeOK, NEW t \in Threads, Ask(t)
  PROVE  InferenceTypeOK'
<1>1. PICK target \in {"core"} \cup Specialists :
         call' = [call EXCEPT ![t].at = "infer", ![t].target = target]
  BY DEF Ask
<1>2. call \in [Threads -> Calls]
  BY InferenceTypes
<1>3. call' \in [Threads -> Calls]
  <2>1. [call[t] EXCEPT !.at = "infer", !.target = target] \in Calls
    BY <1>2 DEF Calls
  <2>2. call' = [call EXCEPT ![t] = [call[t] EXCEPT !.at = "infer", !.target = target]]
    BY <1>1, <1>2
  <2> QED BY <1>2, <2>1, <2>2
<1>4. asked' \in 0..MaxCalls
  BY InferenceTypes, InferenceAssumption DEF Ask
<1> QED BY <1>3, <1>4 DEF Ask, InferenceTypeOK, Calls, serverVars

LEMMA SdkTypes ==
  ASSUME InferenceTypeOK, Sdk
  PROVE  InferenceTypeOK'
<1>1. jobs \in Seq({"queued", "running", "done"}) /\ Len(jobs) <= MaxJobs /\ MaxJobs \in Nat
  BY InferenceTypes, InferenceAssumption
<1>2. jobs' \in Seq({"queued", "running", "done"}) /\ Len(jobs') <= MaxJobs
  BY <1>1 DEF Sdk, JobStarts, JobEnds, OthersJob, Disabled
<1>3. UNCHANGED <<serverVars, call, asked>>
  BY DEF Sdk, JobStarts, JobEnds, OthersJob, Disabled
<1> QED BY <1>2, <1>3 DEF InferenceTypeOK, serverVars
\* A process makes at most one key, so that the keys do not run out.
KeysMade ==
    /\ passphrase \in Passphrases
    /\ made <= starts + 1
    /\ boot.at \in {"identity", "generate"} => made <= starts
    /\ boot.at \in {"save", "write"} => key \in Keys

NodeTyped == NodeTypeOK /\ BootTyped /\ KeysMade

LEMMA NodeTypedInit == NodeInit => NodeTyped
<1> SUFFICES ASSUME NodeInit PROVE NodeTyped
  OBVIOUS
<1>1. NoModel \in Paths /\ {MaxPolls, MaxJobs, MaxCalls, MaxStarts} \subseteq Nat
  BY PathFacts, InferenceAssumption, NodeAssumption
<1>2. Idle \in Calls
  BY <1>1 DEF Idle, Calls
<1>3. InferenceTypeOK
  <2>1. cfg \in Configs /\ engine = NoEngine /\ loaded = {} /\ client = "none" /\ jobs = << >>
        /\ call = [t \in Threads |-> Idle] /\ asked = 0
    BY DEF NodeInit, InferenceInit
  <2> QED BY <1>1, <1>2, <2>1, InferenceTypes DEF NoEngine, Engines
<1>4. BootTyped
  BY KeyInit DEF KeyInv
<1>5. KeysMade
  BY DEF NodeInit, InferenceInit, KeysMade, At
<1>6. NodeTypeOK
  <2>1. 1 \in Keys /\ 0 \in 0..MaxStarts
    BY <1>1 DEF Keys
  <2>2. keyFile \in KeyFiles /\ former \in {NoKey} \cup Keys /\ made \in {0} \cup Keys
    BY <2>1 DEF NodeInit, KeyFiles
  <2>3. running \in BOOLEAN /\ faulty \in BOOLEAN
    BY DEF NodeInit
  <2> QED BY <1>3, <2>1, <2>2, <2>3 DEF NodeInit, InferenceInit, NodeTypeOK, At
<1> QED BY <1>4, <1>5, <1>6 DEF NodeTyped

LEMMA IdentityTypes ==
  ASSUME NodeTyped, Identity
  PROVE  NodeTyped'
<1>1. InferenceTypeOK'
  BY DEF NodeTyped, NodeTypeOK, InferenceTypeOK, Identity, ReadKey, Generate, SaveOpen, SaveWrite,
         callVars
<1>2. /\ keyFile \in KeyFiles /\ key \in {NoKey} \cup Keys /\ former \in {NoKey} \cup Keys
      /\ made \in {0} \cup Keys /\ starts \in 0..MaxStarts /\ MaxStarts \in Nat
      /\ passphrase \in Passphrases /\ made <= starts + 1 /\ faulty \in BOOLEAN
  BY NodeAssumption DEF NodeTyped, NodeTypeOK, KeysMade
<1>3. UNCHANGED <<running, serve, stop, passphrase, starts>>
  BY DEF Identity, ReadKey, Generate, SaveOpen, SaveWrite, stopVars
<1>4. BootTyped' /\ faulty' \in BOOLEAN
  <2>1. boot' \in {At("generate"), At("save"), At("write"), At("engine"), At("terminated")}
    BY DEF Identity, ReadKey, Generate, SaveOpen, SaveWrite, Uses
  <2>2. faulty' = faulty \/ faulty' = TRUE
    BY DEF Identity, ReadKey, Generate, SaveOpen, SaveWrite
  <2>3. BootTyped'
    BY <2>1 DEF BootTyped, Making, At
  <2> QED BY <1>2, <2>2, <2>3
<1>5. keyFile' \in KeyFiles
  <2>1. boot.at = "write" => key \in Keys
    BY DEF NodeTyped, KeysMade
  <2> QED BY <1>2, <2>1
          DEF Identity, ReadKey, Generate, SaveOpen, SaveWrite, KeyFiles, Empty, Part, Encrypted
<1>6. key' \in {NoKey} \cup Keys /\ former' \in {NoKey} \cup Keys /\ made' \in {0} \cup Keys /\ KeysMade'
  <2>1. CASE ReadKey
    <3>1. keyFile.is = "plain" \/ keyFile.is = "encrypted" => keyFile.key \in Keys
      BY <1>2 DEF KeyFiles, Absent, Empty, Part, Plain, Encrypted
    <3> QED BY <1>2, <2>1, <3>1 DEF ReadKey, Uses, NodeTyped, KeysMade, At, stopVars
  <2>2. CASE Generate
    <3>1. made <= starts
      BY <2>2 DEF Generate, NodeTyped, KeysMade
    <3>2. made + 1 \in Keys
      BY <1>2, <3>1 DEF Keys
    <3> QED BY <1>2, <2>2, <3>1, <3>2 DEF Generate, KeysMade, At, Keys
  <2>3. CASE SaveOpen
    BY <1>2, <2>3 DEF SaveOpen, Uses, NodeTyped, KeysMade, At
  <2>4. CASE SaveWrite
    BY <1>2, <2>4 DEF SaveWrite, Uses, NodeTyped, KeysMade, At
  <2> QED BY <2>1, <2>2, <2>3, <2>4 DEF Identity
<1> QED BY <1>1, <1>3, <1>4, <1>5, <1>6 DEF NodeTyped, NodeTypeOK, BootTyped, Making

\* The steps of a node that leave the key alone: what is left to show of each is where
\* it leaves the boot, the inference and the threads of Serve and Stop.
LEMMA ElsewhereTypes ==
  ASSUME NodeTyped, InferenceTypeOK', BootTyped',
         UNCHANGED <<keyFile, made, former, faulty, passphrase>>,
         key' \in {key, NoKey},
         boot' = boot \/ boot'.at \notin Making \cup {"identity"},
         starts' = starts,
         serve' \in {serve, "out", "checks", "sleeps", "asleep", "returned"},
         stop' \in {stop, "no", "notify", "disconnect", "stopped"},
         running' \in {running, TRUE, FALSE},
         boot' = boot => key' = key
  PROVE  NodeTyped'
<1>1. KeysMade'
  BY DEF NodeTyped, KeysMade, Making
<1>2. running' \in BOOLEAN /\ faulty' \in BOOLEAN
  BY DEF NodeTyped, NodeTypeOK
<1>3. key' \in {NoKey} \cup Keys
  BY DEF NodeTyped, NodeTypeOK
<1>4. /\ serve' \in {"out", "checks", "sleeps", "asleep", "returned"}
      /\ stop' \in {"no", "notify", "disconnect", "stopped"}
  BY DEF NodeTyped, NodeTypeOK
<1>5. boot'.at \in {"down", "identity", "engine", "grammar", "math", "network", "grounding", "elms",
                    "ready", "failed", "terminated"} \cup Making
  BY DEF BootTyped
<1> QED BY <1>1, <1>2, <1>3, <1>4, <1>5 DEF NodeTyped, NodeTypeOK, Making

LEMMA StartTypes ==
  ASSUME NodeTyped, Start
  PROVE  NodeTyped'
<1>1. InferenceTypeOK'
  BY DEF NodeTyped, NodeTypeOK, InferenceTypeOK, Start, callVars
<1>2. starts \in 0..MaxStarts /\ MaxStarts \in Nat /\ made <= starts + 1 /\ made \in {0} \cup Keys
  BY NodeAssumption DEF NodeTyped, NodeTypeOK, KeysMade
<1>3. starts' \in 0..MaxStarts /\ KeysMade'
  BY <1>2 DEF Start, KeysMade, At, Keys, keyVars
<1>4. BootTyped'
  BY DEF Start, BootTyped, At
<1> QED BY <1>1, <1>3, <1>4 DEF Start, keyVars, stopVars, NodeTyped, NodeTypeOK, BootTyped, Making

LEMMA NodeTypedNext == NodeTyped /\ [NodeNext]_nodeVars => NodeTyped'
<1> SUFFICES ASSUME NodeTyped, [NodeNext]_nodeVars PROVE NodeTyped'
  OBVIOUS
<1>1. InferenceTypeOK /\ BootTyped
  BY DEF NodeTyped, NodeTypeOK
<1>2. CASE Start \/ Identity
  BY <1>2, StartTypes, IdentityTypes
<1>3. CASE Serve \/ Checks \/ Sleeps \/ StopRunning \/ Notify \/ UNCHANGED nodeVars
  <2>1. UNCHANGED <<inferenceVars, keyVars, passphrase, starts>>
    BY <1>3 DEF Serve, Checks, Sleeps, StopRunning, Notify, nodeVars
  <2>2. InferenceTypeOK' /\ BootTyped'
    BY <1>1, <2>1 DEF inferenceVars, serverVars, callVars, InferenceTypeOK, BootTyped
  <2>3. /\ serve' \in {serve, "out", "checks", "sleeps", "asleep", "returned"}
        /\ stop' \in {stop, "no", "notify", "disconnect", "stopped"}
        /\ running' \in {running, TRUE, FALSE}
    BY <1>3 DEF Serve, Checks, Sleeps, StopRunning, Notify, nodeVars, stopVars
  <2> QED BY <2>1, <2>2, <2>3, ElsewhereTypes DEF inferenceVars, serverVars, keyVars
<1>4. CASE Disconnect
  <2>1. InferenceTypeOK' /\ BootTyped'
    BY <1>1, <1>4, InferenceAssumption DEF Disconnect, InferenceTypeOK, BootTyped
  <2> QED BY <1>4, <2>1, ElsewhereTypes DEF Disconnect, keyVars
<1>5. CASE Dies
  <2>1. Idle \in Calls
    BY PathFacts, InferenceAssumption DEF Idle, Calls
  <2>2. /\ engine' \in Engines /\ loaded' = {} /\ client' = "none" /\ jobs' = << >> /\ cfg' = cfg
        /\ call' \in [Threads -> Calls] /\ asked' = 0 /\ BootTyped'
    BY <1>5, <2>1, PathFacts DEF Dies, NoEngine, Engines, At, BootTyped
  <2>3. InferenceTypeOK'
    BY <1>1, <2>2, InferenceAssumption DEF InferenceTypeOK, Engines, Calls
  <2>4. boot'.at \notin Making \cup {"identity"} /\ boot' # boot
    BY <1>5 DEF Dies, At, Making
  <2>5. running' = FALSE /\ key' = NoKey /\ serve' = "out" /\ stop' = "no"
        /\ UNCHANGED <<keyFile, made, former, faulty, passphrase, starts>>
    BY <1>5 DEF Dies
  <2> QED BY <2>2, <2>3, <2>4, <2>5, ElsewhereTypes
<1>6. CASE /\ Server \/ Sdk \/ \E t \in Threads : Asks(t)
           /\ UNCHANGED <<keyVars, stopVars, passphrase, starts>>
  <2>1. InferenceTypeOK'
    BY <1>1, <1>6, BootTypes, WorkTypes, SdkTypes, AskTypes DEF Server, Asks
  <2>2. BootTyped' /\ (boot' = boot \/ boot'.at \notin Making \cup {"identity"})
    <3>1. CASE Boot
      <4>1. boot'.at \in {boot.at, "grammar", "math", "network", "grounding", "elms", "ready",
                          "failed"}
        <5>1. CASE BootElm
          <6>1. \/ boot' = [boot EXCEPT !.next = boot.next + 1] \/ boot' = At("failed")
            BY <5>1 DEF BootElm
          <6> QED BY <1>1, <6>1 DEF BootTyped, At
        <5>2. CASE BootEngine \/ BootSpecialist \/ BootNetwork \/ BootGrounding \/ BootDone
          BY <5>2 DEF BootEngine, BootSpecialist, BootNetwork, BootGrounding, BootDone, At
        <5> QED BY <3>1, <5>1, <5>2 DEF Boot
      <4>2. boot.at # "identity"
        BY <3>1 DEF Boot, BootEngine, BootSpecialist, BootNetwork, BootGrounding, BootElm,
                    BootDone, Specialists
      <4> QED BY <1>1, <3>1, <4>1, <4>2, BootGoesOn
    <3>2. CASE ~Boot
      <4>1. boot' = boot
        BY <1>6, <3>2
           DEF Server, Sdk, JobStarts, JobEnds, OthersJob, Disabled, Asks, Ask, Work, Infer, Ends,
               SubmitJob, Poll, DeadlinePassed, SubmitDirect, Process, Return, serverVars
      <4> QED BY <1>1, <4>1 DEF BootTyped
    <3> QED BY <3>1, <3>2
  <2> QED BY <1>6, <2>1, <2>2, ElsewhereTypes DEF keyVars, stopVars
<1> QED BY <1>2, <1>3, <1>4, <1>5, <1>6 DEF NodeNext

\* Every variable of a node keeps its type; in particular there are never more keys than
\* processes and the one key a node of an older version left.
THEOREM NodeTypes == NodeSpec => []NodeTypeOK
<1>1. NodeTyped => NodeTypeOK
  BY DEF NodeTyped
<1> QED BY <1>1, NodeTypedInit, NodeTypedNext, PTL DEF NodeSpec
-----------------------------------------------------------------------------
(* The job of a call *)

\* What a call that polls knows, as long as the node has nothing else to do: the jobs
\* before its own have ended, and its own was taken up if the node was seen processing.
Awaits(t) ==
    call[t].at = "poll" =>
       /\ call[t].job \in 1..Len(jobs)
       /\ call[t].alone /\ Len(jobs) = call[t].job =>
             /\ \A j \in 1..call[t].job - 1 : jobs[j] = "done"
             /\ call[t].was => jobs[call[t].job] # "queued"

\* Stop waits for the request, and there is none after it.
NoRequestAfterStop == stop # "no" => call["request"] = Idle

JInv == NodeTypeOK /\ (\A t \in Threads : Awaits(t)) /\ NoRequestAfterStop

\* Calls that do not begin to wait, while the jobs stay.
LEMMA AwaitsElsewhere ==
  ASSUME NEW t \in Threads, Awaits(t), jobs' = jobs,
         call'[t] = call[t] \/ call'[t].at # "poll"
  PROVE  Awaits(t)'
BY DEF Awaits

LEMMA AwaitsOtherJobs ==
  ASSUME InferenceTypeOK, NEW t \in Threads, Awaits(t), call'[t] = call[t],
         jobs' = Append(jobs, "queued")
  PROVE  Awaits(t)'
<1>1. Len(jobs) \in Nat /\ Len(jobs') = Len(jobs) + 1
  BY DEF InferenceTypeOK
<1>2. CASE call[t].at # "poll"
  BY <1>2 DEF Awaits
<1>3. CASE call[t].at = "poll"
  <2>1. call[t].job \in 1..Len(jobs) /\ call[t].job # Len(jobs')
    BY <1>1, <1>3 DEF Awaits
  <2>2. call[t].job \in 1..Len(jobs')
    BY <1>1, <2>1
  <2> QED BY <2>1, <2>2 DEF Awaits
<1> QED BY <1>2, <1>3

LEMMA AwaitsJobsGoOn ==
  ASSUME InferenceTypeOK, NEW t \in Threads, Awaits(t), call'[t] = call[t], JobStarts \/ JobEnds
  PROVE  Awaits(t)'
<1>1. jobs \in Seq({"queued", "running", "done"}) /\ Len(jobs) \in Nat
  BY DEF InferenceTypeOK
<1>2. PICK j \in 1..Len(jobs), to \in {"running", "done"} :
         jobs[j] # "done" /\ jobs' = [jobs EXCEPT ![j] = to]
  BY DEF JobStarts, JobEnds
<1>3. /\ Len(jobs') = Len(jobs)
      /\ \A i \in 1..Len(jobs) : jobs'[i] = IF i = j THEN to ELSE jobs[i]
  BY <1>1, <1>2
<1>4. CASE call[t].at # "poll"
  BY <1>4 DEF Awaits
<1>5. CASE call[t].at = "poll"
  <2>1. call[t].job \in 1..Len(jobs)
    BY <1>5 DEF Awaits
  <2>2. \A i \in 1..call[t].job - 1 : i \in 1..Len(jobs)
    BY <1>1, <2>1
  <2> QED BY <1>1, <1>2, <1>3, <1>5, <2>1, <2>2 DEF Awaits
<1> QED BY <1>4, <1>5

LEMMA AwaitsSubmitJob ==
  ASSUME InferenceTypeOK, NEW t \in Threads, SubmitJob(t), jobs' # jobs
  PROVE  Awaits(t)'
<1>1. jobs \in Seq({"queued", "running", "done"}) /\ Len(jobs) \in Nat
      /\ call \in [Threads -> Calls]
  BY InferenceTypes
<1>2. jobs' = Append(jobs, "queued")
  BY DEF SubmitJob
<1>3. /\ call'[t].job = Len(jobs) + 1 /\ ~call'[t].was
      /\ call'[t].alone => \A j \in 1..Len(jobs) : jobs[j] = "done"
  <2>1. call' = [call EXCEPT ![t].at = "poll", ![t].job = Len(jobs) + 1,
                             ![t].left = MaxPolls, ![t].was = FALSE,
                             ![t].alone = \A j \in 1..Len(jobs) : jobs[j] = "done"]
    BY DEF SubmitJob
  <2> DEFINE c == [call[t] EXCEPT !.at = "poll", !.job = Len(jobs) + 1, !.left = MaxPolls,
                                  !.was = FALSE,
                                  !.alone = \A j \in 1..Len(jobs) : jobs[j] = "done"]
  <2>2. call'[t] = c
    BY <1>1, <2>1
  <2>3. /\ c.job = Len(jobs) + 1 /\ c.was = FALSE
        /\ c.alone = \A j \in 1..Len(jobs) : jobs[j] = "done"
    BY <1>1 DEF Calls
  <2> QED BY <2>2, <2>3
<1>4. Len(jobs') = Len(jobs) + 1 /\ \A j \in 1..Len(jobs) : jobs'[j] = jobs[j]
  BY <1>1, <1>2
<1>5. call'[t].job \in 1..Len(jobs') /\ call'[t].job - 1 = Len(jobs)
  BY <1>1, <1>3, <1>4
<1> QED BY <1>3, <1>4, <1>5 DEF Awaits

LEMMA AwaitsPoll ==
  ASSUME InferenceTypeOK, NEW t \in Threads, Awaits(t), Poll(t)
  PROVE  Awaits(t)'
<1>1. /\ jobs \in Seq({"queued", "running", "done"}) /\ Len(jobs) \in Nat
      /\ call \in [Threads -> Calls] /\ jobs' = jobs
  BY InferenceTypes DEF Poll, Ends
<1>2. CASE call'[t].at # "poll"
  BY <1>2 DEF Awaits
<1>3. CASE call'[t].at = "poll"
  <2>1. call' = [call EXCEPT ![t].left = @ - 1, ![t].was = Status = "processing"]
        /\ call[t].at = "poll"
    <3>1. ~Ends(t, NoModel)
      <4>1. Ended(t, NoModel).at \in {"specialist", "return"}
        BY DEF Ended, Idle
      <4> QED BY <1>1, <1>3, <4>1 DEF Ends
    <3>2. call' # [call EXCEPT ![t].at = "local"]
      BY <1>1, <1>3 DEF Calls
    <3> QED BY <3>1, <3>2 DEF Poll
  <2>2. /\ call'[t].was = (Status = "processing") /\ call'[t].job = call[t].job
        /\ call'[t].alone = call[t].alone
    BY <1>1, <2>1 DEF Calls
  <2>3. call[t].job \in 1..Len(jobs)
    BY <2>1 DEF Awaits
  <2>4. Status = "processing" => \E j \in 1..Len(jobs) : jobs[j] = "running"
    BY DEF Status
  <2>5. ASSUME call[t].alone, Len(jobs) = call[t].job
        PROVE  /\ \A j \in 1..call[t].job - 1 : jobs[j] = "done"
               /\ Status = "processing" => jobs[call[t].job] # "queued"
    <3>1. \A j \in 1..call[t].job - 1 : jobs[j] = "done"
      BY <2>1, <2>5 DEF Awaits
    <3>2. \A j \in 1..Len(jobs) : jobs[j] = "running" => j = call[t].job
      BY <1>1, <2>3, <2>5, <3>1
    <3> QED BY <2>4, <3>1, <3>2
  <2> QED BY <1>1, <2>2, <2>3, <2>5 DEF Awaits
<1> QED BY <1>2, <1>3

LEMMA AwaitsWork ==
  ASSUME InferenceTypeOK, \A t \in Threads : Awaits(t), NEW u \in Threads, Work(u),
         NEW t \in Threads
  PROVE  Awaits(t)'
<1>1. call \in [Threads -> Calls]
  BY InferenceTypes
<1>2. CASE SubmitJob(u) /\ jobs' # jobs
  <2>1. CASE t = u
    BY <1>2, <2>1, AwaitsSubmitJob
  <2>2. CASE t # u
    BY <1>1, <1>2, <2>2, AwaitsOtherJobs DEF SubmitJob
  <2> QED BY <2>1, <2>2
<1>3. CASE Poll(u)
  <2>1. CASE t = u
    BY <1>3, <2>1, AwaitsPoll
  <2>2. CASE t # u
    BY <1>1, <1>3, <2>2, AwaitsElsewhere DEF Poll, Ends
  <2> QED BY <2>1, <2>2
<1>4. CASE ~Poll(u) /\ ~(SubmitJob(u) /\ jobs' # jobs)
  <2>1. jobs' = jobs
    BY <1>4 DEF Work, Infer, Ends, SubmitJob, DeadlinePassed, SubmitDirect, Process, Return
  <2>2. \E c : call' = [call EXCEPT ![u] = c] /\ c.at # "poll"
    <3>1. ASSUME NEW by, Ends(u, by)
          PROVE  \E c : call' = [call EXCEPT ![u] = c] /\ c.at # "poll"
      <4>1. Ended(u, by).at \in {"specialist", "return"}
        BY DEF Ended, Idle
      <4> QED BY <3>1, <4>1 DEF Ends
    <3>2. CASE Infer(u) \/ SubmitDirect(u)
      BY <3>1, <3>2 DEF Infer, SubmitDirect
    <3>3. CASE DeadlinePassed(u) \/ SubmitJob(u)
      <4>1. call' = [call EXCEPT ![u] = [call[u] EXCEPT !.at = "local"]]
        <5>1. CASE DeadlinePassed(u)
          BY <5>1 DEF DeadlinePassed
        <5>2. CASE SubmitJob(u)
          <6>1. jobs # Append(jobs, "queued")
            BY InferenceTypes
          <6> QED BY <1>4, <2>1, <5>2, <6>1 DEF SubmitJob
        <5> QED BY <3>3, <5>1, <5>2
      <4>2. [call[u] EXCEPT !.at = "local"].at = "local"
        BY <1>1 DEF Calls
      <4> QED BY <4>1, <4>2
    <3>4. CASE Process(u)
      <4>1. \/ call' = [call EXCEPT ![u] = [call[u] EXCEPT !.at = "infer", !.stage = "specialist"]]
            \/ call' = [call EXCEPT ![u] = [call[u] EXCEPT !.at = "return"]]
        BY <1>1, <3>4 DEF Process
      <4>2. /\ [call[u] EXCEPT !.at = "infer", !.stage = "specialist"].at = "infer"
            /\ [call[u] EXCEPT !.at = "return"].at = "return"
        BY <1>1 DEF Calls
      <4> QED BY <4>1, <4>2
    <3>5. CASE Return(u)
      <4>1. Idle.at = "idle" /\ call' = [call EXCEPT ![u] = Idle]
        BY <3>5 DEF Return, Idle
      <4> QED BY <4>1
    <3> QED BY <1>4, <3>2, <3>3, <3>4, <3>5 DEF Work
  <2> QED BY <1>1, <2>1, <2>2, AwaitsElsewhere
<1> QED BY <1>2, <1>3, <1>4
LEMMA JInvInit == NodeInit => JInv
<1> SUFFICES ASSUME NodeInit PROVE JInv
  OBVIOUS
<1>1. NodeTypeOK
  BY NodeTypedInit DEF NodeTyped
<1>2. \A t \in Threads : Awaits(t)
  BY DEF NodeInit, InferenceInit, Awaits, Idle
<1>3. NoRequestAfterStop
  BY DEF NodeInit, NoRequestAfterStop
<1> QED BY <1>1, <1>2, <1>3 DEF JInv

LEMMA JInvNext == NodeTyped /\ JInv /\ [NodeNext]_nodeVars => JInv'
<1> SUFFICES ASSUME NodeTyped, JInv, [NodeNext]_nodeVars PROVE JInv'
  OBVIOUS
<1>1. NodeTypeOK' /\ InferenceTypeOK /\ NoRequestAfterStop /\ \A t \in Threads : Awaits(t)
  BY NodeTypedNext DEF NodeTyped, NodeTypeOK, JInv
<1>2. call \in [Threads -> Calls]
  BY <1>1, InferenceTypes
<1>3. CASE UNCHANGED <<jobs, call>>
  <2>1. \A t \in Threads : Awaits(t)'
    BY <1>1, <1>3 DEF Awaits
  <2>2. NoRequestAfterStop'
    BY <1>1, <1>3 DEF NoRequestAfterStop, NodeNext, Start, Identity, ReadKey, Generate, SaveOpen,
          SaveWrite, Dies, Serve, Checks, Sleeps, StopRunning, Notify, Disconnect, stopVars, nodeVars
  <2> QED BY <1>1, <2>1, <2>2 DEF JInv
<1>4. CASE Disconnect
  <2>1. call["request"] = Idle /\ call["gossip"] = Idle /\ call' = call
    BY <1>1, <1>4 DEF Disconnect, NoRequestAfterStop
  <2>2. \A t \in Threads : Awaits(t)'
    BY <2>1 DEF Awaits, Threads, Idle
  <2> QED BY <1>1, <2>1, <2>2 DEF JInv, NoRequestAfterStop
<1>5. CASE Dies
  <2>1. \A t \in Threads : Awaits(t)'
    BY <1>5 DEF Dies, Awaits, Idle
  <2> QED BY <1>1, <1>5, <2>1 DEF JInv, NoRequestAfterStop, Dies
<1>6. CASE Sdk /\ UNCHANGED stopVars
  <2>1. call' = call
    BY <1>6 DEF Sdk, JobStarts, JobEnds, OthersJob, Disabled
  <2>2. \A t \in Threads : Awaits(t)'
    BY <1>1, <1>6, <2>1, AwaitsOtherJobs, AwaitsJobsGoOn, AwaitsElsewhere
       DEF Sdk, OthersJob, Disabled
  <2> QED BY <1>1, <1>6, <2>1, <2>2 DEF JInv, NoRequestAfterStop, stopVars
<1>7. CASE (\E t \in Threads : Asks(t)) /\ UNCHANGED stopVars
  <2>1. PICK t \in Threads : Asks(t)
    BY <1>7
  <2>2. PICK target \in {"core"} \cup Specialists :
           call' = [call EXCEPT ![t].at = "infer", ![t].target = target]
    BY <2>1 DEF Asks, Ask
  <2>3. call'[t].at = "infer" /\ \A u \in Threads \ {t} : call'[u] = call[u]
    BY <1>2, <2>2 DEF Calls
  <2>4. jobs' = jobs /\ stop = "no"
    BY <2>1 DEF Asks, Ask
  <2>5. \A u \in Threads : Awaits(u)'
    BY <1>1, <2>3, <2>4, AwaitsElsewhere
  <2> QED BY <1>1, <1>7, <2>4, <2>5 DEF JInv, NoRequestAfterStop, stopVars
<1>8. CASE (\E u \in Threads : Work(u)) /\ UNCHANGED stopVars
  <2>1. PICK u \in Threads : Work(u)
    BY <1>8
  <2>2. \A t \in Threads : Awaits(t)'
    BY <1>1, <2>1, AwaitsWork
  <2>3. call[u].at # "idle" /\ \A t \in Threads \ {u} : call'[t] = call[t]
    BY <1>2, <2>1 DEF Work, Infer, Ends, SubmitJob, Poll, DeadlinePassed, SubmitDirect, Process, Return
  <2>4. stop # "no" => u # "request"
    BY <1>1, <2>3 DEF NoRequestAfterStop, Idle
  <2>5. "request" \in Threads
    BY DEF Threads
  <2> QED BY <1>1, <1>8, <2>2, <2>3, <2>4, <2>5 DEF JInv, NoRequestAfterStop, stopVars
<1> QED
  <2>1. Boot => UNCHANGED <<jobs, call>>
    BY DEF Boot, BootEngine, BootSpecialist, BootNetwork, BootGrounding, BootElm, BootDone, callVars
  <2>2. Start \/ Identity \/ Serve \/ Checks \/ Sleeps \/ StopRunning \/ Notify
           => UNCHANGED <<jobs, call>>
    BY DEF Start, Identity, ReadKey, Generate, SaveOpen, SaveWrite, Serve, Checks, Sleeps,
           StopRunning, Notify, inferenceVars, callVars
  <2>3. UNCHANGED nodeVars => UNCHANGED <<jobs, call>>
    BY DEF nodeVars, inferenceVars, callVars
  <2> QED BY <1>3, <1>4, <1>5, <1>6, <1>7, <1>8, <2>1, <2>2, <2>3 DEF NodeNext, Server

LEMMA CompletesOnPoll ==
  ASSUME NodeTypeOK, [NodeNext]_nodeVars, NEW t \in Threads, Completes(t)
  PROVE  Status = "idle" /\ call[t].was
<1>1. call \in [Threads -> Calls] /\ call[t].at = "poll" /\ call'[t].at = "return"
  BY InferenceTypes DEF NodeTypeOK, Completes
<1>2. call'[t] # call[t] /\ call'[t] # Idle
  BY <1>1 DEF Idle
<1>3. (\E u \in Threads : Work(u)) \/ (\E u \in Threads : Asks(u))
  <2>1. CASE Dies
    BY <1>2, <2>1 DEF Dies
  <2>2. CASE ~Dies
    BY <1>2, <2>2
       DEF NodeNext, Start, Identity, ReadKey, Generate, SaveOpen, SaveWrite, Serve, Checks, Sleeps,
           StopRunning, Notify, Disconnect, Server, Boot, BootEngine, BootSpecialist, BootNetwork,
           BootGrounding, BootElm, BootDone, Sdk, JobStarts, JobEnds, OthersJob, Disabled,
           inferenceVars, callVars, nodeVars
  <2> QED BY <2>1, <2>2
<1>4. PICK u \in Threads : Work(u) \/ Asks(u)
  BY <1>3
<1>5. u = t
  BY <1>1, <1>2, <1>4 DEF Asks, Ask, Work, Infer, Ends, SubmitJob, Poll, DeadlinePassed,
        SubmitDirect, Process, Return
<1>6. Poll(t)
  <2>1. ~Asks(t)
    BY <1>1 DEF Asks, Ask, Idle
  <2>2. ~DeadlinePassed(t)
    BY <1>1 DEF DeadlinePassed, Calls
  <2>3. Poll(t) \/ DeadlinePassed(t)
    BY <1>1, <1>4, <1>5, <2>1 DEF Work, Infer, SubmitJob, SubmitDirect, Process, Return
  <2> QED BY <2>2, <2>3
<1>7. call' # [call EXCEPT ![t].at = "local"]
      /\ call' # [call EXCEPT ![t].left = @ - 1, ![t].was = Status = "processing"]
  BY <1>1 DEF Calls
<1> QED BY <1>6, <1>7 DEF Poll

\* A job that is reported complete has ended, if the node had nothing else to do since it
\* was submitted: although PollForResult looks at the status of the node alone.
THEOREM CompletedJobsEnded == NodeSpec => CompletionIsOwn
<1>1. ASSUME NodeTyped, JInv, [NodeNext]_nodeVars, NEW t \in Threads, Completes(t), call[t].alone,
             Len(jobs) = call[t].job
      PROVE  jobs[call[t].job] = "done"
  <2>1. Status = "idle" /\ call[t].was
    BY <1>1, CompletesOnPoll DEF JInv
  <2>2. call[t].job \in 1..Len(jobs) /\ jobs[call[t].job] # "queued"
    BY <1>1, <2>1 DEF JInv, Awaits, Completes
  <2>3. jobs[call[t].job] \in {"queued", "running", "done"}
    BY <1>1, <2>2 DEF JInv, NodeTypeOK, InferenceTypeOK
  <2>4. jobs[call[t].job] # "running"
    BY <2>1, <2>2 DEF Status
  <2> QED BY <2>2, <2>3, <2>4
<1>2. NodeTyped /\ JInv /\ [NodeNext]_nodeVars =>
        [\A t \in Threads :
            Completes(t) /\ call[t].alone /\ Len(jobs) = call[t].job
               => jobs[call[t].job] = "done"]_inferenceVars
  BY <1>1
<1> QED BY <1>2, NodeTypedInit, NodeTypedNext, JInvInit, JInvNext, PTL DEF NodeSpec, CompletionIsOwn

-----------------------------------------------------------------------------
(* What the shared engine runs on *)

\* The eager entries before the n-th that went into the shared engine.
SharedBefore(n) == {i \in Shared : i < n}

\* The model of the engine when no eager entry went into it.
OwnPath ==
    IF "math" \in loaded THEN cfg.math
    ELSE IF "grammar" \in loaded THEN cfg.grammar
    ELSE IF engine.loaded THEN cfg.core
    ELSE NoModel

\* The engine runs on the last of some eager entries, or else on a model of its own.
RunsOnLast(is) ==
    /\ IF is # {}
         THEN \E i \in is : engine.path = cfg.eager[i].model /\ \A j \in is : j <= i
         ELSE engine.path = OwnPath
    /\ ~cfg.sg => engine.llm \in {engine.path, NoModel}

\* Before the network the bridge is made by the first model, and is not wired.
BridgeOf(models) ==
    cfg.sg => engine.bridge = IF models = {NoModel} THEN "none" ELSE "unwired"

\* After it, it is wired until an eager entry makes a new one.
WiredBefore(is) ==
    cfg.sg /\ cfg.network =>
       (engine.bridge = "wired" <=> {cfg.core, cfg.grammar, cfg.math} # {NoModel} /\ is = {})

NothingLoaded == engine = NoEngine /\ loaded = {}

LoadInv ==
    /\ boot.at \in {"down", "identity", "engine"} \cup Making => NothingLoaded
    /\ boot.at = "grammar" => loaded = {} /\ RunsOnLast({}) /\ BridgeOf({cfg.core})
    /\ boot.at = "math" =>
          loaded \subseteq {"grammar"} /\ RunsOnLast({}) /\ BridgeOf({cfg.core, cfg.grammar})
    /\ boot.at = "network" => RunsOnLast({}) /\ BridgeOf({cfg.core, cfg.grammar, cfg.math})
    /\ boot.at = "grounding" => RunsOnLast({}) /\ WiredBefore({})
    /\ boot.at = "elms" =>
          RunsOnLast(SharedBefore(boot.next)) /\ WiredBefore(SharedBefore(boot.next))
    /\ boot.at = "ready" => RunsOnLast(Shared) /\ WiredBefore(Shared)

LEMMA LoadInit == NodeInit => LoadInv
BY DEF NodeInit, InferenceInit, LoadInv, NothingLoaded, At, Making

\* What loading a model makes of the engine.
LEMMA LoadModelDoes ==
  ASSUME engine \in Engines, NEW model, NEW r \in LoadModel(model)
  PROVE  /\ r.ok => /\ r.engine.loaded /\ r.engine.path = model
                    /\ cfg.sg => r.engine.bridge = "unwired"
                    /\ ~cfg.sg => r.engine.llm = model
         /\ ~r.ok => /\ ~cfg.sg /\ r.engine.loaded = engine.loaded
                     /\ r.engine.path = engine.path /\ r.engine.llm \in {engine.llm, NoModel}
<1>1. CASE cfg.sg
  <2>1. r = [ok |-> TRUE,
             engine |-> [engine EXCEPT !.loaded = TRUE, !.path = model, !.bridge = "unwired"]]
    BY <1>1 DEF LoadModel
  <2> QED BY <1>1, <2>1 DEF Engines
<1>2. CASE ~cfg.sg
  <2>1. \/ r = [ok |-> TRUE,
                engine |-> [engine EXCEPT !.loaded = TRUE, !.path = model, !.llm = model]]
        \/ r = [ok |-> FALSE, engine |-> engine]
        \/ r = [ok |-> FALSE, engine |-> [engine EXCEPT !.llm = NoModel]]
    BY <1>2 DEF LoadModel
  <2>2. CASE r = [ok |-> TRUE,
                  engine |-> [engine EXCEPT !.loaded = TRUE, !.path = model, !.llm = model]]
    BY <1>2, <2>2 DEF Engines
  <2>3. CASE r = [ok |-> FALSE, engine |-> engine]
    BY <1>2, <2>3
  <2>4. CASE r = [ok |-> FALSE, engine |-> [engine EXCEPT !.llm = NoModel]]
    BY <1>2, <2>4 DEF Engines
  <2> QED BY <2>1, <2>2, <2>3, <2>4
<1> QED BY <1>1, <1>2

LEMMA LoadBootEngine ==
  ASSUME LoadInv, engine \in Engines, BootEngine
  PROVE  LoadInv'
<1>1. /\ boot'.at = "grammar" /\ loaded = {} /\ UNCHANGED <<cfg, loaded>>
      /\ engine.path = NoModel /\ engine.llm = NoModel /\ engine.bridge = "none"
      /\ ~engine.loaded
  BY DEF BootEngine, LoadInv, NothingLoaded, NoEngine, At, serverVars
<1>2. CASE cfg.core = NoModel
  <2>1. engine' = [engine EXCEPT !.loaded = TRUE]
    BY <1>2 DEF BootEngine
  <2>2. /\ engine'.loaded /\ engine'.path = NoModel /\ engine'.llm = NoModel
        /\ engine'.bridge = "none"
    BY <1>1, <2>1 DEF Engines
  <2>3. RunsOnLast({})' /\ BridgeOf({cfg.core})'
    BY <1>1, <1>2, <2>2 DEF RunsOnLast, OwnPath, BridgeOf
  <2> QED BY <1>1, <2>3 DEF LoadInv, Making
<1>3. CASE cfg.core # NoModel
  <2>1. PICK r \in LoadModel(cfg.core) : engine' = r.engine
    BY <1>3 DEF BootEngine
  <2>2. RunsOnLast({})' /\ BridgeOf({cfg.core})'
    BY <1>1, <1>3, <2>1, LoadModelDoes DEF RunsOnLast, OwnPath, BridgeOf
  <2> QED BY <1>1, <2>2 DEF LoadInv, Making
<1> QED BY <1>2, <1>3

LEMMA LoadBootSpecialist ==
  ASSUME LoadInv, engine \in Engines, BootSpecialist
  PROVE  LoadInv'
<1>1. /\ RunsOnLast({}) /\ UNCHANGED cfg
      /\ \/ boot.at = "grammar" /\ boot'.at = "math" /\ loaded = {} /\ BridgeOf({cfg.core})
         \/ /\ boot.at = "math" /\ boot'.at = "network" /\ loaded \subseteq {"grammar"}
            /\ BridgeOf({cfg.core, cfg.grammar})
  BY DEF BootSpecialist, LoadInv, Specialists, At
<1>2. CASE cfg[boot.at] = NoModel
  <2>1. UNCHANGED <<engine, loaded>>
    BY <1>2 DEF BootSpecialist
  <2>2. RunsOnLast({})'
    BY <1>1, <2>1 DEF RunsOnLast, OwnPath
  <2>3. CASE boot.at = "grammar"
    <3>1. BridgeOf({cfg.core, cfg.grammar})'
      BY <1>1, <1>2, <2>1, <2>3 DEF BridgeOf
    <3> QED BY <1>1, <2>1, <2>2, <2>3, <3>1 DEF LoadInv, Making
  <2>4. CASE boot.at = "math"
    <3>1. BridgeOf({cfg.core, cfg.grammar, cfg.math})'
      BY <1>1, <1>2, <2>1, <2>4 DEF BridgeOf
    <3> QED BY <1>1, <2>2, <2>4, <3>1 DEF LoadInv, Making
  <2> QED BY <1>1, <2>3, <2>4
<1>3. CASE cfg[boot.at] # NoModel
  <2>1. PICK r \in LoadModel(cfg[boot.at]) :
           engine' = r.engine /\ loaded' = IF r.ok THEN loaded \cup {boot.at} ELSE loaded
    BY <1>3 DEF BootSpecialist
  <2>2. RunsOnLast({})'
    <3>1. CASE r.ok
      <4>1. engine'.path = cfg[boot.at] /\ (~cfg.sg => engine'.llm = engine'.path)
        BY <2>1, <3>1, LoadModelDoes
      <4>2. CASE boot.at = "grammar"
        <5>1. OwnPath' = cfg.grammar
          BY <1>1, <2>1, <3>1, <4>2 DEF OwnPath
        <5> QED BY <1>1, <4>1, <4>2, <5>1 DEF RunsOnLast
      <4>3. CASE boot.at = "math"
        <5>1. OwnPath' = cfg.math
          BY <1>1, <2>1, <3>1, <4>3 DEF OwnPath
        <5> QED BY <1>1, <4>1, <4>3, <5>1 DEF RunsOnLast
      <4> QED BY <1>1, <4>2, <4>3
    <3>2. CASE ~r.ok
      <4>1. /\ engine'.loaded = engine.loaded /\ engine'.path = engine.path
            /\ engine'.llm \in {engine.llm, NoModel} /\ UNCHANGED <<loaded, cfg>>
        BY <1>1, <2>1, <3>2, LoadModelDoes
      <4> QED BY <1>1, <4>1 DEF RunsOnLast, OwnPath
    <3> QED BY <3>1, <3>2
  <2>3. cfg.sg => engine'.bridge = "unwired"
    BY <2>1, LoadModelDoes
  <2>4. CASE boot.at = "grammar"
    <3>1. BridgeOf({cfg.core, cfg.grammar})' /\ loaded' \subseteq {"grammar"}
      BY <1>1, <1>3, <2>1, <2>3, <2>4 DEF BridgeOf
    <3> QED BY <1>1, <2>2, <2>4, <3>1 DEF LoadInv, Making
  <2>5. CASE boot.at = "math"
    <3>1. BridgeOf({cfg.core, cfg.grammar, cfg.math})'
      BY <1>1, <1>3, <2>3, <2>5 DEF BridgeOf
    <3> QED BY <1>1, <2>2, <2>5, <3>1 DEF LoadInv, Making
  <2> QED BY <1>1, <2>4, <2>5
<1> QED BY <1>2, <1>3

LEMMA LoadBootNetwork ==
  ASSUME LoadInv, engine \in Engines, BootNetwork
  PROVE  LoadInv'
<1>1. /\ RunsOnLast({}) /\ BridgeOf({cfg.core, cfg.grammar, cfg.math})
      /\ boot'.at = "grounding" /\ UNCHANGED <<cfg, loaded>>
  BY DEF BootNetwork, LoadInv, At
<1>2. CASE ~cfg.network
  <2>1. engine' = engine
    BY <1>2 DEF BootNetwork
  <2>2. RunsOnLast({})' /\ WiredBefore({})'
    BY <1>1, <1>2, <2>1 DEF RunsOnLast, OwnPath, WiredBefore
  <2> QED BY <1>1, <2>2 DEF LoadInv, Making
<1>3. CASE cfg.network
  <2>1. engine' = IF engine.bridge = "none" THEN engine ELSE [engine EXCEPT !.bridge = "wired"]
    BY <1>3 DEF BootNetwork
  <2>2. /\ engine'.path = engine.path /\ engine'.llm = engine.llm /\ engine'.loaded = engine.loaded
        /\ engine'.bridge = "wired" <=> engine.bridge # "none"
    BY <2>1 DEF Engines
  <2>3. RunsOnLast({})'
    BY <1>1, <2>2 DEF RunsOnLast, OwnPath
  <2>4. WiredBefore({})'
    BY <1>1, <2>2 DEF BridgeOf, WiredBefore
  <2> QED BY <1>1, <2>3, <2>4 DEF LoadInv, Making
<1> QED BY <1>2, <1>3

LEMMA LoadBootGrounding ==
  ASSUME LoadInv, BootTyped, BootGrounding
  PROVE  LoadInv'
<1>1. /\ RunsOnLast({}) /\ WiredBefore({}) /\ UNCHANGED <<cfg, engine>>
      /\ boot' \in {At("elms"), At("failed")}
      /\ "math" \in loaded' <=> "math" \in loaded
      /\ "grammar" \in loaded' <=> "grammar" \in loaded
  BY DEF BootGrounding, LoadInv
<1>2. RunsOnLast({})' /\ WiredBefore({})'
  BY <1>1 DEF RunsOnLast, OwnPath, WiredBefore
<1>3. CASE boot' = At("failed")
  BY <1>3 DEF LoadInv, At, Making
<1>4. CASE boot' = At("elms")
  <2>1. boot'.at = "elms" /\ boot'.next = 1
    BY <1>4 DEF At
  <2>2. SharedBefore(boot.next)' = {}
    BY <2>1 DEF SharedBefore, Shared
  <2> QED BY <1>2, <2>1, <2>2 DEF LoadInv, Making
<1> QED BY <1>1, <1>3, <1>4

LEMMA LoadBootDone ==
  ASSUME LoadInv, BootTyped, cfg \in Configs, BootDone
  PROVE  LoadInv'
<1>1. /\ boot.next > Len(cfg.eager) /\ boot'.at = "ready" /\ UNCHANGED <<cfg, engine, loaded>>
      /\ RunsOnLast(SharedBefore(boot.next)) /\ WiredBefore(SharedBefore(boot.next))
  BY DEF BootDone, LoadInv, At
<1>2. Len(cfg.eager) \in Nat /\ boot.next \in Nat
  BY InferenceAssumption DEF BootTyped
<1>3. SharedBefore(boot.next) = Shared
  BY <1>1, <1>2 DEF SharedBefore, Shared
<1>4. Shared' = Shared
  BY <1>1 DEF Shared, Apart
<1>5. RunsOnLast(Shared)' /\ WiredBefore(Shared)'
  BY <1>1, <1>3, <1>4 DEF RunsOnLast, OwnPath, WiredBefore
<1> QED BY <1>1, <1>5 DEF LoadInv, Making

LEMMA LoadBootElm ==
  ASSUME LoadInv, BootTyped, cfg \in Configs, engine \in Engines, BootElm
  PROVE  LoadInv'
<1> DEFINE n == boot.next
<1> DEFINE before == SharedBefore(n)
<1>1. /\ boot.at = "elms" /\ n <= Len(cfg.eager) /\ cfg' = cfg
      /\ RunsOnLast(before) /\ WiredBefore(before)
  BY DEF BootElm, LoadInv
<1>2. Len(cfg.eager) \in Nat /\ n \in Nat \ {0} /\ n \in 1..Len(cfg.eager)
  BY <1>1, InferenceAssumption DEF BootTyped
<1>3. Shared' = Shared
  BY <1>1 DEF Shared, Apart
<1>4. before \subseteq 1..Len(cfg.eager) /\ \A j \in before : j < n
  BY DEF SharedBefore, Shared
<1>5. CASE Apart(cfg.eager[n].role)
  <2> DEFINE role == cfg.eager[n].role
  <2>1. role \notin Specialists
    BY <1>5 DEF Apart, NoSharedEngine, Specialists
  <2>2. /\ loaded' = loaded \cup ({role} \ {"toolsupport"}) /\ engine' = engine
        /\ boot' = [boot EXCEPT !.next = boot.next + 1]
    BY <1>5, <2>1 DEF BootElm
  <2>3. boot'.at = "elms" /\ boot'.next = n + 1
    BY <1>1, <2>2 DEF BootTyped
  <2>4. SharedBefore(boot.next)' = before
    BY <1>2, <1>3, <1>5, <2>3 DEF SharedBefore, Shared
  <2>5. OwnPath' = OwnPath
    BY <1>1, <2>1, <2>2 DEF OwnPath, Specialists
  <2>6. RunsOnLast(SharedBefore(boot.next))' /\ WiredBefore(SharedBefore(boot.next))'
    BY <1>1, <2>2, <2>4, <2>5 DEF RunsOnLast, WiredBefore
  <2> QED BY <2>3, <2>6 DEF LoadInv, Making
<1>6. CASE boot' = At("failed")
  BY <1>6 DEF LoadInv, At, Making
<1>7. CASE ~Apart(cfg.eager[n].role) /\ boot' # At("failed")
  <2>1. PICK r \in LoadModel(cfg.eager[n].model) :
           r.ok /\ engine' = r.engine /\ boot' = [boot EXCEPT !.next = boot.next + 1]
    BY <1>7 DEF BootElm
  <2>2. boot'.at = "elms" /\ boot'.next = n + 1
    BY <1>1, <2>1 DEF BootTyped
  <2>3. PICK now : now = before \cup {n}
    OBVIOUS
  <2>4. SharedBefore(boot.next)' = now
    <3>1. n \in Shared
      BY <1>2, <1>7 DEF Shared
    <3>2. \A i \in Shared : i < n + 1 <=> i < n \/ i = n
      BY <1>2 DEF Shared
    <3> QED BY <1>2, <1>3, <2>2, <2>3, <3>1, <3>2 DEF SharedBefore
  <2>5. engine'.path = cfg.eager[n].model /\ (~cfg.sg => engine'.llm = engine'.path)
        /\ (cfg.sg => engine'.bridge = "unwired")
    BY <2>1, LoadModelDoes
  <2>6. n \in now /\ \A j \in now : j <= n
    BY <1>2, <1>4, <2>3
  <2>7. RunsOnLast(now)'
    BY <1>1, <2>5, <2>6 DEF RunsOnLast
  <2>8. WiredBefore(now)'
    BY <1>1, <2>5, <2>6 DEF WiredBefore
  <2>9. RunsOnLast(SharedBefore(boot.next))' /\ WiredBefore(SharedBefore(boot.next))'
    BY <2>4, <2>7, <2>8 DEF RunsOnLast, WiredBefore
  <2> QED BY <2>2, <2>9 DEF LoadInv, Making
<1> QED BY <1>5, <1>6, <1>7

\* The steps that leave the engine and what is loaded alone, and do not start it.
LEMMA LoadElsewhere ==
  ASSUME LoadInv, UNCHANGED <<cfg, engine, loaded, boot>>
  PROVE  LoadInv'
<1>1. Shared' = Shared /\ SharedBefore(boot.next)' = SharedBefore(boot.next)
  BY DEF Shared, SharedBefore, Apart
<1> QED BY <1>1 DEF LoadInv, NothingLoaded, RunsOnLast, OwnPath, BridgeOf, WiredBefore

LEMMA LoadNext == NodeTyped /\ LoadInv /\ [NodeNext]_nodeVars => LoadInv'
<1> SUFFICES ASSUME NodeTyped, LoadInv, [NodeNext]_nodeVars PROVE LoadInv'
  OBVIOUS
<1>1. cfg \in Configs /\ engine \in Engines /\ BootTyped
  BY InferenceTypes DEF NodeTyped, NodeTypeOK
<1>2. CASE Boot
  BY <1>1, <1>2, LoadBootEngine, LoadBootSpecialist, LoadBootNetwork, LoadBootGrounding,
     LoadBootElm, LoadBootDone DEF Boot
<1>3. CASE Identity
  <2>1. boot.at \in {"identity", "generate", "save", "write"} /\ UNCHANGED <<engine, loaded>>
    BY <1>3 DEF Identity, ReadKey, Generate, SaveOpen, SaveWrite
  <2>2. boot' \in {At("generate"), At("save"), At("write"), At("engine"), At("terminated")}
    BY <1>3 DEF Identity, ReadKey, Generate, SaveOpen, SaveWrite, Uses
  <2>3. boot'.at \in {"generate", "save", "write", "engine", "terminated"}
    BY <2>2 DEF At
  <2>4. NothingLoaded'
    BY <2>1 DEF LoadInv, NothingLoaded, Making
  <2> QED BY <2>3, <2>4 DEF LoadInv, Making
<1>4. CASE Start
  <2>1. boot.at = "down" /\ boot'.at = "identity" /\ UNCHANGED <<engine, loaded>>
    BY <1>4 DEF Start, At
  <2> QED BY <2>1 DEF LoadInv, NothingLoaded, Making
<1>5. CASE Dies
  <2>1. boot'.at = "down" /\ engine' = NoEngine /\ loaded' = {}
    BY <1>5 DEF Dies, At
  <2> QED BY <2>1 DEF LoadInv, NothingLoaded, Making
<1>6. CASE ~Boot /\ ~Identity /\ ~Start /\ ~Dies
  <2>1. UNCHANGED <<cfg, engine, loaded, boot>>
    BY <1>6 DEF NodeNext, Serve, Checks, Sleeps, StopRunning, Notify, Disconnect, Server, Sdk,
          JobStarts, JobEnds, OthersJob, Disabled, Asks, Ask, Work, Infer, Ends, SubmitJob, Poll,
          DeadlinePassed, SubmitDirect, Process, Return, serverVars, inferenceVars, nodeVars
  <2> QED BY <2>1, LoadElsewhere
<1> QED BY <1>2, <1>3, <1>4, <1>5, <1>6

\* Whatever was loaded last into the shared engine is what the core, the specialists and the
\* role ELMs all run on, for any configuration and however the loads went, and the same in
\* every process of the node (LoadModel, ApiServer::Initialize).
THEOREM LastLoadAlwaysWins == NodeSpec => []LastLoadWins
<1>1. LoadInv => LastLoadWins
  BY DEF LoadInv, RunsOnLast, OwnPath, LastLoadWins
<1>2. NodeTyped /\ LoadInv /\ [NodeNext]_nodeVars => (NodeTyped /\ LoadInv)'
  BY LoadNext, NodeTypedNext
<1> QED BY <1>1, <1>2, NodeTypedInit, LoadInit, PTL DEF NodeSpec

\* In network mode the bridge of a node that serves is wired to its client exactly if a model
\* was loaded before SetSGClient and no eager ELM into the shared engine after it
\* (LoadModel makes a new bridge, InitializeNetwork is not called again).
THEOREM ReloadUnwires == NodeSpec => []WiredUnlessReloaded
<1>1. LoadInv => WiredUnlessReloaded
  BY DEF LoadInv, WiredBefore, WiredUnlessReloaded
<1>2. NodeTyped /\ LoadInv /\ [NodeNext]_nodeVars => (NodeTyped /\ LoadInv)'
  BY LoadNext, NodeTypedNext
<1> QED BY <1>1, <1>2, NodeTypedInit, LoadInit, PTL DEF NodeSpec
=============================================================================
