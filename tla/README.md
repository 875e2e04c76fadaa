# A TLA+ verification of GNUS-NEO-SWARM

The repository holds two programs that share data formats and little else:

* **gnus-poc** (Python, `gnus-poc/`): a pipeline that prepares data for "specialist"
  niches, asks teacher models for synthetic data, trains, evaluates, distils and
  quantizes one adapter per niche.
* **neoswarm** (C++, `src/`): a node of a peer-to-peer inference swarm. `ApiServer`
  routes a request, runs it locally or broadcasts it, collects what comes back, votes,
  and keeps a reputation for every node, on disk and in a replica spread by gossip.

Paths below are relative to the repository. The specifications are translated from the
source at one commit; documents and comments are only used as statements of intent, and
where the code does something else a run shows it (see *Disagreements*).

Contents: [inventory](#inventory), [modules](#modules), [runs](#runs),
[proofs](#proofs), [disagreements](#disagreements-between-the-code-and-what-is-said-of-it),
[limits](#what-is-abstracted-and-what-is-not-modelled), [plan](#plan).

## Inventory

For every component: the state it keeps, its operations, whom it talks to, what is hard
about it, and what makes it correct.

### gnus-poc

| component | state | operations | interacts with | hard behaviour | correct when |
|---|---|---|---|---|---|
| Runner (`pipeline/runner.py`) | position in niches and stages, attempt, flags | `run`, `_run_stage`, `main` | starts every stage script as a child; asks the validator | child failure, timeout and retry, crash at any point, flags over several invocations | it ends; a niche that is rejected is left; nothing is redone or lost without `--force` |
| Checkpoints (`pipeline/checkpoint.py`) | one JSON file per niche and stage | `validate_stage`, `is_complete`, `mark_complete`, `clear_all_checkpoints` | read by the runner to skip a stage | torn file, failing `unlink`, raising validator | a checkpoint vouches for what is on disk |
| Stage scripts (`data/scripts`, `distill/synthetic.py`, `training/dedup.py`, `training/train_specialists_mlx.py`, `eval/evaluator.py`, `distill/distillation.py`, `quantize/fp4_exporter.py`) | files per niche | their `__main__` | each reads what earlier ones wrote; the validators read all of it | exit 0 without output, left-overs of earlier runs, names two authors chose independently | what a script leaves is what its validator asks for |
| Teacher client (`distill/teacher.py`) | total cost (memory and file), failure count, circuit flags and timer | `generate`, `_call_api`, `_check_circuit`, `_check_budget`, `_load/_save_budget_state` | model endpoints; the next process through the file | retries, breaker tripping inside a call, kill between spending and saving, torn file, full disk | the cap holds across processes; a dead endpoint is left alone |
| Teacher cascade (`distill/cascade.py`, `distill/synthetic.py`) | level, answers so far | `execute`, `generate_for_niche` | the client, through its exceptions | every teacher can fail for another reason | it ends, and each sample of it |
| Router state machine (`router/`) | a declarative state graph | `build`, `validate` | exported to the C++ side | reachability and guards of the graph | no state without exit, fallbacks are bounded |
| Training support (`training/adapter_validator.py`, `tracker.py`, `config.py`) | experiment files | validate, log | nobody calls `adapter_validator` | partial adapters | - |
| SGFP4 (`quantize/`) | byte layout | encode, decode, quadtree split | C++ loader | boundaries, padding | decoding inverts encoding on the grid |
| Benchmark runner (`eval/benchmark_runner.py`) | one result file per task of a run | `run_benchmarks` | the gate, through the files | a run is several files | what is judged is a run |
| Gates (`eval/benchmarker.py`, `metric_store.py`, `evaluator.py`, `benchmark_repair.py`) | two state files of counters, the directory of evaluations | `gate_check_benchmarks`, `gate_check`, `gate_check_eval`, `should_block_pipeline`, `persist`, `load_prior`, `record_sgfp4_metrics` | runner, exporter, evaluate stage | files read while they are written, counters rewritten in place, a report among the evaluations | a pipeline is blocked after so many failures in a row, not earlier and not later |
| Trends, comparison, thresholds (`eval/benchmark_trends.py`, `threshold_adapter.py`) | none | tables and advice | nobody | - | - |
| Configuration (`config/`) | YAML | merge defaults, specialist, experiment | everything | - | - |

### neoswarm

| component | state | operations | interacts with | hard behaviour | correct when |
|---|---|---|---|---|---|
| ApiServer requests (`api/api_server.cpp`) | router, engine, aggregation, reputation | `Process`, `RunSingleNode`, `RunSwarm`, `RunSpecialist`, `RunELMChain`, `UpdateReputation` | all of the below | the request thread and the gossip thread share the engine and the collection | the response answers its request; every request ends |
| ApiServer lifecycle | `m_running`, condition variable | `Initialize`, `Serve`, `Stop` | `main.cpp`, the C interface | lost wake-up, `Stop` before `Serve` | `Stop` ends `Serve` |
| P2P node (`network/p2p_node.cpp`) | two handlers, two subscriptions | `Start`, `BroadcastTask`, `BroadcastCRDT`, `OnTask`, `OnCRDT` | libp2p GossipSub (external) | callbacks on another thread, loss, repetition | - |
| Result aggregation (`network/result_aggregation.cpp`) | `results_`, `done_` under a mutex | `Submit`, `Collect`, `Reset` | request and gossip thread | timed wait against late submits, full collection | early return only with enough results of this round |
| Weighted consensus (`reputation/weighted_consensus.cpp`) | none | `SelectWinner` | RunSwarm | ties, empty weights | a winner is one of the outputs |
| Reputation (`reputation_crdt.cpp`, `reputation_storage.cpp`, `reputation_scoring.cpp`) | RocksDB record, replica in memory | `Get`, `Put`, `Merge`, `Serialize`, `DeserializeAndMerge` | request thread writes, gossip thread merges | order, repetition, restarts, wall clocks, equal timestamps | replicas converge, and say what the disk says |
| Engine and SuperGenius dispatch (`core/engine`, `core/sgprocessing`, `network/sg_client`) | one loaded model, bridge, client, job status | `LoadModel`, `Infer`, `SubmitJob`, `PollForResult`, `Disconnect` | GNUS processing nodes (external) | job status inferred from node status, client lost on reload | a result belongs to its job, an answer to its model |
| ELM chain (`elm/`) and router (`router/`) | loaded experts | `Load`, `Build`, `Run`, `SelectMode` | engine, specialists | loading into the shared engine; no router selects the chain | a start that succeeds leaves what it was configured to |
| Node identity (`security/node_identity.cpp`), signing (`message_signing.cpp`) | key pair, key file | `Generate`, `Load/SaveEncrypted`, `Sign`, `VerifyAndStrip` | Initialize | crash inside the write, wrong passphrase | the identity survives |
| GlobalDB (`storage/gcs_global_db.cpp`) | io thread, `m_running` | `Initialize`, `Shutdown`, `Put`, `Get` | nobody yet | unsynchronised flag | Shutdown joins once |
| Knowledge, specialists, FP4 codec, C interface, memory (placeholder) | little or none | text scoring, codec, wrappers | ApiServer | - | - |

`PROJECT.json` lists every component with its sources, and under `hazards` every place
found so far where this code is hard to test, with the properties that would catch it
going wrong.

## Modules

```
StageLedger  <--implemented by--  Pipeline  <--extended by--  ShippedPipeline  --uses-->  StageFiles
                                     ^                            ^
                              PipelineProofs, MCPipeline       ShippedProofs, MCShipped

BenchmarkGate, EvalGates  <--extended by--  Gates  <-- MCGates, EvalGatesProofs --> GateProofs

ReputationCRDT  <-- ReputationCRDTProofs, MCReputationCRDT
Inference  <--extended by--  Node  <-- NodeProofs, MCNode
Swarm           <-- SwarmProofs, MCSwarm
Teacher  <--extended by--  Cascade  <-- TeacherProofs, MCCascade
```

### Pipeline: the runner and its checkpoints

*Disk*: `ckpt` (the checkpoint file: absent, torn, or valid) and `out` (what the stage's
validator would say of its outputs: `none`, `invalid`, `raising`, `valid`). *Memory*:
`pc`, `queue` (niches still to do), `flags` (`--from-stage`, `--force`), `stage` (the
loop index), `attempt`, `unswept` (files `clear_all_checkpoints` has still to visit).
`result` is a history of what the invocation did of each
stage, and `survivors` of the checkpoint files `--force` could not remove.

| code | actions |
|---|---|
| `main`, `run`: start, next niche, end | `Invoke`, `NextNiche`, `NoNicheLeft` |
| `clear_all_checkpoints`, one `unlink` at a time, whose `OSError` is only logged | `ClearOne`, `ClearFails`, `Cleared` |
| the stage loop | `Skip`, `StartStage`, `NicheDone` |
| `_run_stage`: an attempt that exits 0, that is retried, the last one, one that could not be started | `ChildSucceeds`, `ChildRetried`, `ChildExhausted`, `ChildNotRun` |
| `validate_stage`: passes, fails (`break`), raises (uncaught) | `ValidatePasses`, `ValidateFails`, `ValidateRaises` |
| `mark_complete`: `write_text` truncates (in `ValidatePasses`), then writes or raises | `MarkWritten`, `MarkRaises` |
| the process dies or is interrupted | `Crash` |

**StageLedger** is the abstract specification: a set of certified entries and a set of
sound ones; work happens only on uncertified entries, only sound entries are certified,
only a forced invocation revokes. `Pipeline` implements it (`ImplementsLedger`) with
certified = "has a valid checkpoint file that is no survivor" (`Vouches`), sound = "its validator passes".

### StageFiles and ShippedPipeline: the scripts as they are in the repository

`Pipeline` lets a script leave anything. `StageFiles` says what the seven scripts *do*
leave, as a set of facts about a niche's files, and what each `_validate_*` asks for.
`ShippedPipeline` composes the two: `out` is then forced to be the verdict of the
validators on the disk, and a user can run scripts by hand between two invocations.
A script that ends leaves its `Outcome`; one that is killed by the timeout or with the runner,
or whose runner meets an exception when it has written, leaves that or what it had written so
far (`HalfWritten`, `ShippedKilled`).
The scripts are called as `_STAGE_COMMANDS` says, with `--niche`, from the project
directory with `PYTHONPATH=.`, as in the phase summary of the runner.

### ReputationCRDT: disk, replica and gossip

Per node: `clock`, `storage` (RocksDB), `crdt` (the replica), the request thread inside
`UpdateReputation` (`pc`, `work`), the gossip thread inside `DeserializeAndMerge`
(`lines`), what gossip has yet to deliver (`pending`), a history `seen` of the lines
merged since the start, and a history `failed` of the keys whose storage could not be read
or written. The steps are those between which another thread can run:
`ReadAndScore` (Get, score, stamp), `Put`, `MergeOwn`, `Publish`; `Deliver`, then
`MergeLine` once per line, since the mutex is taken per line. Clocks tick, can be set back
and stand still between two updates; processes restart with an empty replica; payloads are
lost, repeated and reordered; reads and writes of the storage fail. A record carries whether its scores still
have all digits, because `Serialize` prints six.
`HandlerWired = FALSE` is the program as shipped. `TRUE` is the same program with a handler
registered by `OnCRDT`, which is what the class is written for, and what the run checks, since
without one no replica ever meets another; the proofs are about both.

### Swarm: a request under two threads

Per node the request thread in `RunSwarm` (`reset`, `register`, `broadcast`, `wait`,
`rate`, `infer`), the gossip thread serving one task at a time (`serving`), and the
shared `ResultAggregation` (`results`, `done`). The handler stays registered after the
round and submits to the node's *own* collection, as in the code. A text is the task it
answers; `overlap` remembers that both threads were inside the engine, and with
`EngineShares` such a text may be `garbled`. `Echo` (whether gossip returns a node's own
message) is a constant because libp2p is external. The winner is left open among the
collected outputs.

### Teacher and Cascade

`Teacher` has the client's memory (`total`, `failures`, `open`, `halfOpen`, `waited`),
the budget file (`saved`, which may be `Torn`), where the process is, and histories
(`spent`, `mishaps`, `tears`, `probes`, `streak`, `unlogged`) the properties relate them
to. A call is `Call`, then a gate (`CircuitRefuses`, `BudgetRefuses`, `Send`), then
attempts (`Answered`, `Refused`, `FailedAndRetried`, `FailedAndTripped`, `Exhausted`,
`ErrorLogRaises`), then the bookkeeping of an answer (`LogRaises`, `OpenFile`,
`WriteFile`, `WriteRaises`). `Kill` can come anywhere: the runner kills a stage after an
hour. `failures` is set to zero by `Answered` although the code does so a few lines later, in
`generate`: nothing can happen in between. `Cascade` drives the client as `generate_for_niche` and `execute` do: a
process has one niche, samples follow one another until a cascade raises.

### BenchmarkGate and EvalGates: what blocks a pipeline

`BenchmarkGate` has the directory of results in the order of modification (`files`), the
runner (`StartRun`, then `OpenResult` and `WriteResult` once per task, since each file is
opened and written by itself) and, in another process, `gate_check_benchmarks`: `GateStart`,
`FindCurrent`, `FindOthers`, `Evaluate` (which looks for the reference, counts, and opens the
state file) and `Save`. The runner can be anywhere between two of these. `ShouldBlock` is
`should_block_pipeline`, which has two limits: the gate it is handed must block at the
configured one (`GateBlocks`), and a count must reach the three that are written into it
(`BlockingThreshold`). `EvalGates` has the two older gates: `gate_check` over the metrics
file (`RecordOpen`, `RecordWrite`, `CheckFp4`, `CountFp4`, `SaveFp4`) and `gate_check_eval`
over the directory of evaluations (`PersistOpen`, `PersistWrite`, `ReportOpen`,
`ReportWrite`, `CheckEval`). Any process can die; a file it had open stays torn. The
histories `streak`, `fp4Streak` and `evalStreak` say how many failures there were in a row,
whatever the files say. `Gates` puts the two modules side by side: no gate reads what
another one wrote. `verdict.passed` is what the gate answers; the properties are about
what blocks.

### Inference and Node: one server

`Inference` is what happens inside one `ApiServer`: the start loads the core, the grammar and
the math specialist and the eager ELMs, in this order, into *one* engine (`BootEngine`,
`BootSpecialist`, `BootNetwork`, `BootGrounding`, `BootElm`). Some ELMs stay out of that engine
(`Apart`): `DomainELM` makes one of its own, `ToolSupportELM` loads nothing, and
`GroundingELM`, which the role has when knowledge is enabled, ignores the model it is given.
Then the request thread and the gossip thread infer: `Infer` in the process, `SubmitJob`
through SGProcessing, as a job of the SDK (`Poll`, `DeadlinePassed`) or, when that is refused,
late or disabled, here (`SubmitDirect`). A text is the model it came from. The SDK node is
external: it starts and ends jobs, has jobs of others, and may stop processing. `Node` adds
what is around it: the key file (`ReadKey`, `Generate`, `SaveOpen`, `SaveWrite`), `Serve`
(`Checks`, `Sleeps`: the predicate and the wait are two steps, since `Stop` takes no mutex)
against `Stop` (`StopRunning`, `Notify`, `Disconnect`), and the process that dies at any moment
and is started again, with any configuration and passphrase.
The foreign function interface holds one mutex through a request, so that its Shutdown
waits for the request to end (`StopRunning`).

## Runs

Every passing run has `CHECK_DEADLOCK FALSE`: the number of invocations, updates, requests or processes is
bounded, and the system stops when the bound is reached.

| run | instance | shows |
|---|---|---|
| `MCPipeline_two` | 2 niches, 2 stages, 2 invocations, every flag, one retry, scripts that leave anything, crashes, failing writes and removals of checkpoints | `CheckpointsVouch`, `RejectionAbandonsNiche`, `ProgressIsKept`, `OnlyForceDiscards`, the refinement `ImplementsLedger`, and `InvocationEnds` |
| `MCShipped_by_hand` | 1 niche, the 7 shipped stages, 2 invocations, started at the first or the sixth, four by-hand commands, scripts killed at any of their writes, crashes | no script changes what another's validator says (`StagesDoNotInterfere`), so that `Pipeline` may keep stages apart; by hand only the exports are taken from under their checkpoint (`OnlyExportsAreUndermined`) |
| `MCReputationCRDT_faults` | 2 nodes rating the same key, 2 milliseconds, restarts and clocks set back; 3 updates with these, 2 with failing reads and writes and lost and repeated payloads as well | `ReplicaIsLatest`, `SameUpdatesSameState`, `ReplicaCoversStorage`, `EveryRatingCounts` |
| `MCSwarm_rounds` | 2 nodes, 3 requests of one that hears its own tasks, 2 responses wanted, 2 kept, late and lost tasks, failing inference | `DoneMeansEnough`, `OnlyThisRound`, `RequestEnds` |
| `MCCascade_calls` | 3 processes, cap 3 with costs 1 and 2, 2 attempts a call, breaker at 3, 2 level-2 teachers, kills and failing writes anywhere | `SpendingCapped`, `BreakerCoherent`, `NoHammering`, `CascadeEnds` |
| `MCGates_checks` | a blocking and a diagnostic benchmark, 2 runs, 4 checks, limits 2 (configured) and 3 (hard-coded); 3 exports of two dimensions with limits 2 and 1; 4 evaluations of two gates; a death | `CountsAreStreaks`, `BlocksInTime`, `PreviousIsOlder`, `Fp4BlocksInTime`, `FailuresAreFound` |
| `MCNode_life` | 8 configurations, 2 passphrases, 2 processes, 2 inferences, 2 jobs, a fault of the key file | `LastLoadWins`, `WiredUnlessReloaded`, `CompletionIsOwn`, `InferenceEnds`, `KeysAreKept`, `SameNodeAgain`, `StopEndsServe` |
| `MCSwarm_task`, `MCCascade_probe`, `MCGates_floors`, `MCGates_report`, `MCNode_core` | smallest instances | counterexamples, see *Disagreements* |

### Why the bounds are enough

* *Pipeline*: what matters is a stage before and a stage after the one at work, a niche
  before and after, and one invocation after another; two of each give all of these, and
  one retry gives a first, a repeated and a last attempt. The proofs below do not have
  these bounds.
* *Shipped*: nothing is scaled down but the niches, which share no files, and the stages an
  invocation starts at: a stage whose script fails lets the runner go on, so that the first
  reaches all of them and the sixth those whose scripts work. What a failing `unlink` does to a
  checkpoint is in `MCPipeline_two` and, for the shipped scripts, in the proofs.
* *Reputation*: two milliseconds allow "earlier", "later" and "the same"; three updates
  allow an update whose node has one behind it and one of the other node, a tie and a step
  back. With all six faults and three updates the run does not end in a useful time, so that
  an update after the first two only happens while no payload was lost or repeated and no
  storage failed (`disturbed`). `EveryRatingCounts` and `ReplicaCoversStorage` except the keys
  whose storage failed.
* *Swarm*: three tasks reach the asking node, its own, and any of them may be served in
  any later round. So an inference begun in one round can end in the next, a second round
  can fill a collection (`done_` set, later reset), and the third task can meet a full one and
  be dropped. To the collection a foreign task is one more late task; that its *text* is
  another is what `MCSwarm_task` is about, where both nodes ask.
* *Cascade*: the breaker's threshold (5 in `pipeline.yaml`) is more than the attempts of
  one call (3), so that it opens on a count made over calls; 3 over 2 keeps this. The cap can
  be met exactly and overshot by the last request. Three processes allow a torn file, its
  loss, and a process that loads what came after it.

* *Gates*: with a configured limit of two and the fixed one of three there is a check at which
  only the first is reached, one at which both are, and with four checks one after that, or a
  pass in between. Two runs give a result and one before it; a second
  task makes a run more than one file. The three gates share no file, so that a behaviour is
  about one of them (`MCNext`).
* *Node*: the configurations are one for each path through the start and through `Infer`: the
  interpreter with both specialists, SGProcessing in the process and on the network, ELMs
  loaded after the client was wired, into the shared engine or apart from it, the grounding role
  with knowledge and without, no model at all, no facts. Two jobs let the job of
  another begin or end around one's own. Two processes are a start and a restart; only the
  first is asked for inferences, since processes share nothing but the key file (`OnlyAsked`).

### Fairness

* `Pipeline`: weak fairness of the runner as a whole. A child ends because
  `subprocess.run` has a timeout; users are not obliged to start invocations.
* `Swarm`: weak fairness of each node's request thread and gossip thread. `wait_for`
  expires, `Infer` returns. Gossip may still lose everything: `RequestEnds` does not rest
  on delivery.
* `Cascade`: weak fairness of the running process at work on a sample. Requests end
  because the SDKs have timeouts. The recovery timeout (`Recover`) and new processes are not fair;
  nothing waits for them.
* `Node`: weak fairness of each thread inside an inference (`InferenceEnds` needs the deadline
  of the poll, not the SDK node, which is not fair), of the predicate of `Serve` and of the
  notification in a `Stop` under way. Nobody is obliged to call `Stop`, and a thread between
  predicate and wait is not obliged to be woken.
* `ReputationCRDT`, `BenchmarkGate`, `EvalGates`: none; their properties are safety.

### Mutants

Each property of a passing run has a plausible mistake in the modelled code that breaks
it (`mutants` in `PROJECT.json`); the mutated actions stand, marked as such, before the
actions they are of.

## Proofs

`PipelineProofs`, `ShippedProofs`, `ReputationCRDTProofs`, `SwarmProofs`, `TeacherProofs`,
`GateProofs`, `EvalGatesProofs` and `NodeProofs` are checked by TLAPS. Every invariant and
every safety action property that a passing run checks is a theorem of one of them, for
every value of the constants under the modules' named assumptions (`PipelineAssumption`,
`ReputationAssumption`, `SwarmAssumption`, `TeacherAssumption`, `CascadeAssumption`,
`BenchmarkAssumption`, `EvalAssumption`, `InferenceAssumption`, `NodeAssumption`). They only
say what the constants are, with two exceptions:

* `TeacherAssumption` says that there is a largest cost of a request.
* `DistinctNiches` says that a list of niches names each once. The code does not check it. It
  holds of the list in `pipeline.yaml:69`, of the default in `_load_niches`, and of the list of
  one that `--niche` makes. `RejectionAbandonsNiche` and `ProgressIsKept` are false without it:
  a niche that came twice would be swept, or tried, again.

**PipelineProofs**

* `TypeCorrect`: `Spec => []TypeOK`, by `Typed`, which adds `Busy` (inside its loops the
  runner has a niche, and in a child, a validation or a write a stage).
* `CheckpointsAlwaysVouch`: `Spec => []CheckpointsVouch`. The property alone is not
  inductive: from a state in which a stage with a checkpoint is at work the next failed
  attempt breaks it. `IInv` adds that there is no such state (`NoCheckpointUnderWork`),
  that `mark` writes a new file over outputs just accepted (`MarkIsJustified`), and, for
  `--force`, that the sweep has every checkpoint of the niche on its list (`SweepCovers`)
  and leaves none in front of the loop (`ForcedLoopIsClean`). A checkpoint that survived a
  failing `unlink` is excepted: a forced run works under it, and it may then say the
  opposite of what is on disk. The theorem says that no other checkpoint ever does.
* `OnlyForceDiscardsCheckpoints`: `Spec => OnlyForceDiscards`, survivors included, from
  `KInv` (`UnforcedWorkIsNew`, `SweepIsForced`).
* `PipelineImplementsLedger`: every step is a step of the ledger or a stutter, from `IInv`;
  a failing `unlink` is a revocation.
* `RejectedNichesAreAbandoned`: `Spec => []RejectionAbandonsNiche`, and `ProgressAlwaysKept`:
  `Spec => []ProgressIsKept`. `RInv` adds where the results of an invocation can be: a niche
  that was visited is not in the queue again (`VisitedOnce`), nothing has been seen of those
  still queued (`AheadUnseen`), and in the loop nothing of the stages from the one at work
  on, and nothing of the niche was rejected (`LoopUnseen`). A sweep then only removes
  checkpoints of a niche whose results are all unseen.

**ShippedProofs**

The theorems are about `ShippedSpec`, with any niches, invocations, retries and commands by
hand. Its steps are steps of `Pipeline`, or leave its variables alone, so that the
invariant about the runner's work (`WorkInv`, a part of `IInv`) is taken over.

* `ShippedTypeCorrect`: the disk only has facts `StageFiles` names.
* `StagesNeverInterfere`: `ShippedSpec => []StagesDoNotInterfere`. What a validator reads
  (`ReadBy`, `ValidatorReads`) and what the script of another stage touches
  (`TouchedByStage`) have nothing in common (`ReadsApart`).
  A script that was killed only touches what it touches when it ends (`InterruptedTouches`).
* `OnlyExportsCanBeUndermined`: `SInv` adds that four facts some validator asks for are made by
  no script and no command (`NeverMade`), and that only the scripts whose arguments are accepted
  ever finish (`OnlyScriptsThatRun`). So four of the seven stages never have a checkpoint
  (`GapInv`), which is a lemma here and no property: see *Disagreements*.

**ReputationCRDTProofs**

* `TypeCorrect`: records, replicas and payloads keep their types.
* `ReplicaLatest`: `Spec => []ReplicaIsLatest`; together with the types the property is
  inductive, by one lemma on what `Merge` does to a replica (`MergeEffect`).
* `StrongConvergence`: `Spec => []SameUpdatesSameState`, which follows from
  `ReplicaIsLatest` at two nodes: both entries are the latest among the same updates, and
  without ties there is one such.
* `ReplicaAlwaysCovers`: `Spec => []ReplicaCoversStorage`. `DInv` says what the request thread
  carries between `Put` and `MergeOwn` (`WorkMatchesStorage`), and that a record that came by
  gossip has lost digits (`GossipIsRounded`), so that one with all of them was rated here.
* `EveryRatingIsCounted`: `Spec => EveryRatingCounts`, an action property.

**SwarmProofs**

* `TypeCorrect`: `Spec => []TypeOK`, by `Begun`: a gossip thread that serves a task has a
  request of its node to file the output under, because the handler is only there once the
  node has made one.
* `EarlyReturnIsEarned`: `Spec => []DoneMeansEnough`, and `NoEarlierRound`: `Spec =>
  []OnlyThisRound`. With the types both are inductive, by one lemma on what the gossip thread
  can file (`ServeTaskFiles`), wherever the request thread is.

**TeacherProofs**

The theorems are about `CascadeSpec`. A step of the cascade is a step of the client, or
takes note of what the client returned (`CascadeStep`), and the invariants are shown for
those.

* `CascadeTypes`: `CascadeSpec => []CascadeTypeOK`.
* `BreakerIsCoherent` and `EndpointIsLeftAlone`: `CascadeSpec => []BreakerCoherent` and
  `[]NoHammering`. `Coherent` is the first without its guard; `Row` bounds the failures in a row
  in each of four situations of the breaker. Its hard case is a circuit that is closed with a
  full count, which a failure that could not be logged left behind: that failure is then the
  one by which the next may exceed the threshold.
* `SpendingIsCapped`: `CascadeSpec => []SpendingCapped`. `Covered` says that the total in memory
  covers what was spent but for what was lost, and the one on disk too, a request behind
  between the answer and the save; `Bounded` that neither is beyond the cap by a request.

**GateProofs**

* `CountersFollowStreaks`: `Spec => []CountsAreStreaks`, and `BlockedInTime`: `Spec =>
  []BlocksInTime`. Neither is inductive alone. `CInv` says of the counters on disk, of those a
  check is about to write and of those in a verdict that they follow the failures in a row
  (`DiskFollows`, `SavedFollows`, `JudgedFollows`), and that without counters nothing has
  failed yet, unless a death tore the file (`NoneLost`): that is what makes starting again
  from nothing right. `BothLimits` is the step from the counters to the two limits of
  `should_block_pipeline`, whichever of them is the larger.
* `PreviousRunIsOlder`: `Spec => []PreviousIsOlder`. `FInv` says that result files are kept
  in the order of their runs (`RunAfterRun`) and, of a check during which nothing was
  written, what it has found so far (`CurrentIsFound`, `PreviousIsFound`). The newest file is
  the choice of a maximum; that a nonempty set of files has one (`MaximumExists`) is proved
  from the well-foundedness of the naturals.
* `BenchmarkTypeCorrect`: `Spec => []TypeOK`. That a counter stays below the checks needs
  `CInv`, which says what the counter is, and that a streak is behind the checks by one
  while a check is under way (`RoomToCount`).

**EvalGatesProofs**

* `Fp4BlockedInTime`: `EvalSpec => []Fp4BlocksInTime`, by `Fp4Inv`, which is to `gate_check`
  what `CInv` is to `gate_check_benchmarks`.
* `FailuresFound`: `EvalSpec => FailuresAreFound`. `StreakIsOnDisk` says that the failures in a
  row are as many as the whole files at the end of the directory that failed; a file that was
  left torn is not one of them, and one being written is the last. The theorem is about
  directories without the report, which is later than all of them and fails nothing;
  `MCGates_report` is the run with one. The code counts backwards until
  something passed; as the number of a set of files this is within the provers' reach.
* `GatesTypeCorrect`: `GatesSpec => []GatesTypeOK`, with the three gates in any interleaving
  (TLC has one of them in a behaviour). `GatesApart` says that a behaviour of `Gates` is one of
  either module, so that the other theorems hold of it too.

**NodeProofs**

* `KeyFileIsKept`: `NodeSpec => KeysAreKept`, and `NodeComesBack`: `NodeSpec =>
  SameNodeAgain`. `KeyInv` says that no start makes a key while there is a whole one
  (`MadeIfNone`), and that the identity the node last had is the one in the file
  (`FileIsFormer`), both unless the file could not be opened or written once.
* `NodeTypes`: `NodeSpec => []NodeTypeOK`, which with `InferenceTypeOK` covers every variable
  but `sdkOn`. `KeysMade` is needed to see that a process makes at most one key.
* `CompletedJobsEnded`: `NodeSpec => CompletionIsOwn`. `Awaits` says what a call that polls
  knows of its job as long as nothing else was submitted: the jobs before it have ended, and
  once the node was seen processing its own is not waiting any more. `NoRequestAfterStop`
  says that the SDK node is not taken away under a call.
* `LastLoadAlwaysWins`: `NodeSpec => []LastLoadWins`, and `ReloadUnwires`: `NodeSpec =>
  []WiredUnlessReloaded`. `LoadInv` says for each part of the start, in their order, which
  model the engine has (`RunsOnLast`), whether it has a bridge (`BridgeOf`) and, after the
  network, whether a later load has replaced the one that was wired (`WiredBefore`). The ELMs
  load by index, and the set of those before the next one (`SharedBefore`) is what grows.

**Only model-checked**: liveness (`InvocationEnds`, `RequestEnds`, `CascadeEnds`,
`InferenceEnds`, `StopEndsServe`), which needs fairness and ENABLED, and the counterexamples
(`SwarmAnswersTheTask`, `OneProbePerTimeout`, `FloorsOfTheRunDecide`, `FailuresCount`,
`CoreAnswersFromCoreModel`), which refute a property.

## Disagreements between the code and what is said of it

Shown by a run (`findings` in `PROJECT.json`):

1. `MCSwarm_task`: the handler serves whatever task arrives into the collection of the
   node's own request; a response can be the output for another node's prompt.
2. `MCCascade_probe`: a half-open circuit that meets an error which is not retried stays
   half-open and lets every further call through.
3. `MCGates_floors`: a run is one file per benchmark and the gate judges the newest file, so
   that every blocking benchmark but the one in it scores 0 and counts as failed.
4. `MCGates_report`: the report of the evaluate stage, `{niche}_eval.json`, matches the glob of
   `load_prior`, sorts last and names no gate, so that from then on no failures in a row are
   found, although `metric_store.py:143-146` excludes such files by intent
   (`FailuresAreFound` says what holds without the report). Only tests call the gates.
5. `MCNode_core`: specialists and role ELMs load their models into the engine of the core;
   all of them answer with the model that was loaded last.

Seen while modelling, without a run of their own:

* Nobody registers an `OnCRDT` handler: replicas are sent and dropped, although
  `reputation_crdt.hpp:23` says they are "replicated across nodes via libp2p GossipSub". The
  action is `Deliver` with `HandlerWired = FALSE`.
* A stage whose *script* fails does not stop the stages after it (`runner.py:195`; the comment
  there says so), although the decision it implements (`01-CONTEXT.md:33`) is to abort the
  niche, the line printed is "continuing to next niche", and a stage whose *validation* fails
  does stop them (`RejectionAbandonsNiche`).
* A validator that raises ends the invocation for all niches (`ValidateRaises`).
* The niche is mapped to a domain twice, and `code` is lost the second time: the cascade never
  escalates for it, although teachers were scored for `coding` (`Routed`).
* `runner.py:151-152` says that with `--from-stage` earlier stages are skipped if their
  checkpoints exist; they are skipped in any case. `runner.py:153` says `--force` re-runs
  every stage; together with `--from-stage` it clears all checkpoints and re-runs some.
* The file names of scripts and validators: `data_prep` writes dated directories and the
  validator looks for undated ones; `train` saves `adapters.safetensors` and is asked for
  `adapter_model.*`; `evaluate` writes `latency_ms_per_token` and is asked for `latency`;
  `quantize` without `--adaptive` writes a `.fp4` and is asked for other formats; `train`
  is called with an option it does not know; `synthetic.py` passes the project directory
  as the configuration file. So data_prep, synthetic_data, train and evaluate never get a
  checkpoint, and quantize only over a `.sgfp4` of an earlier `--adaptive` export, while
  `checkpoint.py:683` says "v1-only output still passes" and `:695-699` "v1 .fp4 files are still
  valid quantize output". `GapInv` in `ShippedProofs` is the sum of these.
* An output of the swarm is always the node's own (`result_aggregation.hpp:20` speaks of
  outputs of peers): results are never sent back to the node that asked.
* The request thread and the gossip thread can be inside one engine at once, which
  `research/ARCHITECTURE.md:325` excludes; `Swarm` has this as `overlap`.
* When every level-2 teacher fails, what level 1 answered is dropped (`cascade.py:306`).
* The budget can be overrun across processes by one request per kill and by a whole cap
  per torn file; `SpendingCapped` says exactly by how much. `reset_budget` speaks of a
  `--reset-budget` flag that the runner does not have.
* The manifest `quantize --adaptive` writes lacks the fields `_validate_quantize` asks for, so
  that the stage's own v2 export never validates, and undoes the outputs under a checkpoint.
* A benchmark without a measured score is stored as `None`, which `_extract_score` hands to
  `float`: the gate raises. A torn metrics file lets the SGFP4 gate pass. The mapping file
  names `gpqa`, the runner `gpqa_main_n_shot`.
* A job of the SDK that completes returns no bytes: the inference fails, while one that is
  refused or late is answered in the process, and goes on running on the network.
  `GETTING-STARTED.md:77` speaks of a fallback on a failed connection.
* A failed load of the core is logged as "continuing in stub mode", and every request then
  fails. A facts file that cannot be read is meant to be tolerated (the result of `Load` is
  ignored), but `GroundingELM::Load` fails on it and with it `Initialize`. An eager `math` or
  `refiner` ELM without its specialist's model fails `Initialize` too.
* A second `GeniusElmInit` with another model returns success and is ignored.
* Another passphrase at the next start makes `FromHex` throw out of `Initialize`.
* `Serve` sets `m_running` after a `Stop` that came before it, and sleeps.
* `RunELMChain` cannot be reached: `RuleBasedRouter` never selects `ElmAssisted`; the tests of
  it (`test_pipeline.cpp:120`, `:133`) pass without it.
* With a full disk the error log raises before the breaker is looked at, so that it does
  not open (`ErrorLogRaises`).

## What is abstracted, and what is not modelled

* *Undefined behaviour*: `OnTask` replaces a `std::function` the gossip thread may be
  calling. The handlers of all rounds do the same, and the model has one.
* *Killed children*: after a `SIGKILL` of the runner its child goes on writing; the models end
  both at once.
* *Two runners at once* on one project have no lock; `Pipeline` has one at a time.
* *Scores*: a reputation is who rated, how often and when. Consensus is left open.
* *Teacher*: a wall clock that is set back (the breaker uses `datetime.now`) and errors of
  the configuration (an unknown model is raised like any error that is not retried) are
  left out, as are answers without content. What a process spends is in whole units.
  Backends differ in the keyword arguments they accept; an argument error counts as a failure like
  any other exception without a status code.
* *Steps* of a single thread that no other thread, process or crash can tell apart are one action.
* *Gates*: the floors, limits and percentages are constants; that several processes check one
  niche at once, and that two runs in one second share their names, is left out. The state
  file of a benchmark gate is one write, although its history is read again in between.
* *Inference*: tensors, prompts and confidences; `StreamInfer`; the order of `Load` inside one
  specialist. Two errors of a client would be handed back instead of being answered here
  (`sg_processing_bridge.cpp:286`); no client in the source returns them. A `std::atomic` flag is read
  and written at once.
* *Node*: the key is a number; the cryptography is a comparison of passphrases. Two processes
  with one key file are left out. A file that cannot be opened or written is one fault for the
  life of the file, as a bound.
* *Not modelled*: the numerical code (SGFP4, the FP4 codec, consensus weights, score
  arithmetic), text scoring (prompt analysis, retrieval, fact validation, specialists),
  parsing of configurations, the Python router table, trends and threshold advice, the
  signing of messages, `GcsGlobalDb` (which nothing makes) and `RunELMChain` (which nothing
  reaches). `PROJECT.json` has the reason with each component.

## Plan

1. **Done**: `Pipeline`, `StageLedger`, `PipelineProofs`; `StageFiles`, `ShippedPipeline`,
   `ShippedProofs`; `ReputationCRDT` with proofs; `Swarm` with proofs; `Teacher`, `Cascade` with
   proofs; `BenchmarkGate`, `EvalGates`, `Gates` with proofs; `Inference`, `Node`, `NodeProofs`.
2. Proofs to add: all safety properties of the passing runs are theorems. What could still be
   shown is that the two gates with counters implement one abstract gate ("blocked after so
   many failures in a row"), and that a swarm request implements a quorum that only grows.
3. Modules that could still be added: two runners on one niche, which inputs a checkpoint was
   made from, `WeightedConsensus` as a pure module, the Python router table.
