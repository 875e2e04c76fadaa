--------------------------- MODULE BenchmarkGate ---------------------------
(***************************************************************************)
(* The benchmarks of one niche and the gate they feed.  BenchmarkRunner    *)
(* writes one result file per task of a run; Benchmarker.                  *)
(* gate_check_benchmarks, in another process, looks three times through    *)
(* the directory (the result to judge, the previous run, the unquantized   *)
(* reference) and keeps counters of consecutive failures in a state file   *)
(* it rewrites in place.  Scores are small numbers; what lm-eval measures  *)
(* is left open.                                                           *)
(***************************************************************************)
EXTENDS Integers, Sequences, FiniteSets

CONSTANTS
    TaskOrder,     \* build_task_list: the tasks of a run, in order
    Deferred,      \* kNotImplementedBenchmarks
    Blocking,      \* blocking_benchmarks of specialist_mapping.yaml
    Floor,         \* [Blocking -> hard_floor]
    MaxDropPct,    \* regression_max_pct, deviation_max_pct, max_regression_pct
    Baseline,      \* [some of Blocking -> score], of {niche}_baseline.json
    BlockAfter,    \* consecutive_failures_to_block
    Scores,        \* what a benchmark may score
    MaxRuns,       \* bound: invocations of the runner
    MaxChecks,     \* bound: invocations of the gate
    MaxCrashes     \* bound: processes that die

Tasks == {TaskOrder[i] : i \in 1..Len(TaskOrder)}

ASSUME BenchmarkAssumption ==
    /\ TaskOrder \in Seq(Tasks) \ {<<>>} /\ Deferred \subseteq Tasks
    /\ Scores \subseteq Nat /\ Floor \in [Blocking -> Nat]
    /\ DOMAIN Baseline \subseteq Blocking /\ \A b \in DOMAIN Baseline : Baseline[b] \in Nat
    /\ MaxDropPct \in Nat /\ BlockAfter \in Nat \ {0}
    /\ {MaxRuns, MaxChecks, MaxCrashes} \subseteq Nat

VARIABLES
    files,      \* artifacts/benchmarks, oldest modification first
    runs,       \* the number of runs begun: run_id
    run,        \* what the runner is doing
    state,      \* {niche}_bench_gate_state.json: absent, torn, or with counters
    gate,       \* the gate's locals
    checks,     \* the number of gate checks begun
    verdict,    \* what the last gate check returned
    crashes,
    streak,     \* history: evaluations in a row in which a benchmark failed
    tears,      \* history: times the state file was left torn
    quiet       \* history: no file changed since the gate began

vars == <<files, runs, run, state, gate, checks, verdict, crashes, streak, tears, quiet>>

runnerVars == <<runs, run>>
gateVars == <<state, gate, checks, verdict, streak, tears>>

\* The entry of a task that is not implemented, or that lm-eval reports nothing of.
NoScore == -1

\* A result file: its only result is the one of its task.
Files == [task : Tasks, run : 1..MaxRuns, canonical : BOOLEAN, quantized : BOOLEAN,
          score : Scores \cup {NoScore}, whole : BOOLEAN]

Idle == [at |-> "idle"]
None == [at |-> "none"]
NoVerdict == [is |-> "none"]
Absent == [is |-> "absent"]
Torn == [is |-> "torn"]

Init ==
    /\ files = <<>>
    /\ runs = 0
    /\ run = Idle
    /\ state = Absent
    /\ gate = Idle
    /\ checks = 0
    /\ verdict = NoVerdict
    /\ crashes = 0
    /\ streak = [b \in Blocking |-> 0]
    /\ tears = 0
    /\ quiet = TRUE

-----------------------------------------------------------------------------
(* BenchmarkRunner.run_benchmarks *)

\* The model is loaded and every group of tasks evaluated before the first file.
StartRun ==
    /\ run = Idle /\ runs < MaxRuns
    /\ runs' = runs + 1
    /\ \E canonical, quantized \in BOOLEAN :
          run' = [at |-> "open", next |-> 1, canonical |-> canonical, quantized |-> quantized]
    /\ UNCHANGED <<files, gateVars, crashes, quiet>>

\* open("w"): the file exists, and no JSON is in it yet.
OpenResult ==
    /\ run.at = "open"
    /\ files' = Append(files, [task |-> TaskOrder[run.next], run |-> runs,
                               canonical |-> run.canonical, quantized |-> run.quantized,
                               score |-> NoScore, whole |-> FALSE])
    /\ run' = [run EXCEPT !.at = "write"]
    /\ quiet' = FALSE
    /\ UNCHANGED <<runs, gateVars, crashes>>

\* _build_benchmark_entry or _build_not_implemented_entry.
Measured(task) == IF task \in Deferred THEN {NoScore} ELSE Scores \cup {NoScore}

\* Mutant of WriteResult: one file too many.
WriteResultPastEnd ==
    /\ run.at = "write"
    /\ \E score \in Measured(TaskOrder[run.next]) :
          files' = [files EXCEPT ![Len(files)].score = score, ![Len(files)].whole = TRUE]
    /\ run' = IF run.next <= Len(TaskOrder)
                THEN [run EXCEPT !.at = "open", !.next = @ + 1]
                ELSE Idle
    /\ quiet' = FALSE
    /\ UNCHANGED <<runs, gateVars, crashes>>

WriteResult ==
    /\ run.at = "write"
    /\ \E score \in Measured(TaskOrder[run.next]) :
          files' = [files EXCEPT ![Len(files)].score = score, ![Len(files)].whole = TRUE]
    /\ run' = IF run.next < Len(TaskOrder)
                THEN [run EXCEPT !.at = "open", !.next = @ + 1]
                ELSE Idle
    /\ quiet' = FALSE
    /\ UNCHANGED <<runs, gateVars, crashes>>

\* Whatever _run_lm_eval raises ends the run before its first file; the process of
\* the runner can die after it.
RunnerDies ==
    /\ run # Idle /\ crashes < MaxCrashes
    /\ run' = Idle
    /\ crashes' = crashes + 1
    /\ UNCHANGED <<files, runs, gateVars, quiet>>

-----------------------------------------------------------------------------
(* What the gate reads *)

\* _find_canonical_results, _find_previous_canonical, _sgfp4_regression_check: files
\* that cannot be parsed and diagnostic ones are passed over.
Candidates(quantized) ==
    {i \in 1..Len(files) :
        files[i].whole /\ files[i].canonical /\ files[i].quantized = quantized}

Newest(is) == files[CHOOSE i \in is : \A j \in is : j <= i]

\* _find_canonical_results.
FindCanonical == IF Candidates(TRUE) = {} THEN None ELSE Newest(Candidates(TRUE))

\* Mutant of FindPrevious: the second newest file.
FindSecondFile ==
    LET is == Candidates(TRUE)
        others == {i \in is : files[i] # Newest(is)}
    IN  IF others = {} THEN None ELSE Newest(others)

\* _find_previous_canonical: the newest file of the newest other run.
FindPrevious ==
    LET is == Candidates(TRUE)
        others == {i \in is : files[i].run # Newest(is).run}
    IN  IF others = {} THEN None ELSE Newest(others)

\* _sgfp4_regression_check.
FindReference == IF Candidates(FALSE) = {} THEN None ELSE Newest(Candidates(FALSE))

\* results.get(b) of a payload, and _extract_score of it: 0 for an absent entry.
Has(file, b) == file # None /\ file.task = b
ScoreIn(file, b) == IF Has(file, b) THEN file.score ELSE 0

\* (old - new) / old > pct
Dropped(old, new) == old > 0 /\ (old - new) * 100 > MaxDropPct * old

FloorMet(file, b) == ScoreIn(file, b) >= Floor[b]
FloorsMet(file) == \A b \in Blocking : FloorMet(file, b)

Regressed(current, previous) ==
    \E b \in Blocking : Has(previous, b) /\ Dropped(previous.score, ScoreIn(current, b))

Deviates(current) == \E b \in DOMAIN Baseline : Dropped(Baseline[b], ScoreIn(current, b))

\* composite_2_of_3, of which the floors are a condition anyway.
Passed(current, previous) ==
    FloorsMet(current) /\ (~Regressed(current, previous) \/ ~Deviates(current))

\* The tasks that both files have are compared.
Sgfp4Passed(current, reference) ==
    ~(Has(reference, current.task) /\ Dropped(reference.score, current.score))

\* float(None): a TypeError no caller catches.
Raises(current, previous, reference) ==
    \/ current.task \in Blocking /\ current.score = NoScore
    \/ previous # None /\ previous.task \in Blocking /\ previous.score = NoScore
    \/ /\ Has(reference, current.task)
       /\ NoScore \in {reference.score, current.score}

-----------------------------------------------------------------------------
(* Benchmarker.gate_check_benchmarks *)

Returns(result) ==
    /\ verdict' = result
    /\ gate' = Idle
    /\ UNCHANGED <<state, checks, streak, tears, files, runnerVars, crashes, quiet>>

NothingToJudge == [is |-> "passed without results"]
Raised == [is |-> "raised"]

\* Of the newest result, or of a file the caller names.
GateStart ==
    /\ gate = Idle /\ checks < MaxChecks
    /\ checks' = checks + 1
    /\ \E named \in {0} \cup 1..Len(files) :
          gate' = [at |-> "find", named |-> named]
    /\ quiet' = TRUE
    /\ verdict' = NoVerdict
    /\ UNCHANGED <<state, streak, tears, files, runnerVars, crashes>>

\* Without a canonical result the gate passes; a named file is not asked whether it
\* is of the quantized model.
FindCurrent ==
    /\ gate.at = "find"
    /\ LET current == IF gate.named = 0 THEN FindCanonical ELSE files[gate.named] IN
       \/ current # None /\ ~current.whole /\ Returns(Raised)
       \/ (current # None => current.whole /\ ~current.canonical) /\ Returns(NothingToJudge)
       \/ /\ current # None /\ current.whole /\ current.canonical
          /\ gate' = [at |-> "compare", named |-> gate.named, current |-> current]
          /\ UNCHANGED <<state, checks, verdict, streak, tears, files, runnerVars, crashes, quiet>>

FindOthers ==
    /\ gate.at = "compare"
    /\ gate' = [at |-> "reference", named |-> gate.named, current |-> gate.current,
                previous |-> FindPrevious]
    /\ UNCHANGED <<state, checks, verdict, streak, tears, files, runnerVars, crashes, quiet>>

\* The counters of the state file; one that cannot be parsed is removed.
Counters == IF state.is = "whole" THEN state.counts ELSE [b \in Blocking |-> 0]

\* Mutant of Counted: a pass does not reset the counter.
CountedOn(current) ==
    [b \in Blocking |-> IF FloorMet(current, b) THEN Counters[b] ELSE Counters[b] + 1]

Counted(current) ==
    [b \in Blocking |-> IF FloorMet(current, b) THEN 0 ELSE Counters[b] + 1]

\* The comparison with the unquantized run, the counters, and open("w") of the
\* state file.
Evaluate ==
    /\ gate.at = "reference"
    /\ LET reference == FindReference IN
       \/ Raises(gate.current, gate.previous, reference) /\ Returns(Raised)
       \/ /\ ~Raises(gate.current, gate.previous, reference)
          /\ gate' = [at |-> "save",
                      result |-> [is |-> "judged", current |-> gate.current,
                              previous |-> gate.previous, counts |-> Counted(gate.current),
                              passed |-> Passed(gate.current, gate.previous),
                              sgfp4 |-> Sgfp4Passed(gate.current, reference)]]
          /\ state' = Torn
          /\ streak' = [b \in Blocking |-> IF FloorMet(gate.current, b) THEN 0 ELSE streak[b] + 1]
          /\ UNCHANGED <<checks, verdict, tears, files, runnerVars, crashes, quiet>>

Save ==
    /\ gate.at = "save"
    /\ state' = [is |-> "whole", counts |-> gate.result.counts]
    /\ verdict' = gate.result
    /\ gate' = Idle
    /\ UNCHANGED <<checks, streak, tears, files, runnerVars, crashes, quiet>>

GateDies ==
    /\ gate # Idle /\ crashes < MaxCrashes
    /\ gate' = Idle
    /\ crashes' = crashes + 1
    /\ tears' = IF gate.at = "save" THEN tears + 1 ELSE tears
    /\ UNCHANGED <<state, checks, verdict, streak, files, runnerVars, quiet>>

Runner == StartRun \/ OpenResult \/ WriteResult
Gate == GateStart \/ FindCurrent \/ FindOthers \/ Evaluate \/ Save
Next == Runner \/ RunnerDies \/ Gate \/ GateDies
Spec == Init /\ [][Next]_vars

-----------------------------------------------------------------------------
(* benchmark_repair *)

Judged == verdict.is = "judged"

\* _K_BLOCKING_THRESHOLD
BlockingThreshold == 3

\* blocking, of the result of gate_check_benchmarks: the configured limit is reached.
GateBlocks(v) == \E b \in Blocking : v.counts[b] >= BlockAfter

\* Mutant of ShouldBlock: the configured limit is believed to be the only one.
ShouldBlockAsGated(v) == ~v.sgfp4 \/ GateBlocks(v)

\* should_block_pipeline
ShouldBlock(v) ==
    \/ ~v.sgfp4
    \/ GateBlocks(v) /\ \E b \in Blocking : v.counts[b] >= BlockingThreshold

-----------------------------------------------------------------------------
(* Properties *)

Counts == [Blocking -> 0..MaxChecks]

TypeOK ==
    /\ files \in Seq(Files)
    /\ runs \in 0..MaxRuns
    /\ run.at \in {"idle", "open", "write"}
    /\ run # Idle => run.next \in 1..Len(TaskOrder)
    /\ state \in {Absent, Torn} \cup [is : {"whole"}, counts : Counts]
    /\ gate.at \in {"idle", "find", "compare", "reference", "save"}
    /\ checks \in 0..MaxChecks
    /\ verdict.is \in {"none", "raised", "passed without results", "judged"}
    /\ crashes \in 0..MaxCrashes
    /\ streak \in Counts
    /\ tears \in 0..MaxCrashes
    /\ quiet \in BOOLEAN

\* The counters on disk are the failures in a row: never more, whatever dies in the
\* middle of a rewrite, and no fewer as long as nothing did (_load_bench_gate_state
\* forgets a file it cannot parse, "fail-open").
CountsAreStreaks ==
    state.is = "whole" =>
       \A b \in Blocking :
          /\ state.counts[b] <= streak[b]
          /\ tears = 0 => state.counts[b] = streak[b]

\* benchmark_repair.py:380, "3rd consecutive failure blocks pipeline promotion": a
\* pipeline is blocked, but for quantization, once a benchmark has failed three times in
\* a row, and as often as the configuration says; not before, whatever dies in the
\* middle of a check, and no later if no counters were lost.
BlocksInTime ==
    Judged =>
       LET due == \E b \in Blocking : streak[b] >= BlockAfter /\ streak[b] >= BlockingThreshold IN
       /\ ShouldBlock(verdict) => due \/ ~verdict.sgfp4
       /\ due /\ tears = 0 => ShouldBlock(verdict)

\* The run a result is compared with is an older one than its own, as long as no
\* result is written during the check and the gate chose the result itself
\* (_find_previous_canonical groups files by run_id for this).
PreviousIsOlder ==
    gate.at = "reference" /\ quiet /\ gate.named = 0 /\ gate.previous # None
       => gate.previous.run < gate.current.run

\* benchmarker.py:574: "scores_pass: True iff ALL blocking benchmark scores >=
\* hard_floor": a benchmark whose result in the judged run meets its floor is not
\* counted as failed.
FloorsOfTheRunDecide ==
    Judged /\ quiet =>
       \A i \in 1..Len(files) :
          /\ files[i].whole /\ files[i].run = verdict.current.run
          /\ files[i].task \in Blocking
          /\ files[i].score >= Floor[files[i].task]
          => verdict.counts[files[i].task] = 0
=============================================================================
