----------------------------- MODULE EvalGates ------------------------------
(***************************************************************************)
(* The two older gates of Benchmarker, for one niche.  gate_check judges   *)
(* the SGFP4 metrics MetricStore wrote last and keeps its counters in a    *)
(* state file.  gate_check_eval keeps none: it counts failures in a row in *)
(* the files of earlier evaluations, which share their directory with the  *)
(* report the evaluate stage of the pipeline writes.                       *)
(***************************************************************************)
EXTENDS Integers, Sequences, FiniteSets

CONSTANTS
    Dims,            \* fp4_mse, fp4_effective_bitrate, fp4_t158_ratio
    Gated,           \* [some of Dims -> [min, max, block]]: eval_gates
    Values,          \* what a dimension may measure
    EvalGateNames,   \* perplexity, bleu_score
    MaxRecords,      \* bound: exports whose metrics are recorded
    MaxEvals,        \* bound: evaluations
    MaxEvalChecks,   \* bound: checks of either gate
    MaxEvalCrashes   \* bound: processes that die

ASSUME EvalAssumption ==
    /\ DOMAIN Gated \subseteq Dims
    /\ \A d \in DOMAIN Gated : Gated[d] \in [min : Nat, max : Nat, block : Nat \ {0}]
    /\ Values \subseteq Nat
    /\ {MaxRecords, MaxEvals, MaxEvalChecks, MaxEvalCrashes} \subseteq Nat

VARIABLES
    metrics,      \* {niche}_sgfp4_metrics.json: absent, torn, or with values
    recording,    \* whether record_sgfp4_metrics is between open and close
    fp4State,     \* {niche}_gate_state.json: absent, torn, or with counters
    fp4Gate,      \* where gate_check is, with its locals
    fp4Verdict,   \* what gate_check returned last
    evals,        \* {niche}_{timestamp}.json in order
    persisting,   \* whether persist is between open and close
    report,       \* {niche}_eval.json: "absent", "torn", "whole"
    evalVerdict,  \* what gate_check_eval returned last
    spent,        \* how often each bounded thing happened
    fp4Streak,    \* history: checks in a row in which a dimension failed
    fp4Tears,     \* history: times the state file was left torn
    evalStreak    \* history: evaluations persisted in a row that failed a gate

evalVars == <<metrics, recording, fp4State, fp4Gate, fp4Verdict, evals, persisting,
              report, evalVerdict, spent, fp4Streak, fp4Tears, evalStreak>>

fp4Vars == <<metrics, recording, fp4State, fp4Gate, fp4Verdict, fp4Streak, fp4Tears>>
runVars == <<evals, persisting, report, evalVerdict, evalStreak>>

NoFile == [is |-> "absent"]
TornFile == [is |-> "torn"]
Nothing == [is |-> "nothing"]

\* evaluate and _evaluate_sample: a sample that is too short, or raises, is passed over;
\* without any other, no measure is taken at all.
Unmeasured == [EvalGateNames -> {"missing"}]

\* _check_gates: what an evaluation says of each gate; one that measured nothing
\* says nothing.
Outcomes == [EvalGateNames -> {"passed", "failed"}] \cup Unmeasured

\* _compute_fp4_mse, _compute_t158_ratio: what can be measured of an export
\* _validate_stats_dict accepts.
Measurements == [Dims -> Values]

EvalInit ==
    /\ metrics = NoFile /\ recording = FALSE
    /\ fp4State = NoFile /\ fp4Gate = Nothing /\ fp4Verdict = Nothing
    /\ evals = <<>> /\ persisting = FALSE /\ report = "absent" /\ evalVerdict = Nothing
    /\ spent = [records |-> 0, evals |-> 0, checks |-> 0, crashes |-> 0]
    /\ fp4Streak = [d \in DOMAIN Gated |-> 0] /\ fp4Tears = 0
    /\ evalStreak = [g \in EvalGateNames |-> 0]

Spend(what, bound) ==
    /\ spent[what] < bound
    /\ spent' = [spent EXCEPT ![what] = @ + 1]

-----------------------------------------------------------------------------
(* MetricStore.record_sgfp4_metrics *)

RecordOpen ==
    /\ ~recording
    /\ Spend("records", MaxRecords)
    /\ metrics' = TornFile
    /\ recording' = TRUE
    /\ UNCHANGED <<fp4State, fp4Gate, fp4Verdict, fp4Streak, fp4Tears, runVars>>

RecordWrite ==
    /\ recording
    /\ \E v \in Measurements : metrics' = [is |-> "whole", values |-> v]
    /\ recording' = FALSE
    /\ UNCHANGED <<fp4State, fp4Gate, fp4Verdict, fp4Streak, fp4Tears, runVars, spent>>

-----------------------------------------------------------------------------
(* Benchmarker.gate_check *)

\* _check_dimension
WithinGate(d, v) == v[d] >= Gated[d].min /\ v[d] <= Gated[d].max

\* _load_gate_state removes a file it cannot parse.
Fp4Counters ==
    IF fp4State.is = "whole" THEN fp4State.counts ELSE [d \in DOMAIN Gated |-> 0]

\* Mutant of Fp4Counted: every counter is reset when any dimension passes.
Fp4CountedTogether(v) ==
    [d \in DOMAIN Gated |-> IF \E e \in DOMAIN Gated : WithinGate(e, v) THEN 0
                            ELSE Fp4Counters[d] + 1]

\* _update_consecutive_failures
Fp4Counted(v) ==
    [d \in DOMAIN Gated |-> IF WithinGate(d, v) THEN 0 ELSE Fp4Counters[d] + 1]

\* load_sgfp4_metrics: None for a file that is missing, and for one that is torn.
MetricsLoad == metrics.is = "whole"

\* gate_check: without metrics the gate passes.
CheckFp4 ==
    /\ fp4Gate = Nothing
    /\ Spend("checks", MaxEvalChecks)
    /\ \/ /\ ~MetricsLoad
          /\ fp4Verdict' = [is |-> "passed without metrics"]
          /\ UNCHANGED fp4Gate
       \/ /\ MetricsLoad
          /\ fp4Gate' = [is |-> "loaded", values |-> metrics.values]
          /\ fp4Verdict' = Nothing
    /\ UNCHANGED <<metrics, recording, fp4State, fp4Streak, fp4Tears, runVars>>

\* The counters, and open("w") in _save_gate_state.
CountFp4 ==
    /\ fp4Gate.is = "loaded"
    /\ fp4Gate' = [is |-> "saving", counts |-> Fp4Counted(fp4Gate.values)]
    /\ fp4State' = TornFile
    /\ fp4Streak' = [d \in DOMAIN Gated |->
                       IF WithinGate(d, fp4Gate.values) THEN 0 ELSE fp4Streak[d] + 1]
    /\ UNCHANGED <<metrics, recording, fp4Verdict, fp4Tears, runVars, spent>>

SaveFp4 ==
    /\ fp4Gate.is = "saving"
    /\ fp4State' = [is |-> "whole", counts |-> fp4Gate.counts]
    /\ fp4Verdict' = [is |-> "judged", counts |-> fp4Gate.counts,
                      blocking |-> \E d \in DOMAIN Gated : fp4Gate.counts[d] >= Gated[d].block]
    /\ fp4Gate' = Nothing
    /\ UNCHANGED <<metrics, recording, fp4Streak, fp4Tears, runVars, spent>>

-----------------------------------------------------------------------------
(* SpecialistEvaluator and MetricStore.persist *)

PersistOpen ==
    /\ ~persisting
    /\ Spend("evals", MaxEvals)
    /\ evals' = Append(evals, TornFile)
    /\ persisting' = TRUE
    /\ UNCHANGED <<report, evalVerdict, evalStreak, fp4Vars>>

PersistWrite ==
    /\ persisting
    /\ \E o \in Outcomes :
          /\ evals' = [evals EXCEPT ![Len(evals)] = [is |-> "whole", gates |-> o]]
          /\ evalStreak' = [g \in EvalGateNames |->
                               IF o[g] = "failed" THEN evalStreak[g] + 1 ELSE 0]
    /\ persisting' = FALSE
    /\ UNCHANGED <<report, evalVerdict, fp4Vars, spent>>

\* The evaluate stage (evaluator.py as a script) writes its report beside them; one
\* that dies leaves it torn.
ReportOpen ==
    /\ Spend("evals", MaxEvals)
    /\ report' = "torn"
    /\ UNCHANGED <<evals, persisting, evalVerdict, evalStreak, fp4Vars>>

ReportWrite ==
    /\ report = "torn"
    /\ report' = "whole"
    /\ UNCHANGED <<evals, persisting, evalVerdict, evalStreak, fp4Vars, spent>>

\* load_prior: the files that can be parsed, by name; the report is the last of them.
Prior ==
    {i \in 1..Len(evals) : evals[i].is = "whole"}
      \cup IF report = "whole" THEN {Len(evals) + 1} ELSE {}

\* A gate an earlier run says nothing of has passed; the report says nothing of any.
FailedIn(i, g) == i <= Len(evals) /\ evals[i].gates[g] = "failed"

\* Mutant of Consecutive: a passed evaluation does not end the count.
ConsecutiveEver(g, current) ==
    IF current = "passed" THEN 0
    ELSE 1 + Cardinality({i \in Prior : FailedIn(i, g)})

\* _count_consecutive_failures
Consecutive(g, current) ==
    IF current = "passed" THEN 0
    ELSE 1 + Cardinality({i \in Prior : \A j \in Prior : j >= i => FailedIn(j, g)})

\* gate_check_eval, of metrics not persisted yet.
CheckEval ==
    /\ Spend("checks", MaxEvalChecks)
    /\ \E o \in Outcomes :
          evalVerdict' = [is |-> "judged", gates |-> o,
                          counts |-> [g \in EvalGateNames |-> Consecutive(g, o[g])]]
    /\ UNCHANGED <<evals, persisting, report, evalStreak, fp4Vars>>

-----------------------------------------------------------------------------
\* Whichever process is at work dies.
EvalDies ==
    /\ Spend("crashes", MaxEvalCrashes)
    /\ \/ /\ recording
          /\ recording' = FALSE
          /\ UNCHANGED <<metrics, fp4State, fp4Gate, fp4Verdict, fp4Streak, fp4Tears, runVars>>
       \/ /\ fp4Gate # Nothing
          /\ fp4Gate' = Nothing
          /\ fp4Tears' = IF fp4Gate.is = "saving" THEN fp4Tears + 1 ELSE fp4Tears
          /\ UNCHANGED <<metrics, recording, fp4State, fp4Verdict, fp4Streak, runVars>>
       \/ /\ persisting
          /\ persisting' = FALSE
          /\ UNCHANGED <<evals, report, evalVerdict, evalStreak, fp4Vars>>

Fp4Next == RecordOpen \/ RecordWrite \/ CheckFp4 \/ CountFp4 \/ SaveFp4
RunNext == PersistOpen \/ PersistWrite \/ ReportOpen \/ ReportWrite \/ CheckEval
EvalNext == Fp4Next \/ RunNext \/ EvalDies

EvalSpec == EvalInit /\ [][EvalNext]_evalVars

-----------------------------------------------------------------------------
(* Properties *)

EvalTypeOK ==
    /\ metrics \in {NoFile, TornFile} \cup [is : {"whole"}, values : Measurements]
    /\ fp4State \in {NoFile, TornFile}
                      \cup [is : {"whole"}, counts : [DOMAIN Gated -> 0..MaxEvalChecks]]
    /\ fp4Gate.is \in {"nothing", "loaded", "saving"}
    /\ fp4Verdict.is \in {"nothing", "passed without metrics", "judged"}
    /\ evals \in Seq({TornFile} \cup [is : {"whole"}, gates : Outcomes])
    /\ report \in {"absent", "torn", "whole"}
    /\ evalVerdict.is \in {"nothing", "judged"}
    /\ recording \in BOOLEAN /\ persisting \in BOOLEAN
    /\ fp4Streak \in [DOMAIN Gated -> 0..MaxEvalChecks]
    /\ evalStreak \in [EvalGateNames -> 0..MaxEvals]

\* A dimension blocks when it failed its own number of checks in a row: never
\* earlier, whatever died while the counters were rewritten, and no later if nothing
\* did (gate_check, _update_consecutive_failures, _load_gate_state).
Fp4BlocksInTime ==
    fp4Verdict.is = "judged" =>
       LET due == \E d \in DOMAIN Gated : fp4Streak[d] >= Gated[d].block IN
       /\ fp4Verdict.blocking => due
       /\ due /\ fp4Tears = 0 => fp4Verdict.blocking

\* What gate_check_eval says of the gates it sees fail now.
JudgedFailed(g) == evalVerdict' # evalVerdict /\ evalVerdict'.gates[g] # "passed"

\* A failing gate is reported with the failures in a row before it, found again in the
\* files, torn ones and ones without a measure between them, as long as the evaluate stage
\* has left no report there (load_prior, _count_consecutive_failures).
FailuresAreFound ==
    [][\A g \in EvalGateNames :
          report # "whole" /\ JudgedFailed(g)
             => evalVerdict'.counts[g] = 1 + evalStreak[g]]_evalVars

\* metric_store.py:143-146: files that "lack EvalMetrics fields (gates_passed, scalar
\* metrics)" would "corrupt consecutive-failure gating" and are excluded;
\* benchmarker.py:1062: how many "consecutive runs failed the gate" is counted.  So
\* failures count whatever else the directory holds.
FailuresCount ==
    [][\A g \in EvalGateNames :
          JudgedFailed(g) => evalVerdict'.counts[g] >= 1 + evalStreak[g]]_evalVars
=============================================================================
