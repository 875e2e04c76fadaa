------------------------------ MODULE MCGates -------------------------------
(* Instances of Gates for TLC.                                             *)
EXTENDS Gates, TLC

CONSTANTS humaneval, mmlu

\* Of the niche "code" of SPECIALIST_BENCHMARKS.
MCTasks == <<humaneval, mmlu>>
MCFloor == humaneval :> 1
MCBaseline == humaneval :> 1

\* eval_gates of pipeline.yaml bounds fp4_mse from above and fp4_t158_ratio from below.
MCGated == [fp4_mse |-> [min |-> 0, max |-> 0, block |-> 2],
            fp4_t158_ratio |-> [min |-> 1, max |-> 1, block |-> 1]]

BenchmarksAtWork == runs + checks > 0
Fp4AtWork == metrics # NoFile \/ fp4Verdict # Nothing
EvalsAtWork == evals # <<>> \/ report # "absent" \/ evalVerdict # Nothing

\* A behaviour is of one of them.
OneAtWork ==
    /\ ~(BenchmarksAtWork /\ Fp4AtWork)
    /\ ~(BenchmarksAtWork /\ EvalsAtWork)
    /\ ~(Fp4AtWork /\ EvalsAtWork)

MCNext == GatesNext /\ OneAtWork'

MCSpec == GatesInit /\ [][MCNext]_<<vars, evalVars>>
=============================================================================
