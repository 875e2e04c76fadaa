--------------------------- MODULE ShippedPipeline ---------------------------
(***************************************************************************)
(* Pipeline composed with StageFiles: the runner of pipeline/runner.py     *)
(* driving the seven scripts that are in the repository.  The abstract     *)
(* `out` of Pipeline becomes the verdict of the validators on a disk of    *)
(* facts; between two invocations a user can run a script by hand.         *)
(***************************************************************************)
EXTENDS Pipeline, StageFiles

CONSTANT ByHand   \* the commands users give by hand, a subset of HandCommands

ASSUME ShippedAssumption ==
    StageCount = Len(STAGES) /\ ByHand \subseteq HandCommands

VARIABLE disk   \* [niche -> facts that hold of its files]

shippedVars == <<vars, disk>>

Verdict(s, d) == IF Validates(STAGES[s], d) THEN "valid" ELSE "invalid"

ShippedInit ==
    /\ Init
    /\ disk = [n \in Niches |-> {}]

\* The runner's child has worked on the disk, and what Pipeline says of the stage's
\* outputs is what its validator says of that disk.
Leaves(d) ==
    /\ disk' = [disk EXCEPT ![niche] = d]
    /\ out'[niche][stage] = Verdict(stage, d)

ShippedChild ==
    /\ ChildSucceeds
    /\ \E d \in Outcome(STAGES[stage], disk[niche]) : Leaves(d)

\* The child is killed while it writes, by the timeout or with the runner, or an
\* exception meets the runner when the child has written.
ShippedKilled ==
    /\ pc = "child"
    /\ ChildRetried \/ ChildExhausted \/ ChildNotRun \/ Crash
    /\ \E d \in Interrupted(STAGES[stage], disk[niche]) : Leaves(d)

\* Every other step of the runner.  A script that fails by itself does so before it
\* writes: on its arguments, its imports or its inputs.
ShippedRunner ==
    /\ Next
    /\ ~(pc = "child" /\ pc' = "validate")
    /\ out' = out
    /\ UNCHANGED disk

\* A user runs a script between two invocations; what all stages' validators
\* now find is what it made of the disk.
RunByHand ==
    /\ pc = "idle"
    /\ \E n \in Niches, c \in ByHand :
          \E d \in ByHandOutcome(c, disk[n]) :
             /\ disk' = [disk EXCEPT ![n] = d]
             /\ out' = [out EXCEPT ![n] =
                           [s \in Stages |-> IF out[n][s] = "none" /\ Verdict(s, d) = "invalid"
                                               THEN "none" ELSE Verdict(s, d)]]
    /\ UNCHANGED <<ckpt, survivors, pc, queue, flags, stage, attempt, unswept, runs, result>>

ShippedNext == ShippedChild \/ ShippedKilled \/ ShippedRunner \/ RunByHand

ShippedSpec == ShippedInit /\ [][ShippedNext]_shippedVars

-----------------------------------------------------------------------------
(* Properties *)

ShippedTypeOK ==
    /\ TypeOK
    /\ disk \in [Niches -> SUBSET Facts]

\* The scripts do not get in each other's way: running one stage, to its end or not,
\* never changes what the validator of another says, so that Pipeline may keep the
\* outputs of each stage apart (the files the scripts and _validate_* name).
StagesDoNotInterfere ==
    \A n \in Niches, s \in Stages :
       out[n][s] = "valid" <=> Validates(STAGES[s], disk[n])

\* What is done by hand leaves the outputs under a checkpoint valid, except under that
\* of quantize: train --force-retrain removes the exports with the adapters, and
\* quantize --adaptive writes a manifest without the fields that are asked for
\* (train_specialists_mlx.py:254, ManifestBuilder.build, _validate_quantize).
OnlyExportsAreUndermined ==
    \A n \in Niches, s \in Stages :
       Vouches(n, s) =>
          \/ Validates(STAGES[s], disk[n])
          \/ s = 7 /\ ~({"fp4/", "manifest:QUANT-03"} \subseteq disk[n])
=============================================================================
