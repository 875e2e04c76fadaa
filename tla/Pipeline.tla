------------------------------ MODULE Pipeline ------------------------------
(***************************************************************************)
(* The training pipeline runner of gnus-poc: PipelineRunner.run and        *)
(* _run_stage (pipeline/runner.py) together with the checkpoint lifecycle  *)
(* of CheckpointValidator (pipeline/checkpoint.py).                        *)
(*                                                                         *)
(* One runner process at a time walks the niches of an invocation; for     *)
(* each niche it walks the stages from `start`, runs a stage as a child    *)
(* process, validates what the child left on disk and writes a checkpoint  *)
(* file.  The disk (ckpt, out) outlives an invocation; the rest of the     *)
(* state is the runner's memory.  Invocations follow one another, with any *)
(* flags, after a normal end, an uncaught exception or a crash.            *)
(*                                                                         *)
(* What a stage script leaves behind is abstracted to what the validator   *)
(* of that stage says of it: "none" (nothing there), "invalid" (a check    *)
(* fails), "raising" (the validator raises) or "valid" (all checks pass).  *)
(***************************************************************************)
EXTENDS Integers, Sequences

CONSTANTS
    Niches,       \* the specialist niches
    NicheOrder,   \* the sequence _load_niches returns
    StageCount,   \* len(STAGES); a stage is its position 1..StageCount
    RetryCount,   \* stage_retry_count of pipeline.yaml
    MaxRuns,      \* bound: how many invocations a behaviour holds
    Flags,        \* the [start, force] requests users make
    OnSuccess,    \* [stage -> contents a child that exits 0 can leave]
    OnFailure,    \* contents a failed or killed child can leave
    Faults        \* subset of {"unlink", "write", "crash"} that can happen

Stages   == 1..StageCount
Contents == {"none", "invalid", "raising", "valid"}
Files    == {"absent", "torn", "valid"}
Results  == {"unseen", "skipped", "done", "failed", "rejected"}

ASSUME PipelineAssumption ==
    /\ StageCount \in Nat \ {0}
    /\ RetryCount \in Nat
    /\ MaxRuns \in Nat
    /\ NicheOrder \in Seq(Niches)
    /\ Flags \subseteq [start : Stages, force : BOOLEAN]
    /\ OnSuccess \in [Stages -> SUBSET Contents]
    /\ OnFailure \subseteq Contents

\* The list names each niche once: pipeline.yaml's specialists do, and so does the
\* default list (_load_niches does not look for duplicates; a niche named twice
\* would be forced twice in one invocation).
ASSUME DistinctNiches ==
    \A i, j \in 1..Len(NicheOrder) : NicheOrder[i] = NicheOrder[j] => i = j

VARIABLES
    ckpt,     \* disk: artifacts/.checkpoints/<niche>/<stage>.json
    out,      \* disk: the outputs of the stage, as its validator sees them
    pc,       \* where the runner is
    queue,    \* niches of this invocation still to do, the current one first
    flags,    \* [start, force] of this invocation
    stage,    \* the loop index i
    attempt,  \* attempts made of the running stage
    unswept,  \* checkpoint files clear_all_checkpoints has still to visit
    runs,     \* invocations so far
    result,   \* history: what this invocation did of each stage
    survivors \* history: files --force could not remove, until they are replaced

vars == <<ckpt, survivors, out, pc, queue, flags, stage, attempt, unswept, runs, result>>

PCs == {"idle", "niche", "clear", "loop", "child", "validate", "mark"}

niche == Head(queue)

Init ==
    /\ ckpt = [n \in Niches |-> [s \in Stages |-> "absent"]]
    /\ out = [n \in Niches |-> [s \in Stages |-> "none"]]
    /\ pc = "idle"
    /\ queue = <<>>
    /\ flags \in Flags
    /\ stage = 1
    /\ attempt = 0
    /\ unswept = {}
    /\ runs = 0
    /\ result = [n \in Niches |-> [s \in Stages |-> "unseen"]]
    /\ survivors = {}

-----------------------------------------------------------------------------
(* Helpers *)

\* is_complete: a missing, unreadable or torn file is an incomplete stage.
Complete(n, s) == ckpt[n][s] = "valid"

Content(n, s, c) == out' = [out EXCEPT ![n][s] = c]
File(n, s, f)    == ckpt' = [ckpt EXCEPT ![n][s] = f]
Note(n, s, r)    == result' = [result EXCEPT ![n][s] = r]

\* The invocation ends: normally, or by an exception nobody catches.
Exit ==
    /\ pc' = "idle"
    /\ queue' = <<>>
    /\ unswept' = {}

-----------------------------------------------------------------------------
(* Starting an invocation, and walking its niches *)

\* main / run: a user starts the runner for one niche or for all of them.
Invoke ==
    /\ pc = "idle"
    /\ runs < MaxRuns
    /\ \E q \in {<<n>> : n \in Niches} \cup {NicheOrder}, f \in Flags :
          /\ queue' = q
          /\ flags' = f
    /\ pc' = "niche"
    /\ runs' = runs + 1
    /\ result' = [n \in Niches |-> [s \in Stages |-> "unseen"]]
    /\ UNCHANGED <<ckpt, survivors, out, stage, attempt, unswept>>

\* Mutant of NextNiche: --force does not clear the checkpoints.
NextNicheUncleared ==
    /\ pc = "niche"
    /\ queue # <<>>
    /\ stage' = flags.start
    /\ pc' = "loop"
    /\ UNCHANGED <<ckpt, survivors, out, queue, flags, attempt, unswept, runs, result>>

\* for n in niches: with --force every checkpoint file found is to be removed.
NextNiche ==
    /\ pc = "niche"
    /\ queue # <<>>
    /\ stage' = flags.start
    /\ pc' = IF flags.force THEN "clear" ELSE "loop"
    /\ unswept' = IF flags.force
                    THEN {s \in Stages : ckpt[niche][s] # "absent"}
                    ELSE {}
    /\ UNCHANGED <<ckpt, survivors, out, queue, flags, attempt, runs, result>>

NoNicheLeft ==
    /\ pc = "niche"
    /\ queue = <<>>
    /\ Exit
    /\ UNCHANGED <<ckpt, survivors, out, flags, stage, attempt, runs, result>>

\* Mutant of ClearOne: the files of every niche are removed.
ClearOneEverywhere ==
    /\ pc = "clear"
    /\ \E s \in unswept :
          /\ ckpt' = [n \in Niches |-> [ckpt[n] EXCEPT ![s] = "absent"]]
          /\ unswept' = unswept \ {s}
    /\ UNCHANGED <<survivors, out, pc, queue, flags, stage, attempt, runs, result>>

\* clear_all_checkpoints: files go one at a time, in directory order.
ClearOne ==
    /\ pc = "clear"
    /\ \E s \in unswept :
          /\ File(niche, s, "absent")
          /\ unswept' = unswept \ {s}
          /\ survivors' = survivors \ {<<niche, s>>}
    /\ UNCHANGED <<out, pc, queue, flags, stage, attempt, runs, result>>

\* An OSError of unlink is logged and the file stays.
ClearFails ==
    /\ "unlink" \in Faults
    /\ pc = "clear"
    /\ \E s \in unswept :
          /\ unswept' = unswept \ {s}
          /\ survivors' = survivors \cup {<<niche, s>>}
    /\ UNCHANGED <<ckpt, out, pc, queue, flags, stage, attempt, runs, result>>

Cleared ==
    /\ pc = "clear"
    /\ unswept = {}
    /\ pc' = "loop"
    /\ UNCHANGED <<ckpt, survivors, out, queue, flags, stage, attempt, unswept, runs, result>>

-----------------------------------------------------------------------------
(* The stage loop *)

Skip ==
    /\ pc = "loop"
    /\ stage \in Stages
    /\ ~flags.force
    /\ Complete(niche, stage)
    /\ Note(niche, stage, "skipped")
    /\ stage' = stage + 1
    /\ UNCHANGED <<ckpt, survivors, out, pc, queue, flags, attempt, unswept, runs>>

\* Mutant of StartStage: a completed stage is run again.
StartStageAnyway ==
    /\ pc = "loop"
    /\ stage \in Stages
    /\ pc' = "child"
    /\ attempt' = 1
    /\ UNCHANGED <<ckpt, survivors, out, queue, flags, stage, unswept, runs, result>>

StartStage ==
    /\ pc = "loop"
    /\ stage \in Stages
    /\ flags.force \/ ~Complete(niche, stage)
    /\ pc' = "child"
    /\ attempt' = 1
    /\ UNCHANGED <<ckpt, survivors, out, queue, flags, stage, unswept, runs, result>>

\* The loop runs off STAGES: on to the next niche.
NicheDone ==
    /\ pc = "loop"
    /\ stage = StageCount + 1
    /\ pc' = "niche"
    /\ queue' = Tail(queue)
    /\ UNCHANGED <<ckpt, survivors, out, flags, stage, attempt, unswept, runs, result>>

-----------------------------------------------------------------------------
(* _run_stage: the attempts of one stage *)

ChildSucceeds ==
    /\ pc = "child"
    /\ \E c \in OnSuccess[stage] : Content(niche, stage, c)
    /\ pc' = "validate"
    /\ UNCHANGED <<ckpt, survivors, queue, flags, stage, attempt, unswept, runs, result>>

\* What a child leaves that exits non-zero or is killed by the timeout.
Wreck == \/ \E c \in OnFailure : Content(niche, stage, c)
         \/ UNCHANGED out

\* Mutant of ChildRetried: one attempt too many.
ChildRetriedOnceMore ==
    /\ pc = "child"
    /\ attempt <= RetryCount + 1
    /\ Wreck
    /\ attempt' = attempt + 1
    /\ UNCHANGED <<ckpt, survivors, pc, queue, flags, stage, unswept, runs, result>>

ChildRetried ==
    /\ pc = "child"
    /\ attempt < RetryCount + 1
    /\ Wreck
    /\ attempt' = attempt + 1
    /\ UNCHANGED <<ckpt, survivors, pc, queue, flags, stage, unswept, runs, result>>

\* run(): a stage that failed is noted and the loop goes on with stage i + 1.
StageFailed ==
    /\ Note(niche, stage, "failed")
    /\ stage' = stage + 1
    /\ pc' = "loop"

ChildExhausted ==
    /\ pc = "child"
    /\ attempt = RetryCount + 1
    /\ Wreck
    /\ StageFailed
    /\ UNCHANGED <<ckpt, survivors, queue, flags, attempt, unswept, runs>>

\* FileNotFoundError, of a script that is not there, or any other exception, which may
\* come when the script has worked: no retry is made.
ChildNotRun ==
    /\ pc = "child"
    /\ Wreck
    /\ StageFailed
    /\ UNCHANGED <<ckpt, survivors, queue, flags, attempt, unswept, runs>>

-----------------------------------------------------------------------------
(* validate_stage and mark_complete *)

\* Mutant of ValidatePasses: the exit code is trusted, nothing is validated.
ValidatePassesUnseen ==
    /\ pc = "validate"
    /\ File(niche, stage, "torn")
    /\ survivors' = survivors \ {<<niche, stage>>}
    /\ pc' = "mark"
    /\ UNCHANGED <<out, queue, flags, stage, attempt, unswept, runs, result>>

\* All checks pass: write_text opens the file, which truncates it.
ValidatePasses ==
    /\ pc = "validate"
    /\ out[niche][stage] = "valid"
    /\ File(niche, stage, "torn")
    /\ survivors' = survivors \ {<<niche, stage>>}
    /\ pc' = "mark"
    /\ UNCHANGED <<out, queue, flags, stage, attempt, unswept, runs, result>>

\* Mutant of ValidateFails: the loop goes on instead of breaking.
ValidateFailsOn ==
    /\ pc = "validate"
    /\ out[niche][stage] \in {"none", "invalid"}
    /\ Note(niche, stage, "rejected")
    /\ pc' = "loop"
    /\ stage' = stage + 1
    /\ UNCHANGED <<ckpt, survivors, out, queue, flags, attempt, unswept, runs>>

\* Mutant of ValidateFails: the stage is tried again until it validates.
ValidateFailsAgain ==
    /\ pc = "validate"
    /\ out[niche][stage] \in {"none", "invalid"}
    /\ pc' = "loop"
    /\ UNCHANGED <<ckpt, survivors, out, queue, flags, stage, attempt, unswept, runs, result>>

\* A check fails: break out of the stage loop of this niche.
ValidateFails ==
    /\ pc = "validate"
    /\ out[niche][stage] \in {"none", "invalid"}
    /\ Note(niche, stage, "rejected")
    /\ pc' = "niche"
    /\ queue' = Tail(queue)
    /\ UNCHANGED <<ckpt, survivors, out, flags, stage, attempt, unswept, runs>>

\* The validator raises; run() does not catch it, so the invocation ends.
ValidateRaises ==
    /\ pc = "validate"
    /\ out[niche][stage] = "raising"
    /\ Note(niche, stage, "rejected")
    /\ Exit
    /\ UNCHANGED <<ckpt, survivors, out, flags, stage, attempt, runs>>

MarkWritten ==
    /\ pc = "mark"
    /\ File(niche, stage, "valid")
    /\ Note(niche, stage, "done")
    /\ stage' = stage + 1
    /\ pc' = "loop"
    /\ UNCHANGED <<survivors, out, queue, flags, attempt, unswept, runs>>

\* An OSError of write_text (a full disk) is not caught either.
MarkRaises ==
    /\ "write" \in Faults
    /\ pc = "mark"
    /\ Exit
    /\ UNCHANGED <<ckpt, survivors, out, flags, stage, attempt, runs, result>>

-----------------------------------------------------------------------------
\* KeyboardInterrupt, on which subprocess.run kills the child, or the process dies; the
\* child is taken to die with it.
Crash ==
    /\ "crash" \in Faults
    /\ pc # "idle"
    /\ IF pc = "child" THEN Wreck ELSE UNCHANGED out
    /\ Exit
    /\ UNCHANGED <<ckpt, survivors, flags, stage, attempt, runs, result>>

Runner ==
    \/ NextNiche \/ NoNicheLeft \/ ClearOne \/ ClearFails \/ Cleared
    \/ Skip \/ StartStage \/ NicheDone
    \/ ChildSucceeds \/ ChildRetried \/ ChildExhausted \/ ChildNotRun
    \/ ValidatePasses \/ ValidateFails \/ ValidateRaises
    \/ MarkWritten \/ MarkRaises

Next == Invoke \/ Runner \/ Crash

Spec == Init /\ [][Next]_vars

\* The runner is a process the OS schedules; subprocess.run has a timeout of an
\* hour per attempt, so that a child ends, one way or another.
FairSpec == Spec /\ WF_vars(Runner)

-----------------------------------------------------------------------------
(* Properties *)

TypeOK ==
    /\ ckpt \in [Niches -> [Stages -> Files]]
    /\ out \in [Niches -> [Stages -> Contents]]
    /\ pc \in PCs
    /\ queue \in Seq(Niches)
    /\ flags \in Flags
    /\ stage \in 1..(StageCount + 1)
    /\ attempt \in 0..(RetryCount + 1)
    /\ unswept \subseteq Stages
    /\ runs \in 0..MaxRuns
    /\ result \in [Niches -> [Stages -> Results]]
    /\ survivors \subseteq Niches \X Stages

\* A checkpoint file that counts: clear_all_checkpoints only logs an unlink that
\* fails, and a file that survives in this way says nothing of the runs after it.
Vouches(n, s) == Complete(n, s) /\ <<n, s>> \notin survivors

\* A checkpoint vouches for what is on disk now, whatever failed, was killed,
\* was retried or was forced since it was written, unless it is one that --force
\* could not remove (checkpoint.py:1-5, is_complete: a stage is skipped on the
\* strength of this file alone).
CheckpointsVouch ==
    \A n \in Niches, s \in Stages : Vouches(n, s) => out[n][s] = "valid"

\* Only an invocation with --force may take back a checkpoint or touch the
\* outputs of a stage that has one; retries, aborts, torn writes and resumed
\* runs of other stages may not (run(), the skip of a completed stage).
OnlyForceDiscards ==
    [][\A n \in Niches, s \in Stages :
          Complete(n, s) /\ ~flags'.force
             => /\ ckpt'[n][s] = "valid"
                /\ out'[n][s] = out[n][s]]_vars

\* After a validation failure the niche is abandoned: no later stage of it is
\* run, skipped or checkpointed by the same invocation (run(), the break).
RejectionAbandonsNiche ==
    \A n \in Niches, s, t \in Stages :
       result[n][s] = "rejected" /\ t > s => result[n][t] = "unseen"

\* A stage this invocation saw through, by running or by skipping it, has its
\* checkpoint as long as the invocation lasts: a later stage, or another niche,
\* never undoes it.
ProgressIsKept ==
    \A n \in Niches, s \in Stages :
       result[n][s] \in {"done", "skipped"} => Complete(n, s)

\* Every invocation ends, whatever the scripts do, because each attempt ends
\* and their number is bounded (_run_stage: max_attempts).
InvocationEnds == pc # "idle" ~> pc = "idle"

-----------------------------------------------------------------------------
(* What the runner implements *)

Ledger == INSTANCE StageLedger WITH
    Entries   <- Niches \X Stages,
    certified <- {e \in Niches \X Stages : Vouches(e[1], e[2])},
    sound     <- {e \in Niches \X Stages : out[e[1]][e[2]] = "valid"},
    forced    <- flags.force

\* The runner and its files implement the ledger: as far as the checkpoints are
\* concerned an invocation only works on uncertified entries, certifies sound
\* ones, and revokes under --force (run, mark_complete, clear_all_checkpoints).  A
\* file that could not be removed is revoked all the same.
ImplementsLedger == Ledger!Spec

=============================================================================
