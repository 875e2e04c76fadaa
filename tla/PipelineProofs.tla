--------------------------- MODULE PipelineProofs ---------------------------
(***************************************************************************)
(* Proofs about Pipeline, for any niches, stages, flags, scripts and retry *)
(* count: type correctness, that a checkpoint vouches for the outputs on   *)
(* disk, that only --force discards one, that a rejection ends the work on *)
(* a niche and progress lasts, and the refinement of StageLedger.          *)
(***************************************************************************)
EXTENDS Pipeline, TLAPS

\* Inside its loops the runner has a niche, and a stage when it runs one.
Busy ==
    /\ pc \in {"clear", "loop", "child", "validate", "mark"} => queue # <<>>
    /\ pc \in {"child", "validate", "mark"} => stage \in Stages

Typed == TypeOK /\ Busy

-----------------------------------------------------------------------------
(* Facts about the data *)

LEMMA Update2 ==
  ASSUME NEW X, NEW Y, NEW V, NEW f \in [X -> [Y -> V]], NEW x, NEW y, NEW v \in V
  PROVE  [f EXCEPT ![x][y] = v] \in [X -> [Y -> V]]
  OBVIOUS

LEMMA HeadTail ==
  ASSUME NEW S, NEW q \in Seq(S), q # <<>>
  PROVE  Head(q) \in S /\ Tail(q) \in Seq(S)
  OBVIOUS

LEMMA FileTypes ==
  /\ "absent" \in Files /\ "torn" \in Files /\ "valid" \in Files
  /\ "none" \in Contents
  /\ \A r \in {"unseen", "skipped", "done", "failed", "rejected"} : r \in Results
  BY DEF Files, Contents, Results

LEMMA FlagTypes ==
  ASSUME NEW f \in Flags
  PROVE  f.start \in 1..(StageCount + 1) /\ f.force \in BOOLEAN
  BY PipelineAssumption DEF Stages

LEMMA StageTypes ==
  /\ 1 \in 1..(StageCount + 1)
  /\ \A s \in Stages : s \in 1..(StageCount + 1) /\ s + 1 \in 1..(StageCount + 1)
  /\ 0 \in 0..(RetryCount + 1) /\ 1 \in 0..(RetryCount + 1)
  /\ \A a \in 0..(RetryCount + 1) : a < RetryCount + 1 => a + 1 \in 0..(RetryCount + 1)
  /\ 0 \in 0..MaxRuns
  /\ \A r \in 0..MaxRuns : r < MaxRuns => r + 1 \in 0..MaxRuns
  BY PipelineAssumption DEF Stages

-----------------------------------------------------------------------------
(* Type correctness *)

LEMMA TypeInit == Init => Typed
  BY FileTypes, StageTypes, PipelineAssumption DEF Init, Typed, TypeOK, Busy, PCs

\* What a step can do to the outputs on disk keeps their type.
LEMMA OutTypes ==
  ASSUME Typed, NEW c \in Contents, Content(niche, stage, c)
  PROVE  out' \in [Niches -> [Stages -> Contents]]
  BY Update2 DEF Typed, TypeOK, Content

LEMMA WreckTypes ==
  ASSUME Typed, Wreck
  PROVE  out' \in [Niches -> [Stages -> Contents]]
  BY OutTypes, PipelineAssumption DEF Typed, TypeOK, Wreck

LEMMA FileWriteTypes ==
  ASSUME Typed, NEW s, NEW f \in Files, File(niche, s, f)
  PROVE  ckpt' \in [Niches -> [Stages -> Files]]
  BY Update2 DEF Typed, TypeOK, File

LEMMA NoteTypes ==
  ASSUME Typed, NEW r \in Results, Note(niche, stage, r)
  PROVE  result' \in [Niches -> [Stages -> Results]]
  BY Update2 DEF Typed, TypeOK, Note

LEMMA TypeNext == Typed /\ [Next]_vars => Typed'
<1> SUFFICES ASSUME Typed, [Next]_vars PROVE Typed'
  OBVIOUS
<1> USE FileTypes, StageTypes DEF Typed, TypeOK, Busy, PCs
<1>1. CASE Invoke
  <2>1. queue' \in Seq(Niches)
    <3>1. \A n \in Niches : <<n>> \in Seq(Niches)
      OBVIOUS
    <3>2. queue' \in {<<n>> : n \in Niches} \cup {NicheOrder}
      BY <1>1 DEF Invoke
    <3>. QED
      BY <3>1, <3>2, PipelineAssumption, Zenon
  <2>2. result' \in [Niches -> [Stages -> Results]]
    BY <1>1 DEF Invoke
  <2>. QED
    BY <1>1, <2>1, <2>2 DEF Invoke
<1>2. CASE NextNiche
  BY <1>2, FlagTypes DEF NextNiche
<1>3. CASE NoNicheLeft
  BY <1>3 DEF NoNicheLeft, Exit
<1>4. CASE ClearOne
  BY <1>4, FileWriteTypes DEF ClearOne
<1>5. CASE ClearFails
  <2>1. PICK s \in unswept :
           unswept' = unswept \ {s} /\ survivors' = survivors \cup {<<niche, s>>}
    BY <1>5 DEF ClearFails
  <2>2. niche \in Niches /\ s \in Stages
    BY <1>5, <2>1, HeadTail DEF ClearFails, niche
  <2>3. survivors' \subseteq Niches \X Stages
    BY <2>1, <2>2
  <2>. QED
    BY <1>5, <2>1, <2>3 DEF ClearFails
<1>6. CASE Cleared
  BY <1>6 DEF Cleared
<1>7. CASE Skip
  BY <1>7, NoteTypes DEF Skip
<1>8. CASE StartStage
  BY <1>8 DEF StartStage
<1>9. CASE NicheDone
  BY <1>9, HeadTail DEF NicheDone
<1>10. CASE ChildSucceeds
  BY <1>10, OutTypes, PipelineAssumption DEF ChildSucceeds
<1>11. CASE ChildRetried
  BY <1>11, WreckTypes DEF ChildRetried
<1>12. CASE ChildExhausted
  BY <1>12, WreckTypes, NoteTypes DEF ChildExhausted, StageFailed
<1>13. CASE ChildNotRun
  BY <1>13, WreckTypes, NoteTypes DEF ChildNotRun, StageFailed
<1>14. CASE ValidatePasses
  BY <1>14, FileWriteTypes DEF ValidatePasses
<1>15. CASE ValidateFails
  BY <1>15, NoteTypes, HeadTail DEF ValidateFails
<1>16. CASE ValidateRaises
  BY <1>16, NoteTypes DEF ValidateRaises, Exit
<1>17. CASE MarkWritten
  BY <1>17, FileWriteTypes, NoteTypes DEF MarkWritten
<1>18. CASE MarkRaises
  BY <1>18 DEF MarkRaises, Exit
<1>19. CASE Crash
  BY <1>19, WreckTypes DEF Crash, Exit
<1>20. CASE UNCHANGED vars
  BY <1>20 DEF vars
<1>. QED
  BY <1>1, <1>2, <1>3, <1>4, <1>5, <1>6, <1>7, <1>8, <1>9, <1>10, <1>11,
     <1>12, <1>13, <1>14, <1>15, <1>16, <1>17, <1>18, <1>19, <1>20
     DEF Next, Runner

\* The variables only ever hold values of their types (every handler of run()).
THEOREM TypeCorrect == Spec => []TypeOK
<1>. Typed => TypeOK
  BY DEF Typed
<1>. QED
  BY TypeInit, TypeNext, PTL DEF Spec

-----------------------------------------------------------------------------
(* The inductive invariant behind CheckpointsVouch                          *)

\* While the runner runs a stage or judges its outputs, that stage has no
\* checkpoint that counts: outputs are never written under one.
NoCheckpointUnderWork ==
    pc \in {"child", "validate", "mark"} => ~Vouches(niche, stage)

\* mark_complete writes over outputs that the validator has just accepted, into a
\* file it has truncated.
MarkIsJustified ==
    pc = "mark" => out[niche][stage] = "valid" /\ <<niche, stage>> \notin survivors

\* clear_all_checkpoints has all the checkpoints of the niche on its list.
SweepCovers ==
    pc = "clear" =>
        flags.force /\ \A s \in Stages : Vouches(niche, s) => s \in unswept

\* A forced stage loop has no checkpoint in front of it.
ForcedLoopIsClean ==
    pc \in {"loop", "child", "validate", "mark"} /\ flags.force =>
        \A s \in Stages : s >= stage => ~Vouches(niche, s)

\* The discipline of the runner itself; it does not depend on what the files say.
WorkInv ==
    /\ Typed
    /\ NoCheckpointUnderWork
    /\ MarkIsJustified
    /\ SweepCovers
    /\ ForcedLoopIsClean

IInv == WorkInv /\ CheckpointsVouch

LEMMA InvInit == Init => IInv
  BY TypeInit DEF Init, IInv, WorkInv, CheckpointsVouch, NoCheckpointUnderWork,
     MarkIsJustified, SweepCovers, ForcedLoopIsClean, Vouches, Complete

\* Reading back a file or an output after a single update.
LEMMA ReadBack ==
  ASSUME NEW X, NEW Y, NEW V, NEW f \in [X -> [Y -> V]],
         NEW x \in X, NEW y \in Y, NEW v
  PROVE  \A a \in X, b \in Y :
            [f EXCEPT ![x][y] = v][a][b]
               = IF a = x /\ b = y THEN v ELSE f[a][b]
  OBVIOUS

\* What the current niche and stage are, inside the loops.
LEMMA Current ==
  ASSUME Typed
  PROVE  /\ pc \in {"clear", "loop", "child", "validate", "mark"} => niche \in Niches
         /\ pc \in {"child", "validate", "mark"} => stage \in Stages
  BY HeadTail DEF Typed, TypeOK, Busy, niche

LEMMA WreckElsewhere ==
  ASSUME Typed, pc = "child", Wreck
  PROVE  \A n \in Niches, s \in Stages :
            ~(n = niche /\ s = stage) => out'[n][s] = out[n][s]
<1>1. CASE UNCHANGED out
  BY <1>1
<1>2. ASSUME NEW c \in OnFailure, Content(niche, stage, c)
      PROVE  \A n \in Niches, s \in Stages :
                ~(n = niche /\ s = stage) => out'[n][s] = out[n][s]
  BY <1>2, ReadBack, Current DEF Typed, TypeOK, Content
<1>. QED
  BY <1>1, <1>2 DEF Wreck

\* Whatever a child does to the disk, it does to the outputs of its own stage.
LEMMA WorkElsewhere ==
  ASSUME Typed, pc = "child",
         Wreck \/ \E c \in OnSuccess[stage] : Content(niche, stage, c)
  PROVE  \A n \in Niches, s \in Stages :
            ~(n = niche /\ s = stage) => out'[n][s] = out[n][s]
<1>1. CASE Wreck
  BY <1>1, WreckElsewhere
<1>2. ASSUME NEW c \in OnSuccess[stage], Content(niche, stage, c)
      PROVE  \A n \in Niches, s \in Stages :
                ~(n = niche /\ s = stage) => out'[n][s] = out[n][s]
  BY <1>2, ReadBack, Current DEF Typed, TypeOK, Content
<1>. QED
  BY <1>1, <1>2

LEMMA WorkNext == WorkInv /\ [Next]_vars => WorkInv'
<1> SUFFICES ASSUME WorkInv, [Next]_vars PROVE WorkInv'
  OBVIOUS
<1>0. Typed /\ Typed'
  BY TypeNext DEF WorkInv
<1> USE <1>0 DEF WorkInv, NoCheckpointUnderWork, MarkIsJustified,
                 SweepCovers, ForcedLoopIsClean, Vouches, Complete, niche
<1>1. CASE Invoke
  BY <1>1 DEF Invoke
<1>2. CASE NextNiche
  BY <1>2, HeadTail DEF NextNiche, Typed, TypeOK
<1>3. CASE NoNicheLeft
  BY <1>3 DEF NoNicheLeft, Exit
<1>4. CASE ClearOne
  <2>1. PICK s \in unswept : File(niche, s, "absent") /\ unswept' = unswept \ {s}
    BY <1>4 DEF ClearOne
  <2>2. s \in Stages /\ niche \in Niches
    BY <1>4, <2>1, Current DEF ClearOne, Typed, TypeOK
  <2>3. \A n \in Niches, t \in Stages :
           ckpt'[n][t] = IF n = niche /\ t = s THEN "absent" ELSE ckpt[n][t]
    BY <2>1, <2>2, ReadBack DEF File, Typed, TypeOK
  <2>. QED
    BY <1>4, <2>1, <2>2, <2>3 DEF ClearOne
<1>5. CASE ClearFails
  <2>1. PICK s \in unswept :
           unswept' = unswept \ {s} /\ survivors' = survivors \cup {<<niche, s>>}
    BY <1>5 DEF ClearFails
  <2>. QED
    BY <1>5, <2>1 DEF ClearFails
<1>6. CASE Cleared
  BY <1>6 DEF Cleared
<1>7. CASE Skip
  BY <1>7 DEF Skip
<1>8. CASE StartStage
  <2>1. stage \in Stages /\ stage >= stage
    BY <1>8 DEF StartStage, Stages
  <2>. QED
    BY <1>8, <2>1 DEF StartStage
<1>9. CASE NicheDone
  BY <1>9 DEF NicheDone
<1>10. CASE ChildSucceeds
  BY <1>10, WorkElsewhere DEF ChildSucceeds
<1>11. CASE ChildRetried
  BY <1>11, WreckElsewhere DEF ChildRetried
<1>12. CASE ChildExhausted
  <2>1. \A n \in Niches, t \in Stages :
           ~(n = niche /\ t = stage) => out'[n][t] = out[n][t]
    BY <1>12, WreckElsewhere DEF ChildExhausted
  <2>2. \A t \in Stages : t >= stage + 1 => t >= stage
    BY <1>12, Current DEF ChildExhausted, Stages
  <2>. QED
    BY <1>12, <2>1, <2>2, Current DEF ChildExhausted, StageFailed
<1>13. CASE ChildNotRun
  <2>1. \A n \in Niches, t \in Stages :
           ~(n = niche /\ t = stage) => out'[n][t] = out[n][t]
    BY <1>13, WreckElsewhere DEF ChildNotRun
  <2>2. \A t \in Stages : t >= stage + 1 => t >= stage
    BY <1>13, Current DEF ChildNotRun, Stages
  <2>. QED
    BY <1>13, <2>1, <2>2, Current DEF ChildNotRun, StageFailed
<1>14. CASE ValidatePasses
  <2>1. \A n \in Niches, t \in Stages :
           ckpt'[n][t] = IF n = niche /\ t = stage THEN "torn" ELSE ckpt[n][t]
    BY <1>14, Current, ReadBack DEF ValidatePasses, File, Typed, TypeOK
  <2>. QED
    BY <1>14, <2>1, Current DEF ValidatePasses
<1>15. CASE ValidateFails
  BY <1>15 DEF ValidateFails
<1>16. CASE ValidateRaises
  BY <1>16 DEF ValidateRaises, Exit
<1>17. CASE MarkWritten
  <2>1. \A n \in Niches, t \in Stages :
           ckpt'[n][t] = IF n = niche /\ t = stage THEN "valid" ELSE ckpt[n][t]
    BY <1>17, Current, ReadBack DEF MarkWritten, File, Typed, TypeOK
  <2>2. \A t \in Stages : t >= stage + 1 => t >= stage /\ t # stage
    BY <1>17, Current DEF MarkWritten, Stages
  <2>. QED
    BY <1>17, <2>1, <2>2, Current DEF MarkWritten
<1>18. CASE MarkRaises
  BY <1>18 DEF MarkRaises, Exit
<1>19. CASE Crash
  BY <1>19, WreckElsewhere DEF Crash, Exit
<1>20. CASE UNCHANGED vars
  BY <1>20 DEF vars
<1>. QED
  BY <1>1, <1>2, <1>3, <1>4, <1>5, <1>6, <1>7, <1>8, <1>9, <1>10, <1>11,
     <1>12, <1>13, <1>14, <1>15, <1>16, <1>17, <1>18, <1>19, <1>20
     DEF Next, Runner

\* A step that works on outputs does so under no checkpoint that counts, and a
\* checkpoint is only written over outputs that were just accepted.
LEMMA InvNext == IInv /\ [Next]_vars => IInv'
<1> SUFFICES ASSUME IInv, [Next]_vars PROVE CheckpointsVouch'
  BY WorkNext DEF IInv
<1>0. WorkInv /\ Typed /\ CheckpointsVouch
  BY DEF IInv, WorkInv
<1> USE <1>0 DEF CheckpointsVouch, Vouches, Complete
<1>1. CASE UNCHANGED <<ckpt, survivors, out>>
  BY <1>1
<1>2. CASE ClearOne
  <2>1. PICK s \in unswept :
           File(niche, s, "absent") /\ survivors' = survivors \ {<<niche, s>>}
    BY <1>2 DEF ClearOne
  <2>2. s \in Stages /\ niche \in Niches
    BY <1>2, <2>1, Current DEF ClearOne, Typed, TypeOK
  <2>3. \A n \in Niches, t \in Stages :
           ckpt'[n][t] = IF n = niche /\ t = s THEN "absent" ELSE ckpt[n][t]
    BY <2>1, <2>2, ReadBack DEF File, Typed, TypeOK
  <2>. QED
    BY <1>2, <2>1, <2>3 DEF ClearOne
<1>3. CASE ClearFails
  <2>1. PICK s \in unswept : survivors' = survivors \cup {<<niche, s>>}
    BY <1>3 DEF ClearFails
  <2>. QED
    BY <1>3, <2>1 DEF ClearFails
<1>4. CASE pc = "child" /\ UNCHANGED <<ckpt, survivors>>
           /\ (Wreck \/ \E c \in OnSuccess[stage] : Content(niche, stage, c))
  <2>1. ~Vouches(niche, stage)
    BY <1>4 DEF WorkInv, NoCheckpointUnderWork
  <2>2. \A n \in Niches, t \in Stages :
           ~(n = niche /\ t = stage) => out'[n][t] = out[n][t]
    BY <1>4, WorkElsewhere
  <2>. QED
    BY <1>4, <2>1, <2>2
<1>5. CASE ValidatePasses
  <2>1. \A n \in Niches, t \in Stages :
           ckpt'[n][t] = IF n = niche /\ t = stage THEN "torn" ELSE ckpt[n][t]
    BY <1>5, Current, ReadBack DEF ValidatePasses, File, Typed, TypeOK
  <2>. QED
    BY <1>5, <2>1 DEF ValidatePasses
<1>6. CASE MarkWritten
  <2>1. \A n \in Niches, t \in Stages :
           ckpt'[n][t] = IF n = niche /\ t = stage THEN "valid" ELSE ckpt[n][t]
    BY <1>6, Current, ReadBack DEF MarkWritten, File, Typed, TypeOK
  <2>. QED
    BY <1>6, <2>1 DEF MarkWritten, WorkInv, MarkIsJustified
<1>. QED
  BY <1>1, <1>2, <1>3, <1>4, <1>5, <1>6
     DEF Next, Runner, vars, Invoke, NextNiche, NoNicheLeft, Cleared, Skip, StartStage,
     NicheDone, ChildSucceeds, ChildRetried, ChildExhausted, ChildNotRun, ValidateFails,
     ValidateRaises, MarkRaises, Crash

\* Whatever fails, is killed, retried or forced: a checkpoint on disk vouches
\* for outputs that pass validation, but for a file that could not be removed
\* (is_complete, mark_complete, clear_all_checkpoints).
THEOREM CheckpointsAlwaysVouch == Spec => []CheckpointsVouch
<1>. IInv => CheckpointsVouch
  BY DEF IInv
<1>. QED
  BY InvInit, InvNext, PTL DEF Spec

-----------------------------------------------------------------------------
(* Only a forced invocation discards a checkpoint                           *)

\* Without --force no stage that has a checkpoint is at work; this much holds
\* even when files cannot be removed.
UnforcedWorkIsNew ==
    pc \in {"child", "validate", "mark"} /\ ~flags.force => ~Complete(niche, stage)

SweepIsForced == pc = "clear" => flags.force

KInv == Typed /\ UnforcedWorkIsNew /\ SweepIsForced

LEMMA KInvNext == KInv /\ [Next]_vars => KInv'
<1> SUFFICES ASSUME KInv, [Next]_vars PROVE KInv'
  OBVIOUS
<1>0. Typed /\ Typed'
  BY TypeNext DEF KInv
<1> USE <1>0 DEF KInv, UnforcedWorkIsNew, SweepIsForced, Complete, niche
<1>1. CASE Invoke
  BY <1>1 DEF Invoke
<1>2. CASE NextNiche
  BY <1>2 DEF NextNiche
<1>3. CASE NoNicheLeft
  BY <1>3 DEF NoNicheLeft, Exit
<1>4. CASE ClearOne
  BY <1>4 DEF ClearOne
<1>5. CASE ClearFails
  BY <1>5 DEF ClearFails
<1>6. CASE Cleared
  BY <1>6 DEF Cleared
<1>7. CASE Skip
  BY <1>7 DEF Skip
<1>8. CASE StartStage
  BY <1>8 DEF StartStage
<1>9. CASE NicheDone
  BY <1>9 DEF NicheDone
<1>10. CASE ChildSucceeds
  BY <1>10 DEF ChildSucceeds
<1>11. CASE ChildRetried
  BY <1>11 DEF ChildRetried
<1>12. CASE ChildExhausted
  BY <1>12 DEF ChildExhausted, StageFailed
<1>13. CASE ChildNotRun
  BY <1>13 DEF ChildNotRun, StageFailed
<1>14. CASE ValidatePasses
  <2>1. ckpt'[niche][stage] = "torn"
    BY <1>14, Current, ReadBack DEF ValidatePasses, File, Typed, TypeOK
  <2>. QED
    BY <1>14, <2>1 DEF ValidatePasses
<1>15. CASE ValidateFails
  BY <1>15 DEF ValidateFails
<1>16. CASE ValidateRaises
  BY <1>16 DEF ValidateRaises, Exit
<1>17. CASE MarkWritten
  BY <1>17 DEF MarkWritten
<1>18. CASE MarkRaises
  BY <1>18 DEF MarkRaises, Exit
<1>19. CASE Crash
  BY <1>19 DEF Crash, Exit
<1>20. CASE UNCHANGED vars
  BY <1>20 DEF vars
<1>. QED
  BY <1>1, <1>2, <1>3, <1>4, <1>5, <1>6, <1>7, <1>8, <1>9, <1>10, <1>11,
     <1>12, <1>13, <1>14, <1>15, <1>16, <1>17, <1>18, <1>19, <1>20
     DEF Next, Runner

\* What one step keeps when the invocation in charge is not forced.
Kept == \A n \in Niches, s \in Stages :
           Complete(n, s) /\ ~flags'.force
              => /\ ckpt'[n][s] = "valid"
                 /\ out'[n][s] = out[n][s]

LEMMA KeptByStep == KInv /\ [Next]_vars => Kept
<1> SUFFICES ASSUME KInv, [Next]_vars PROVE Kept
  OBVIOUS
<1>0. Typed
  BY DEF KInv
<1> USE <1>0 DEF KInv, UnforcedWorkIsNew, SweepIsForced, Complete, Kept
<1>1. CASE ckpt' = ckpt /\ out' = out
  BY <1>1
<1>2. CASE ClearOne
  BY <1>2 DEF ClearOne
<1>3. CASE ChildSucceeds
  BY <1>3, WorkElsewhere DEF ChildSucceeds
<1>4. CASE pc = "child" /\ Wreck /\ UNCHANGED <<ckpt, flags>>
  BY <1>4, WreckElsewhere
<1>5. CASE ValidatePasses \/ MarkWritten
  <2>1. PICK f : File(niche, stage, f)
    BY <1>5 DEF ValidatePasses, MarkWritten
  <2>2. \A n \in Niches, t \in Stages :
           ~(n = niche /\ t = stage) => ckpt'[n][t] = ckpt[n][t]
    BY <1>5, <2>1, Current, ReadBack DEF ValidatePasses, MarkWritten, File, Typed, TypeOK
  <2>. QED
    BY <1>5, <2>2 DEF ValidatePasses, MarkWritten
<1>6. \/ ckpt' = ckpt /\ out' = out
      \/ ClearOne \/ ChildSucceeds \/ ValidatePasses \/ MarkWritten
      \/ pc = "child" /\ Wreck /\ UNCHANGED <<ckpt, flags>>
  BY DEF Next, Runner, vars, Invoke, NextNiche, NoNicheLeft, ClearFails, Cleared,
     Skip, StartStage, NicheDone, ChildRetried, ChildExhausted, ChildNotRun,
     ValidateFails, ValidateRaises, MarkRaises, Crash
<1>. QED
  BY <1>1, <1>2, <1>3, <1>4, <1>5, <1>6

\* Without --force, no step of the runner takes back a checkpoint or touches the
\* outputs it vouches for, even when files cannot be removed (run(): the skip of
\* a completed stage, the retries and the failures of the others).
THEOREM OnlyForceDiscardsCheckpoints == Spec => OnlyForceDiscards
<1>1. Init => KInv
  BY TypeInit DEF Init, KInv, UnforcedWorkIsNew, SweepIsForced
<1>2. KInv /\ [Next]_vars => [Kept]_vars
  BY KeptByStep
<1>. QED
  BY <1>1, <1>2, KInvNext, PTL DEF Spec, OnlyForceDiscards, Kept

-----------------------------------------------------------------------------
(* What an invocation did is not undone while it lasts                      *)

\* No niche is visited twice by an invocation (_load_niches, run).
VisitedOnce ==
    \A i, j \in 1..Len(queue) : queue[i] = queue[j] => i = j

\* Nothing has been noted of a niche whose stage loop has not begun.
AheadUnseen ==
    \A i \in 1..Len(queue) :
       i > 1 \/ pc \in {"niche", "clear"}
         => \A s \in Stages : result[queue[i]][s] = "unseen"

\* In a stage loop, nothing has been noted of the stage at hand and of the later
\* ones, and no stage of the niche was rejected.
LoopUnseen ==
    pc \in {"loop", "child", "validate", "mark"} =>
       \A s \in Stages :
          /\ s >= stage => result[niche][s] = "unseen"
          /\ result[niche][s] # "rejected"

RInv ==
    /\ Typed
    /\ VisitedOnce
    /\ AheadUnseen
    /\ LoopUnseen
    /\ RejectionAbandonsNiche
    /\ ProgressIsKept

LEMMA RInvInit == Init => RInv
  BY TypeInit DEF Init, RInv, VisitedOnce, AheadUnseen, LoopUnseen,
     RejectionAbandonsNiche, ProgressIsKept

LEMMA Positions ==
  ASSUME NEW S, NEW q \in Seq(S), q # <<>>
  PROVE  /\ Len(q) \in Nat /\ 1 \in 1..Len(q) /\ Head(q) = q[1]
         /\ Len(Tail(q)) = Len(q) - 1
         /\ \A i \in 1..Len(Tail(q)) : i + 1 \in 1..Len(q) /\ Tail(q)[i] = q[i + 1]
  OBVIOUS

\* The queue of an invocation: one niche, or the configured ones.
LEMMA FreshQueue ==
  ASSUME NEW q \in {<<n>> : n \in Niches} \cup {NicheOrder}
  PROVE  \A i, j \in 1..Len(q) : q[i] = q[j] => i = j
<1>1. CASE q = NicheOrder
  BY <1>1, DistinctNiches
<1>2. CASE q \in {<<n>> : n \in Niches}
  BY <1>2
<1>. QED
  BY <1>1, <1>2

\* Moving on to the next niche keeps what is known of the niches ahead.
LEMMA QueueMovesOn ==
  ASSUME RInv, queue # <<>>, queue' = Tail(queue),
         \A n \in Niches, s \in Stages : n # niche => result'[n][s] = result[n][s]
  PROVE  /\ VisitedOnce'
         /\ \A i \in 1..Len(queue') : \A s \in Stages : result'[queue'[i]][s] = "unseen"
<1>. DEFINE q == Tail(queue)
<1>1. queue \in Seq(Niches)
  BY DEF RInv, Typed, TypeOK
<1>2. /\ \A i \in 1..Len(q) : i + 1 \in 1..Len(queue) /\ q[i] = queue[i + 1]
      /\ 1 \in 1..Len(queue) /\ niche = queue[1]
  BY <1>1, Positions DEF niche
<1>3. \A i \in 1..Len(q) : i \in Nat /\ i + 1 > 1
  OBVIOUS
<1>4. \A i, j \in 1..Len(q) : q[i] = q[j] => i = j
  <2>1. \A i, j \in 1..Len(q) : q[i] = q[j] => i + 1 = j + 1
    BY <1>2 DEF RInv, VisitedOnce
  <2>. QED
    BY <2>1, <1>3
<1>5. ASSUME NEW i \in 1..Len(q), NEW s \in Stages
      PROVE  result'[q[i]][s] = "unseen"
  <2>1. q[i] # niche /\ q[i] \in Niches
    BY <1>1, <1>2, <1>3 DEF RInv, VisitedOnce
  <2>2. result[q[i]][s] = "unseen"
    BY <1>2, <1>3 DEF RInv, AheadUnseen
  <2>. QED
    BY <2>1, <2>2
<1>. QED
  BY <1>4, <1>5 DEF VisitedOnce

\* Noting something of the current niche says nothing of the niches ahead.
LEMMA AheadKept ==
  ASSUME RInv, pc \notin {"idle", "niche"}, queue' = queue,
         \A n \in Niches, s \in Stages : n # niche => result'[n][s] = result[n][s]
  PROVE  /\ VisitedOnce'
         /\ \A i \in 1..Len(queue) :
               i > 1 => \A s \in Stages : result'[queue[i]][s] = "unseen"
<1>1. queue \in Seq(Niches) /\ queue # <<>>
  BY DEF RInv, Typed, TypeOK, Busy, PCs
<1>2. niche = queue[1] /\ 1 \in 1..Len(queue)
  BY <1>1, Positions DEF niche
<1>3. ASSUME NEW i \in 1..Len(queue), i > 1, NEW s \in Stages
      PROVE  result'[queue[i]][s] = "unseen"
  <2>1. queue[i] # niche /\ queue[i] \in Niches
    BY <1>1, <1>2, <1>3 DEF RInv, VisitedOnce
  <2>. QED
    BY <1>3, <2>1 DEF RInv, AheadUnseen
<1>. QED
  BY <1>3 DEF RInv, VisitedOnce

\* The exits leave the history and the files alone.
LEMMA ExitKeeps ==
  ASSUME RInv, Typed', Exit, ckpt' = ckpt,
         RejectionAbandonsNiche', ProgressIsKept'
  PROVE  RInv'
  BY DEF RInv, Exit, VisitedOnce, AheadUnseen, LoopUnseen

\* What a step notes of the stage at hand, r, and what follows for the rest.
LEMMA NoteReads ==
  ASSUME Typed, niche \in Niches, stage \in Stages, NEW r, Note(niche, stage, r)
  PROVE  \A n \in Niches, s \in Stages :
            result'[n][s] = IF n = niche /\ s = stage THEN r ELSE result[n][s]
  BY ReadBack DEF Note, Typed, TypeOK

\* A note other than "rejected" in the loop, after which the loop goes on.
LEMMA LoopGoesOn ==
  ASSUME RInv, Typed', pc \in {"loop", "child", "mark"}, stage \in Stages,
         NEW r \in {"skipped", "done", "failed"}, Note(niche, stage, r),
         r \in {"done", "skipped"} => ckpt'[niche][stage] = "valid",
         \A n \in Niches, s \in Stages :
            ~(n = niche /\ s = stage) => ckpt'[n][s] = ckpt[n][s],
         stage' = stage + 1, pc' = "loop", queue' = queue
  PROVE  RInv'
<1>1. Typed /\ niche \in Niches /\ niche' = niche
  BY Current DEF RInv, niche
<1>2. \A n \in Niches, s \in Stages :
         result'[n][s] = IF n = niche /\ s = stage THEN r ELSE result[n][s]
  BY <1>1, NoteReads
<1>3. VisitedOnce' /\ AheadUnseen'
  BY <1>2, AheadKept DEF AheadUnseen
<1>4. LoopUnseen'
  <2>1. \A s \in Stages : s >= stage + 1 => s >= stage /\ s # stage
    BY DEF Stages
  <2>. QED
    BY <1>1, <1>2, <2>1 DEF RInv, LoopUnseen
<1>5. RejectionAbandonsNiche'
  BY <1>1, <1>2 DEF RInv, RejectionAbandonsNiche, LoopUnseen
<1>6. ProgressIsKept'
  BY <1>1, <1>2 DEF RInv, ProgressIsKept, Complete
<1>. QED
  BY <1>3, <1>4, <1>5, <1>6 DEF RInv

\* The outputs of the stage at hand are rejected: what is noted of the niche.
LEMMA RejectionNoted ==
  ASSUME RInv, pc = "validate", Note(niche, stage, "rejected"), ckpt' = ckpt
  PROVE  /\ RejectionAbandonsNiche' /\ ProgressIsKept'
         /\ \A n \in Niches, s \in Stages : n # niche => result'[n][s] = result[n][s]
<1>1. Typed /\ niche \in Niches /\ stage \in Stages
  BY Current DEF RInv
<1>2. \A n \in Niches, s \in Stages :
         result'[n][s] = IF n = niche /\ s = stage THEN "rejected" ELSE result[n][s]
  BY <1>1, NoteReads
<1>3. RejectionAbandonsNiche'
  <2>1. \A t \in Stages : t > stage => t >= stage /\ t # stage
    BY <1>1 DEF Stages
  <2>. QED
    BY <1>1, <1>2, <2>1 DEF RInv, RejectionAbandonsNiche, LoopUnseen
<1>4. ProgressIsKept'
  BY <1>2 DEF RInv, ProgressIsKept, Complete
<1>. QED
  BY <1>2, <1>3, <1>4

LEMMA RInvNext == RInv /\ [Next]_vars => RInv'
<1> SUFFICES ASSUME RInv, [Next]_vars PROVE RInv'
  OBVIOUS
<1>0. Typed /\ Typed'
  BY TypeNext DEF RInv
<1>1. CASE Invoke
  <2>1. \A n \in Niches, s \in Stages : result'[n][s] = "unseen"
    BY <1>1 DEF Invoke
  <2>2. VisitedOnce' /\ queue' \in Seq(Niches)
    BY <1>0, <1>1, FreshQueue DEF Invoke, VisitedOnce, Typed, TypeOK
  <2>3. \A i \in 1..Len(queue') : queue'[i] \in Niches
    BY <2>2
  <2>. QED
    BY <1>0, <1>1, <2>1, <2>2, <2>3 DEF Invoke, RInv, AheadUnseen, LoopUnseen,
       RejectionAbandonsNiche, ProgressIsKept
<1>2. CASE NextNiche \/ Cleared
  <2>1. /\ queue # <<>> /\ queue \in Seq(Niches) /\ pc \in {"niche", "clear"}
        /\ UNCHANGED <<ckpt, queue, result>>
    BY <1>0, <1>2 DEF NextNiche, Cleared, Typed, TypeOK, Busy
  <2>2. \A s \in Stages : result[niche][s] = "unseen"
    BY <2>1, Positions DEF RInv, AheadUnseen, niche
  <2>3. pc' \in {"clear", "loop"}
    BY <1>2 DEF NextNiche, Cleared
  <2>. QED
    BY <1>0, <2>1, <2>2, <2>3 DEF RInv, VisitedOnce, AheadUnseen, LoopUnseen,
       RejectionAbandonsNiche, ProgressIsKept, Complete, niche
<1>3. CASE NoNicheLeft \/ MarkRaises \/ Crash
  BY <1>0, <1>3, ExitKeeps DEF NoNicheLeft, MarkRaises, Crash, RInv,
     RejectionAbandonsNiche, ProgressIsKept, Complete
<1>4. CASE ClearOne
  <2>1. PICK s \in unswept : File(niche, s, "absent")
    BY <1>4 DEF ClearOne
  <2>2. s \in Stages /\ niche \in Niches
    BY <1>0, <1>4, <2>1, Current DEF ClearOne, Typed, TypeOK
  <2>3. \A n \in Niches, t \in Stages :
           n # niche => ckpt'[n][t] = ckpt[n][t]
    BY <1>0, <2>1, <2>2, ReadBack DEF File, Typed, TypeOK
  <2>4. \A t \in Stages : result[niche][t] = "unseen"
    <3>1. queue # <<>> /\ queue \in Seq(Niches)
      BY <1>0, <1>4 DEF ClearOne, Typed, TypeOK, Busy
    <3>. QED
      BY <1>4, <3>1, Positions DEF ClearOne, RInv, AheadUnseen, niche
  <2>5. ProgressIsKept'
    BY <1>4, <2>3, <2>4 DEF ClearOne, RInv, ProgressIsKept, Complete
  <2>. QED
    BY <1>0, <1>4, <2>5 DEF ClearOne, RInv, VisitedOnce, AheadUnseen, LoopUnseen,
       RejectionAbandonsNiche
<1>5. CASE ClearFails
  BY <1>0, <1>5 DEF ClearFails, RInv, VisitedOnce, AheadUnseen, LoopUnseen,
     RejectionAbandonsNiche, ProgressIsKept, Complete
<1>6. CASE Skip
  BY <1>0, <1>6, LoopGoesOn DEF Skip, Complete
<1>7. CASE StartStage \/ ChildSucceeds \/ ChildRetried \/ UNCHANGED vars
  BY <1>0, <1>7 DEF StartStage, ChildSucceeds, ChildRetried, vars, RInv, VisitedOnce,
     AheadUnseen, LoopUnseen, RejectionAbandonsNiche, ProgressIsKept, Complete, niche
<1>8. CASE NicheDone
  <2>1. queue # <<>>
    BY <1>0, <1>8 DEF NicheDone, Typed, Busy
  <2>2. VisitedOnce' /\ AheadUnseen'
    BY <1>8, <2>1, QueueMovesOn DEF NicheDone, AheadUnseen
  <2>. QED
    BY <1>0, <1>8, <2>2 DEF NicheDone, RInv, LoopUnseen, RejectionAbandonsNiche,
       ProgressIsKept, Complete
<1>9. CASE ChildExhausted \/ ChildNotRun
  <2>1. stage \in Stages
    BY <1>0, <1>9 DEF ChildExhausted, ChildNotRun, Typed, Busy
  <2>. QED
    BY <1>0, <1>9, <2>1, LoopGoesOn DEF ChildExhausted, ChildNotRun, StageFailed
<1>10. CASE ValidatePasses
  <2>1. stage \in Stages /\ niche \in Niches /\ stage >= stage
    BY <1>0, <1>10, Current DEF ValidatePasses, Stages
  <2>2. \A n \in Niches, t \in Stages :
           ~(n = niche /\ t = stage) => ckpt'[n][t] = ckpt[n][t]
    BY <1>0, <1>10, <2>1, ReadBack DEF ValidatePasses, File, Typed, TypeOK
  <2>3. result[niche][stage] = "unseen"
    BY <1>10, <2>1 DEF ValidatePasses, RInv, LoopUnseen
  <2>4. ProgressIsKept'
    BY <1>10, <2>2, <2>3 DEF ValidatePasses, RInv, ProgressIsKept, Complete
  <2>. QED
    BY <1>0, <1>10, <2>4 DEF ValidatePasses, RInv, VisitedOnce, AheadUnseen,
       LoopUnseen, RejectionAbandonsNiche, niche
<1>11. CASE ValidateFails
  <2>1. queue # <<>>
    BY <1>0, <1>11 DEF ValidateFails, Typed, Busy
  <2>2. /\ RejectionAbandonsNiche' /\ ProgressIsKept'
        /\ \A n \in Niches, s \in Stages : n # niche => result'[n][s] = result[n][s]
    BY <1>11, RejectionNoted DEF ValidateFails
  <2>3. VisitedOnce' /\ AheadUnseen'
    BY <1>11, <2>1, <2>2, QueueMovesOn DEF ValidateFails, AheadUnseen
  <2>. QED
    BY <1>0, <1>11, <2>2, <2>3 DEF ValidateFails, RInv, LoopUnseen
<1>12. CASE ValidateRaises
  BY <1>0, <1>12, RejectionNoted, ExitKeeps DEF ValidateRaises
<1>13. CASE MarkWritten
  <2>1. stage \in Stages /\ niche \in Niches
    BY <1>0, <1>13, Current DEF MarkWritten
  <2>2. \A n \in Niches, t \in Stages :
           ckpt'[n][t] = IF n = niche /\ t = stage THEN "valid" ELSE ckpt[n][t]
    BY <1>0, <1>13, <2>1, ReadBack DEF MarkWritten, File, Typed, TypeOK
  <2>. QED
    BY <1>0, <1>13, <2>1, <2>2, LoopGoesOn DEF MarkWritten
<1>. QED
  BY <1>1, <1>2, <1>3, <1>4, <1>5, <1>6, <1>7, <1>8, <1>9, <1>10, <1>11,
     <1>12, <1>13 DEF Next, Runner

\* After a validation failure no later stage of the niche is run, skipped or
\* checkpointed by the same invocation (run(), the break), for any order of niches.
THEOREM RejectedNichesAreAbandoned == Spec => []RejectionAbandonsNiche
<1>. RInv => RejectionAbandonsNiche
  BY DEF RInv
<1>. QED
  BY RInvInit, RInvNext, PTL DEF Spec

\* What an invocation ran or skipped has its checkpoint until the invocation ends:
\* no sweep of another niche and no later stage takes it back (run(), clear_all_checkpoints).
THEOREM ProgressAlwaysKept == Spec => []ProgressIsKept
<1>. RInv => ProgressIsKept
  BY DEF RInv
<1>. QED
  BY RInvInit, RInvNext, PTL DEF Spec

-----------------------------------------------------------------------------
(* The refinement of StageLedger                                            *)

LEMMA LedgerInit == Init => Ledger!Init
  BY PipelineAssumption DEF Init, Ledger!Init, Vouches, Complete

LEMMA LedgerStep ==
  IInv /\ IInv' /\ [Next]_vars => [Ledger!Next]_(Ledger!vars)
<1> SUFFICES ASSUME IInv, IInv', [Next]_vars
             PROVE  [Ledger!Next]_(Ledger!vars)
  OBVIOUS
<1> DEFINE certified == {e \in Niches \X Stages : Vouches(e[1], e[2])}
           sound     == {e \in Niches \X Stages : out[e[1]][e[2]] = "valid"}
           here      == <<niche, stage>>
<1>0. WorkInv /\ Typed /\ Typed'
  BY DEF IInv, WorkInv
<1> USE <1>0
<1>1. CASE Invoke
  <2>1. certified' = certified /\ sound' = sound
    BY <1>1 DEF Invoke, Vouches, Complete
  <2>2. flags'.force \in BOOLEAN
    BY FlagTypes DEF Typed, TypeOK
  <2>. QED
    BY <2>1, <2>2 DEF Ledger!Next, Ledger!TakeOver
<1>2. CASE UNCHANGED <<ckpt, survivors, out, flags>>
  BY <1>2 DEF Ledger!vars, Vouches, Complete
<1>3. CASE ClearOne
  <2>1. PICK s \in unswept :
           File(niche, s, "absent") /\ survivors' = survivors \ {<<niche, s>>}
    BY <1>3 DEF ClearOne
  <2>2. s \in Stages /\ niche \in Niches
    BY <1>3, <2>1, Current DEF ClearOne, Typed, TypeOK
  <2>3. \A n \in Niches, t \in Stages :
           ckpt'[n][t] = IF n = niche /\ t = s THEN "absent" ELSE ckpt[n][t]
    BY <2>1, <2>2, ReadBack DEF File, Typed, TypeOK
  <2>6. \A n \in Niches, t \in Stages :
           Vouches(n, t)' <=> Vouches(n, t) /\ ~(n = niche /\ t = s)
    BY <2>1, <2>3 DEF Vouches, Complete
  <2>4. certified' = certified \ {<<niche, s>>}
    BY <2>2, <2>6
  <2>5. sound' = sound /\ flags' = flags /\ flags.force
    BY <1>3 DEF ClearOne, WorkInv, SweepCovers
  <2>. QED
    BY <2>2, <2>4, <2>5 DEF Ledger!Next, Ledger!Revoke
<1>4. CASE pc = "child" /\ UNCHANGED <<ckpt, survivors, flags>>
           /\ (Wreck \/ \E c \in OnSuccess[stage] : Content(niche, stage, c))
  <2>1. here \in Niches \X Stages /\ here \notin certified
    BY <1>4, Current DEF WorkInv, NoCheckpointUnderWork
  <2>2. \A n \in Niches, t \in Stages :
           ~(n = niche /\ t = stage) => out'[n][t] = out[n][t]
    BY <1>4, WorkElsewhere
  <2>3. certified' = certified /\ flags' = flags
    BY <1>4 DEF Vouches, Complete
  <2>4. sound' \in {sound \cup {here}, sound \ {here}}
    BY <2>1, <2>2
  <2>. QED
    BY <2>1, <2>3, <2>4 DEF Ledger!Next, Ledger!Work
<1>5. CASE ValidatePasses
  <2>1. \A n \in Niches, t \in Stages :
           ckpt'[n][t] = IF n = niche /\ t = stage THEN "torn" ELSE ckpt[n][t]
    BY <1>5, Current, ReadBack DEF ValidatePasses, File, Typed, TypeOK
  <2>2. ~Vouches(niche, stage)
    BY <1>5 DEF ValidatePasses, WorkInv, NoCheckpointUnderWork
  <2>3. \A n \in Niches, t \in Stages : Vouches(n, t)' <=> Vouches(n, t)
    BY <1>5, <2>1, <2>2 DEF ValidatePasses, Vouches, Complete
  <2>4. certified' = certified
    BY <2>3
  <2>. QED
    BY <1>5, <2>4 DEF ValidatePasses, Ledger!vars
<1>6. CASE MarkWritten
  <2>1. niche \in Niches /\ stage \in Stages /\ here \in sound
    BY <1>6, Current DEF MarkWritten, WorkInv, MarkIsJustified
  <2>2. \A n \in Niches, t \in Stages :
           ckpt'[n][t] = IF n = niche /\ t = stage THEN "valid" ELSE ckpt[n][t]
    BY <1>6, Current, ReadBack DEF MarkWritten, File, Typed, TypeOK
  <2>5. <<niche, stage>> \notin survivors
    BY <1>6 DEF MarkWritten, WorkInv, MarkIsJustified
  <2>6. \A n \in Niches, t \in Stages :
           Vouches(n, t)' <=> Vouches(n, t) \/ (n = niche /\ t = stage)
    BY <1>6, <2>2, <2>5 DEF MarkWritten, Vouches, Complete
  <2>3. certified' = certified \cup {here}
    BY <2>1, <2>6
  <2>4. sound' = sound /\ flags' = flags
    BY <1>6 DEF MarkWritten
  <2>. QED
    BY <2>1, <2>3, <2>4 DEF Ledger!Next, Ledger!Certify
<1>7. \/ Invoke \/ ClearOne \/ ClearFails \/ ValidatePasses \/ MarkWritten
      \/ UNCHANGED <<ckpt, survivors, out, flags>>
      \/ pc = "child" /\ UNCHANGED <<ckpt, survivors, flags>>
           /\ (Wreck \/ \E c \in OnSuccess[stage] : Content(niche, stage, c))
  BY DEF Next, Runner, vars, NextNiche, NoNicheLeft, Cleared,
     Skip, StartStage, NicheDone, ChildSucceeds, ChildRetried, ChildExhausted,
     ChildNotRun, StageFailed, ValidateFails, ValidateRaises, MarkRaises, Crash
<1>8. CASE ClearFails
  <2>1. PICK s \in unswept : survivors' = survivors \cup {<<niche, s>>}
    BY <1>8 DEF ClearFails
  <2>2. s \in Stages /\ niche \in Niches
    BY <1>8, <2>1, Current DEF ClearFails, Typed, TypeOK
  <2>5. \A n \in Niches, t \in Stages :
           Vouches(n, t)' <=> Vouches(n, t) /\ ~(n = niche /\ t = s)
    BY <1>8, <2>1 DEF ClearFails, Vouches, Complete
  <2>3. certified' = certified \ {<<niche, s>>}
    BY <2>2, <2>5
  <2>4. sound' = sound /\ flags' = flags /\ flags.force
    BY <1>8 DEF ClearFails, WorkInv, SweepCovers
  <2>. QED
    BY <2>2, <2>3, <2>4 DEF Ledger!Next, Ledger!Revoke
<1>. QED
  BY <1>1, <1>2, <1>3, <1>4, <1>5, <1>6, <1>7, <1>8

\* The runner with its files implements the ledger: it only works on outputs
\* that no checkpoint vouches for, certifies what the validator accepted, and
\* revokes only under --force (run, _run_stage, mark_complete,
\* clear_all_checkpoints).
THEOREM PipelineImplementsLedger == Spec => ImplementsLedger
<1>. QED
  BY InvInit, InvNext, LedgerInit, LedgerStep, PTL DEF Spec, ImplementsLedger, Ledger!Spec

=============================================================================
