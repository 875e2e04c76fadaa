---------------------------- MODULE ShippedProofs ----------------------------
(***************************************************************************)
(* Proofs about ShippedPipeline, for any niches, retry count and number of *)
(* invocations, scripts killed at any write, and any commands given by     *)
(* hand in between: types, that the scripts do not interfere, and what     *)
(* commands given by hand can undermine.                                   *)
(***************************************************************************)
EXTENDS ShippedPipeline, PipelineProofs

-----------------------------------------------------------------------------
(* The stages, the scripts and the validators *)

LEMMA StageNames ==
  /\ StageCount = 7 /\ Stages = {1, 2, 3, 4, 5, 6, 7}
  /\ STAGES[1] = "data_prep" /\ STAGES[2] = "synthetic_data" /\ STAGES[3] = "dedup"
  /\ STAGES[4] = "train" /\ STAGES[5] = "evaluate" /\ STAGES[6] = "distill"
  /\ STAGES[7] = "quantize"
<1>1. StageCount = 7
  BY ShippedAssumption DEF STAGES
<1>. QED
  BY <1>1 DEF STAGES, Stages

\* The facts that the runner's call of a stage, or a command, can change.
TouchedByStage(s) ==
    CASE s = 1 -> {"specialists/niche_vDATE"}
      [] s = 3 -> DedupFacts
      [] s = 5 -> EvalFacts
      [] s = 6 -> LossFacts
      [] s = 7 -> ManifestFacts \cup {"fp4/", "*.fp4"}
      [] OTHER -> {}

TouchedByHand(c) ==
    CASE c = "generate"              -> SyntheticFacts
      [] c = "train"                 -> AdapterFacts
      [] c = "train --force-retrain" -> AdapterFacts \cup Fp4Facts
      [] c = "quantize --adaptive"   -> ManifestFacts \cup {"fp4/", "*.sgfp4", "sgfp4:magic"}

Alike(d, e, facts) == \A f \in facts : f \in d <=> f \in e

\* The facts a validator asks for.
ReadBy(s) ==
    CASE s = 1 -> {"specialists/niche"}
      [] s = 2 -> SyntheticFacts
      [] s = 3 -> DedupFacts
      [] s = 4 -> AdapterFacts
      [] s = 5 -> EvalFacts
      [] s = 6 -> LossFacts
      [] s = 7 -> Fp4Facts

LEMMA ValidatorReads ==
  ASSUME NEW d, NEW e, NEW s \in 1..7, Alike(d, e, ReadBy(s))
  PROVE  Validates(STAGES[s], d) <=> Validates(STAGES[s], e)
<1> USE StageNames DEF Alike, ReadBy, Validates
<1>1. CASE s = 1
  BY <1>1 DEF ValidateDataPrep
<1>2. CASE s = 2
  BY <1>2 DEF ValidateSyntheticData, SyntheticFacts
<1>3. CASE s = 3
  BY <1>3 DEF ValidateDedup, DedupFacts
<1>4. CASE s = 4
  BY <1>4 DEF ValidateTrain, AdapterFacts
<1>5. CASE s = 5
  BY <1>5 DEF ValidateEvaluate, EvalFacts
<1>6. CASE s = 6
  BY <1>6 DEF ValidateDistill, LossFacts
<1>7. CASE s = 7
  BY <1>7 DEF ValidateQuantize, Fp4Facts, ManifestFacts
<1>. QED
  BY <1>1, <1>2, <1>3, <1>4, <1>5, <1>6, <1>7

\* The stages whose scripts take the runner's arguments, and what each leaves.
LEMMA OutcomeOf ==
  ASSUME NEW s \in 1..7, NEW d, NEW e \in Outcome(STAGES[s], d)
  PROVE  /\ s \in {1, 3, 5, 6, 7}
         /\ s = 1 => e \in DataPrep(d)
         /\ s = 3 => e \in Dedup(d)
         /\ s = 5 => e \in Evaluate(d)
         /\ s = 6 => e \in Distill(d)
         /\ s = 7 => e \in Quantize(d)
<1> USE StageNames DEF Outcome, AcceptsArguments, GetsClient, RunnerOptions, Understands
<1>1. s # 2 /\ s # 4
  OBVIOUS
<1>2. CASE s = 1
  BY <1>2
<1>3. CASE s = 3
  BY <1>3
<1>4. CASE s = 5
  BY <1>4
<1>5. CASE s = 6
  BY <1>5
<1>6. CASE s = 7
  BY <1>6
<1>. QED
  BY <1>1, <1>2, <1>3, <1>4, <1>5, <1>6

\* Nothing is left of a script that was killed unless the script could have ended.
LEMMA InterruptedOf ==
  ASSUME NEW s \in 1..7, NEW d, NEW e \in Interrupted(STAGES[s], d)
  PROVE  /\ s \in {1, 3, 5, 6, 7}
         /\ e \in Outcome(STAGES[s], d) \cup HalfWritten(STAGES[s], d)
<1>1. PICK f : f \in Outcome(STAGES[s], d)
  BY DEF Interrupted
<1>2. s \in {1, 3, 5, 6, 7}
  BY <1>1, OutcomeOf
<1>. QED
  BY <1>2 DEF Interrupted

LEMMA OutcomeIsLeft ==
  ASSUME NEW s, NEW d
  PROVE  Outcome(s, d) \subseteq Interrupted(s, d)
  BY DEF Interrupted

LEMMA HalfWrittenOf ==
  ASSUME NEW s \in {1, 3, 5, 6, 7}, NEW d, NEW e \in HalfWritten(STAGES[s], d)
  PROVE  \/ s = 3 /\ e \in {d \cup {"hashes"}, (d \ DedupFacts) \cup {"hashes"}}
         \/ s = 5 /\ e = d \ EvalFacts
         \/ s = 6 /\ e = d \ LossFacts
         \/ s = 7 /\ e \in {d \cup {"fp4/"}, d \cup V1Binary, (d \ ManifestFacts) \cup V1Binary}
<1> USE StageNames DEF HalfWritten
<1>1. CASE s = 1
  BY <1>1
<1>2. CASE s = 3
  BY <1>2
<1>3. CASE s = 5
  BY <1>3
<1>4. CASE s = 6
  BY <1>4
<1>5. CASE s = 7
  BY <1>5
<1>. QED
  BY <1>1, <1>2, <1>3, <1>4, <1>5

\* A script keeps to its own facts, and so does one that is killed.
LEMMA OutcomeTouches ==
  ASSUME NEW s \in 1..7, NEW d \in SUBSET Facts, NEW e \in Outcome(STAGES[s], d)
  PROVE  e \in SUBSET Facts /\ Alike(d, e, Facts \ TouchedByStage(s))
<1> USE OutcomeOf DEF Alike, TouchedByStage, Facts
<1>1. CASE s = 1
  BY <1>1 DEF DataPrep, SaveDatasets
<1>2. CASE s = 3
  BY <1>2 DEF Dedup
<1>3. CASE s = 5
  <2>1. e = (d \ EvalFacts) \cup {"eval", "eval:accuracy", "eval:perplexity",
                                  "eval:latency_ms_per_token"}
    BY <1>3 DEF Evaluate
  <2>. QED
    BY <1>3, <2>1 DEF EvalFacts
<1>4. CASE s = 6
  <2>1. e = (d \ LossFacts) \cup {"loss"}
    BY <1>4 DEF Distill
  <2>. QED
    BY <1>4, <2>1 DEF LossFacts
<1>5. CASE s = 7
  <2>1. e = (d \ ManifestFacts) \cup {"fp4/", "*.fp4", "manifest", "manifest:QUANT-03"}
    BY <1>5 DEF Quantize, V1Binary
  <2>. QED
    BY <1>5, <2>1 DEF ManifestFacts, Fp4Facts
<1>. QED
  BY <1>1, <1>2, <1>3, <1>4, <1>5

LEMMA HalfWrittenTouches ==
  ASSUME NEW s \in {1, 3, 5, 6, 7}, NEW d \in SUBSET Facts, NEW e \in HalfWritten(STAGES[s], d)
  PROVE  e \in SUBSET Facts /\ Alike(d, e, Facts \ TouchedByStage(s))
<1> USE DEF Alike, TouchedByStage, Facts
<1>1. CASE s = 3 /\ e \in {d \cup {"hashes"}, (d \ DedupFacts) \cup {"hashes"}}
  BY <1>1 DEF DedupFacts
<1>2. CASE s = 5 /\ e = d \ EvalFacts
  BY <1>2
<1>3. CASE s = 6 /\ e = d \ LossFacts
  BY <1>3
<1>4. CASE s = 7 /\ e \in {d \cup {"fp4/"}, d \cup V1Binary, (d \ ManifestFacts) \cup V1Binary}
  BY <1>4 DEF V1Binary, ManifestFacts, Fp4Facts
<1>. QED
  BY <1>1, <1>2, <1>3, <1>4, HalfWrittenOf

LEMMA InterruptedTouches ==
  ASSUME NEW s \in 1..7, NEW d \in SUBSET Facts, NEW e \in Interrupted(STAGES[s], d)
  PROVE  e \in SUBSET Facts /\ Alike(d, e, Facts \ TouchedByStage(s))
BY InterruptedOf, OutcomeTouches, HalfWrittenTouches

LEMMA TrainTouches ==
  ASSUME NEW d \in SUBSET Facts, NEW e \in Train(d)
  PROVE  e \in SUBSET Facts /\ Alike(d, e, Facts \ AdapterFacts)
<1>1. e \in {d, d \cup {"adapter_config", "adapters.safetensors"},
             d \cup {"adapter_config", "adapters.safetensors",
                     "metadata", "metadata:complete"}}
  BY DEF Train
<1>. QED
  BY <1>1 DEF Alike, AdapterFacts, Facts

\* A command given by hand keeps to its own facts.
LEMMA ByHandTouches ==
  ASSUME NEW c \in HandCommands, NEW d \in SUBSET Facts, NEW e \in ByHandOutcome(c, d)
  PROVE  e \in SUBSET Facts /\ Alike(d, e, Facts \ TouchedByHand(c))
<1> USE DEF TouchedByHand, ByHandOutcome
<1>1. CASE c = "generate"
  <2>1. e \in {(d \ SyntheticFacts) \cup {"jsonl", "jsonl:long_texts"},
               d \cup SyntheticFacts}
    BY <1>1 DEF SyntheticData
  <2>. QED
    BY <1>1, <2>1 DEF SyntheticFacts, Facts, Alike
<1>2. CASE c = "train"
  BY <1>2, TrainTouches
<1>3. CASE c = "train --force-retrain"
  <2> DEFINE left == d \ (AdapterFacts \cup Fp4Facts)
  <2>1. left \in SUBSET Facts /\ e \in Train(left)
    BY <1>3 DEF TrainForced
  <2>2. e \in SUBSET Facts /\ Alike(left, e, Facts \ AdapterFacts)
    BY <2>1, TrainTouches
  <2>. QED
    BY <1>3, <2>2 DEF Alike
<1>4. CASE c = "quantize --adaptive"
  <2>1. e = (d \ ManifestFacts) \cup {"fp4/", "*.sgfp4", "sgfp4:magic", "manifest",
                                      "manifest:sha256", "manifest:sha256_matches"}
    BY <1>4 DEF QuantizeAdaptive, V2Binary
  <2>. QED
    BY <1>4, <2>1 DEF ManifestFacts, Fp4Facts, Facts, Alike
<1>. QED
  BY <1>1, <1>2, <1>3, <1>4 DEF HandCommands

\* No script touches what the validator of another stage reads.
LEMMA ReadsApart ==
  \A s, t \in 1..7 :
     /\ ReadBy(s) \subseteq Facts
     /\ s # t => ReadBy(s) \cap TouchedByStage(t) = {}
<1>1. \A s \in 1..7 : ReadBy(s) \subseteq Facts
  BY DEF ReadBy, Facts, SyntheticFacts, DedupFacts, AdapterFacts, EvalFacts, LossFacts,
     Fp4Facts, ManifestFacts
<1>2. ASSUME NEW s \in 1..7, NEW t \in 1..7, s # t
      PROVE  ReadBy(s) \cap TouchedByStage(t) = {}
  <2> USE <1>2 DEF TouchedByStage, ReadBy
  <2>1. CASE t \in {1, 2, 4}
    BY <2>1 DEF SyntheticFacts, DedupFacts, AdapterFacts, EvalFacts, LossFacts,
       Fp4Facts, ManifestFacts
  <2>2. CASE t = 3
    BY <2>2 DEF SyntheticFacts, DedupFacts, AdapterFacts, EvalFacts, LossFacts,
       Fp4Facts, ManifestFacts
  <2>3. CASE t = 5
    BY <2>3 DEF SyntheticFacts, DedupFacts, AdapterFacts, EvalFacts, LossFacts,
       Fp4Facts, ManifestFacts
  <2>4. CASE t = 6
    BY <2>4 DEF SyntheticFacts, DedupFacts, AdapterFacts, EvalFacts, LossFacts,
       Fp4Facts, ManifestFacts
  <2>5. CASE t = 7
    BY <2>5 DEF SyntheticFacts, DedupFacts, AdapterFacts, EvalFacts, LossFacts,
       Fp4Facts, ManifestFacts
  <2>. QED
    BY <2>1, <2>2, <2>3, <2>4, <2>5
<1>. QED
  BY <1>1, <1>2

\* Running one stage, to its end or not, never changes what the validator of another says.
LEMMA ScriptsDoNotInterfere ==
  ASSUME NEW s \in 1..7, NEW t \in 1..7, s # t,
         NEW d \in SUBSET Facts, NEW e \in Interrupted(STAGES[t], d)
  PROVE  Validates(STAGES[s], d) <=> Validates(STAGES[s], e)
<1>1. Alike(d, e, Facts \ TouchedByStage(t))
  BY InterruptedTouches
<1>2. ReadBy(s) \subseteq Facts /\ ReadBy(s) \cap TouchedByStage(t) = {}
  BY ReadsApart
<1>3. Alike(d, e, ReadBy(s))
  BY <1>1, <1>2 DEF Alike
<1>. QED
  BY <1>3, ValidatorReads

-----------------------------------------------------------------------------
(* Steps of the composition *)

DiskTyped == disk \in [Niches -> SUBSET Facts]

\* A script has written, and has ended or was killed.
Worked == ShippedChild \/ ShippedKilled

\* Besides the commands given by hand, every step is one of the runner's.
LEMMA StepKinds ==
  [ShippedNext]_shippedVars <=> \/ Worked \/ ShippedRunner \/ RunByHand
                                \/ UNCHANGED shippedVars
  BY DEF ShippedNext, Worked

\* A script that wrote: the disk of its niche, and the verdict of its validator.
LEMMA ChildEffect ==
  ASSUME Typed, DiskTyped, Worked
  PROVE  /\ pc = "child" /\ niche \in Niches /\ stage \in {1, 3, 5, 6, 7}
         /\ UNCHANGED <<ckpt, survivors>>
         /\ Next /\ (pc' = "validate" => stage' = stage) /\ pc' # "mark"
         /\ \A n \in Niches, s \in Stages :
               ~(n = niche /\ s = stage) => out'[n][s] = out[n][s]
         /\ \E d \in Interrupted(STAGES[stage], disk[niche]) :
               /\ disk' = [disk EXCEPT ![niche] = d]
               /\ disk'[niche] = d
               /\ out'[niche][stage] = "valid" <=> Validates(STAGES[stage], d)
<1>1. /\ pc = "child" /\ UNCHANGED <<ckpt, survivors>>
      /\ Next /\ (pc' = "validate" => stage' = stage) /\ pc' # "mark"
      /\ Wreck \/ \E c \in OnSuccess[stage] : Content(niche, stage, c)
  <2>1. CASE ShippedChild
    BY <2>1 DEF ShippedChild, ChildSucceeds, Next, Runner
  <2>2. CASE ShippedKilled
    BY <2>2 DEF ShippedKilled, ChildRetried, ChildExhausted, ChildNotRun, StageFailed, Crash, Exit,
       Next, Runner
  <2>. QED
    BY <2>1, <2>2 DEF Worked
<1>2. niche \in Niches /\ stage \in 1..7
  BY <1>1, Current, StageNames
<1>3. \A n \in Niches, s \in Stages :
         ~(n = niche /\ s = stage) => out'[n][s] = out[n][s]
  BY <1>1, WorkElsewhere
<1>4. PICK d \in Interrupted(STAGES[stage], disk[niche]) :
         /\ disk' = [disk EXCEPT ![niche] = d]
         /\ out'[niche][stage] = Verdict(stage, d)
  BY OutcomeIsLeft DEF Worked, ShippedChild, ShippedKilled, Leaves
<1>5. stage \in {1, 3, 5, 6, 7}
  BY <1>2, <1>4, InterruptedOf
<1>6. disk'[niche] = d
  BY <1>2, <1>4 DEF DiskTyped
<1>7. out'[niche][stage] = "valid" <=> Validates(STAGES[stage], d)
  BY <1>4 DEF Verdict
<1>. QED
  BY <1>1, <1>2, <1>3, <1>4, <1>5, <1>6, <1>7

\* A command given by hand: the disk of one niche, and what validators now say.
LEMMA HandEffect ==
  ASSUME Typed, DiskTyped, RunByHand
  PROVE  /\ pc = "idle"
         /\ UNCHANGED <<ckpt, survivors, pc, queue, flags, stage, attempt, unswept, runs, result>>
         /\ out' \in [Niches -> [Stages -> Contents]]
         /\ \E n \in Niches, c \in HandCommands :
              \E d \in ByHandOutcome(c, disk[n]) :
                 /\ disk' = [disk EXCEPT ![n] = d]
                 /\ disk'[n] = d
                 /\ \A m \in Niches, s \in Stages :
                       IF m = n THEN out'[m][s] = "valid" <=> Validates(STAGES[s], d)
                                ELSE out'[m][s] = out[m][s]
<1>1. PICK n \in Niches, c \in ByHand :
        \E d \in ByHandOutcome(c, disk[n]) :
           /\ disk' = [disk EXCEPT ![n] = d]
           /\ out' = [out EXCEPT ![n] =
                         [s \in Stages |-> IF out[n][s] = "none" /\ Verdict(s, d) = "invalid"
                                             THEN "none" ELSE Verdict(s, d)]]
  BY DEF RunByHand
<1>2. PICK d \in ByHandOutcome(c, disk[n]) :
           /\ disk' = [disk EXCEPT ![n] = d]
           /\ out' = [out EXCEPT ![n] =
                         [s \in Stages |-> IF out[n][s] = "none" /\ Verdict(s, d) = "invalid"
                                             THEN "none" ELSE Verdict(s, d)]]
  BY <1>1
<1>3. c \in HandCommands
  BY ShippedAssumption
<1>4. disk'[n] = d
  BY <1>2 DEF DiskTyped
<1> DEFINE row == [s \in Stages |-> IF out[n][s] = "none" /\ Verdict(s, d) = "invalid"
                                      THEN "none" ELSE Verdict(s, d)]
<1>5. row \in [Stages -> Contents]
  BY DEF Verdict, Contents
<1>6. out' \in [Niches -> [Stages -> Contents]]
  BY <1>2, <1>5 DEF Typed, TypeOK
<1>7. \A s \in Stages : row[s] = "valid" <=> Validates(STAGES[s], d)
  BY DEF Verdict
<1>8. \A m \in Niches, s \in Stages :
         IF m = n THEN out'[m][s] = "valid" <=> Validates(STAGES[s], d)
                  ELSE out'[m][s] = out[m][s]
  BY <1>2, <1>7 DEF Typed, TypeOK
<1>. QED
  BY <1>2, <1>3, <1>4, <1>6, <1>8 DEF RunByHand

\* The disk only ever holds facts.
LEMMA DiskNext ==
  ASSUME Typed, DiskTyped, [ShippedNext]_shippedVars
  PROVE  DiskTyped'
<1>1. CASE Worked
  <2>1. PICK d \in Interrupted(STAGES[stage], disk[niche]) : disk' = [disk EXCEPT ![niche] = d]
    BY <1>1, ChildEffect
  <2>2. niche \in Niches /\ stage \in 1..7
    BY <1>1, ChildEffect
  <2>3. d \in SUBSET Facts
    BY <2>2, InterruptedTouches DEF DiskTyped
  <2>. QED
    BY <2>1, <2>3 DEF DiskTyped
<1>2. CASE RunByHand
  <2>1. PICK n \in Niches, c \in HandCommands :
          \E d \in ByHandOutcome(c, disk[n]) : disk' = [disk EXCEPT ![n] = d]
    BY <1>2, HandEffect
  <2>2. PICK d \in ByHandOutcome(c, disk[n]) : disk' = [disk EXCEPT ![n] = d]
    BY <2>1
  <2>3. d \in SUBSET Facts
    BY ByHandTouches DEF DiskTyped
  <2>. QED
    BY <2>2, <2>3 DEF DiskTyped
<1>3. CASE disk' = disk
  BY <1>3 DEF DiskTyped
<1>. QED
  BY <1>1, <1>2, <1>3, StepKinds DEF ShippedRunner, shippedVars

\* The runner's own discipline survives commands given by hand: they run while it
\* does not.
LEMMA DisciplineNext ==
  ASSUME WorkInv, DiskTyped, [ShippedNext]_shippedVars
  PROVE  WorkInv'
<1>1. CASE [Next]_vars
  BY <1>1, WorkNext
<1>2. CASE RunByHand
  <2>1. Typed
    BY DEF WorkInv
  <2>2. /\ pc = "idle" /\ out' \in [Niches -> [Stages -> Contents]]
        /\ UNCHANGED <<ckpt, survivors, pc, queue, flags, stage, attempt, unswept, runs, result>>
    BY <1>2, <2>1, HandEffect
  <2>3. Typed'
    BY <2>1, <2>2 DEF Typed, TypeOK, Busy
  <2>. QED
    BY <2>2, <2>3 DEF WorkInv, NoCheckpointUnderWork, MarkIsJustified, SweepCovers,
       ForcedLoopIsClean
<1>. QED
  BY <1>1, <1>2, StepKinds, ChildEffect DEF WorkInv, ShippedRunner, shippedVars

LEMMA DisciplineInit == ShippedInit => WorkInv /\ DiskTyped
  BY InvInit DEF ShippedInit, IInv, DiskTyped

\* The variables only ever hold values of their types, the disk included.
THEOREM ShippedTypeCorrect == ShippedSpec => []ShippedTypeOK
<1>. DEFINE Inv == WorkInv /\ DiskTyped
<1>1. Inv /\ [ShippedNext]_shippedVars => Inv'
  BY DisciplineNext, DiskNext DEF WorkInv
<1>2. Inv => ShippedTypeOK
  BY DEF WorkInv, Typed, DiskTyped, ShippedTypeOK
<1>. QED
  BY <1>1, <1>2, DisciplineInit, PTL DEF ShippedSpec

-----------------------------------------------------------------------------
(* The scripts do not interfere *)

LEMMA InterfereInit == ShippedInit => StagesDoNotInterfere
<1>1. /\ ~ValidateDataPrep({}) /\ ~ValidateSyntheticData({}) /\ ~ValidateDedup({})
      /\ ~ValidateTrain({}) /\ ~ValidateEvaluate({}) /\ ~ValidateDistill({})
      /\ ~ValidateQuantize({})
  BY DEF ValidateDataPrep, ValidateSyntheticData, ValidateDedup, ValidateTrain,
     ValidateEvaluate, ValidateDistill, ValidateQuantize, SyntheticFacts, DedupFacts
<1>2. ASSUME NEW s \in 1..7 PROVE ~Validates(STAGES[s], {})
  <2>1. CASE s \in {1, 2, 3}
    BY <1>1, <2>1, StageNames DEF Validates
  <2>2. CASE s \in {4, 5}
    BY <1>1, <2>2, StageNames DEF Validates
  <2>3. CASE s \in {6, 7}
    BY <1>1, <2>3, StageNames DEF Validates
  <2>. QED
    BY <2>1, <2>2, <2>3
<1>. QED
  BY <1>2, StageNames, PipelineAssumption DEF ShippedInit, Init, StagesDoNotInterfere

LEMMA InterfereNext ==
  ASSUME Typed, DiskTyped, StagesDoNotInterfere, [ShippedNext]_shippedVars
  PROVE  StagesDoNotInterfere'
<1>1. CASE Worked
  <2>1. PICK d \in Interrupted(STAGES[stage], disk[niche]) :
           /\ disk' = [disk EXCEPT ![niche] = d]
           /\ disk'[niche] = d
           /\ out'[niche][stage] = "valid" <=> Validates(STAGES[stage], d)
    BY <1>1, ChildEffect
  <2>2. /\ niche \in Niches /\ stage \in 1..7
        /\ \A n \in Niches, s \in Stages :
              ~(n = niche /\ s = stage) => out'[n][s] = out[n][s]
    BY <1>1, ChildEffect
  <2> SUFFICES ASSUME NEW n \in Niches, NEW s \in Stages
               PROVE  out'[n][s] = "valid" <=> Validates(STAGES[s], disk'[n])
    BY DEF StagesDoNotInterfere
  <2>3. CASE n # niche
    BY <2>1, <2>2, <2>3 DEF DiskTyped, StagesDoNotInterfere
  <2>4. CASE n = niche /\ s # stage
    <3>1. Validates(STAGES[s], disk[niche]) <=> Validates(STAGES[s], d)
      BY <2>2, <2>4, StageNames, ScriptsDoNotInterfere DEF DiskTyped
    <3>. QED
      BY <2>1, <2>2, <2>4, <3>1 DEF StagesDoNotInterfere
  <2>5. CASE n = niche /\ s = stage
    BY <2>1, <2>5
  <2>. QED
    BY <2>3, <2>4, <2>5
<1>2. CASE RunByHand
  <2>1. PICK n \in Niches, c \in HandCommands :
          \E d \in ByHandOutcome(c, disk[n]) :
             /\ disk' = [disk EXCEPT ![n] = d]
             /\ disk'[n] = d
             /\ \A m \in Niches, s \in Stages :
                   IF m = n THEN out'[m][s] = "valid" <=> Validates(STAGES[s], d)
                            ELSE out'[m][s] = out[m][s]
    BY <1>2, HandEffect
  <2>. QED
    BY <2>1 DEF DiskTyped, StagesDoNotInterfere
<1>3. CASE UNCHANGED <<out, disk>>
  BY <1>3 DEF StagesDoNotInterfere
<1>. QED
  BY <1>1, <1>2, <1>3, StepKinds DEF ShippedRunner, shippedVars, vars

\* Running the script of one stage never changes what the validator of another
\* stage says of the niche, whatever ran before (the scripts, _validate_<stage>).
THEOREM StagesNeverInterfere == ShippedSpec => []StagesDoNotInterfere
<1>. DEFINE Inv == WorkInv /\ DiskTyped /\ StagesDoNotInterfere
<1>1. Inv /\ [ShippedNext]_shippedVars => Inv'
  BY DisciplineNext, DiskNext, InterfereNext DEF WorkInv
<1>2. ShippedInit => Inv
  BY DisciplineInit, InterfereInit
<1>. QED
  BY <1>1, <1>2, PTL DEF ShippedSpec

-----------------------------------------------------------------------------
(* What never completes, and what can be undermined *)

\* Facts that some validator asks for and no script of the repository makes true.
NeverMade ==
    \A n \in Niches :
       {"specialists/niche", "eval:latency", "*.npz", "*.safetensors"} \cap disk[n] = {}

\* Only scripts that take the runner's arguments get as far as being validated.
OnlyScriptsThatRun == pc \in {"validate", "mark"} => stage \in {1, 3, 5, 6, 7}

\* As shipped, data_prep, synthetic_data, train and evaluate never get a checkpoint, and
\* quantize only gets one next to a .sgfp4; what OnlyExportsAreUndermined says of one
\* checkpoint.
FourNeverComplete(n) == \A s \in {1, 2, 4, 5} : ~Complete(n, s)
ExportStays(n) == Vouches(n, 7) => {"*.sgfp4", "fp4/"} \cap disk[n] # {"fp4/"}
VouchedOrExport(n, s) ==
    Vouches(n, s) => \/ Validates(STAGES[s], disk[n])
                     \/ s = 7 /\ ~({"fp4/", "manifest:QUANT-03"} \subseteq disk[n])

GapInv == \A n \in Niches : FourNeverComplete(n) /\ ExportStays(n)

SInv ==
    /\ WorkInv
    /\ DiskTyped
    /\ StagesDoNotInterfere
    /\ NeverMade
    /\ OnlyScriptsThatRun
    /\ GapInv
    /\ OnlyExportsAreUndermined

LEMMA SInvParts ==
  /\ GapInv <=> \A n \in Niches : FourNeverComplete(n) /\ ExportStays(n)
  /\ OnlyExportsAreUndermined <=> \A n \in Niches, s \in Stages : VouchedOrExport(n, s)
  BY DEF GapInv, OnlyExportsAreUndermined, VouchedOrExport

LEMMA SInvInit == ShippedInit => SInv
<1> SUFFICES ASSUME ShippedInit PROVE SInv
  OBVIOUS
<1>1. NeverMade /\ OnlyScriptsThatRun
  BY DEF ShippedInit, Init, NeverMade, OnlyScriptsThatRun
<1>2. \A n \in Niches, s \in Stages : ~Complete(n, s)
  BY DEF ShippedInit, Init, Complete
<1>3. GapInv /\ OnlyExportsAreUndermined
  BY <1>2, StageNames DEF GapInv, FourNeverComplete, ExportStays, OnlyExportsAreUndermined, Vouches
<1>. QED
  BY <1>1, <1>3, DisciplineInit, InterfereInit DEF SInv

\* No script makes what was never made.
LEMMA NeverMadeNext == SInv /\ [ShippedNext]_shippedVars => NeverMade'
<1> SUFFICES ASSUME SInv, [ShippedNext]_shippedVars PROVE NeverMade'
  OBVIOUS
<1>0. Typed /\ DiskTyped /\ NeverMade
  BY DEF SInv, WorkInv
<1> DEFINE never == {"specialists/niche", "eval:latency", "*.npz", "*.safetensors"}
<1>1. CASE Worked
  <2>1. PICK d \in Interrupted(STAGES[stage], disk[niche]) :
           disk' = [disk EXCEPT ![niche] = d] /\ disk'[niche] = d
    BY <1>0, <1>1, ChildEffect
  <2>2. niche \in Niches /\ stage \in {1, 3, 5, 6, 7} /\ stage \in 1..7
    BY <1>0, <1>1, ChildEffect
  <2>3. d \subseteq disk[niche] \cup {"specialists/niche_vDATE"} \cup DedupFacts
              \cup {"eval", "eval:accuracy", "eval:perplexity", "eval:latency_ms_per_token"}
              \cup {"loss"} \cup {"fp4/", "*.fp4", "manifest", "manifest:QUANT-03"}
    <3>1. CASE d \in Outcome(STAGES[stage], disk[niche])
      BY <2>2, <3>1, OutcomeOf
         DEF DataPrep, SaveDatasets, Dedup, Evaluate, Distill, Quantize, V1Binary
    <3>2. CASE d \in HalfWritten(STAGES[stage], disk[niche])
      BY <2>2, <3>2, HalfWrittenOf DEF V1Binary, DedupFacts
    <3>. QED
      BY <2>2, <3>1, <3>2, InterruptedOf
  <2>4. never \cap d = {}
    BY <1>0, <2>2, <2>3 DEF NeverMade, DedupFacts
  <2>. QED
    BY <1>0, <2>1, <2>4 DEF NeverMade, DiskTyped
<1>2. CASE RunByHand
  <2>1. PICK n \in Niches, c \in HandCommands :
          \E d \in ByHandOutcome(c, disk[n]) :
             disk' = [disk EXCEPT ![n] = d] /\ disk'[n] = d
    BY <1>0, <1>2, HandEffect
  <2>2. PICK d \in ByHandOutcome(c, disk[n]) : disk' = [disk EXCEPT ![n] = d] /\ disk'[n] = d
    BY <2>1
  <2>3. d \subseteq disk[n] \cup SyntheticFacts
              \cup {"adapter_config", "adapters.safetensors", "metadata", "metadata:complete"}
              \cup {"fp4/", "*.sgfp4", "sgfp4:magic", "manifest", "manifest:sha256",
                    "manifest:sha256_matches"}
    <3>1. CASE c = "generate"
      BY <3>1 DEF ByHandOutcome, SyntheticData, SyntheticFacts
    <3>2. CASE c = "train"
      BY <3>2 DEF ByHandOutcome, Train
    <3>3. CASE c = "train --force-retrain"
      BY <3>3 DEF ByHandOutcome, TrainForced, Train
    <3>4. CASE c = "quantize --adaptive"
      BY <3>4 DEF ByHandOutcome, QuantizeAdaptive, V2Binary
    <3>. QED
      BY <3>1, <3>2, <3>3, <3>4 DEF HandCommands
  <2>4. never \cap d = {}
    BY <1>0, <2>3 DEF NeverMade, SyntheticFacts
  <2>. QED
    BY <1>0, <2>2, <2>4 DEF NeverMade, DiskTyped
<1>3. CASE disk' = disk
  BY <1>0, <1>3 DEF NeverMade
<1>. QED
  BY <1>1, <1>2, <1>3, StepKinds DEF ShippedRunner, shippedVars

\* A checkpoint appears in one place only: mark_complete.
LEMMA NewCheckpoints ==
  ASSUME Typed, [Next]_vars, NEW n \in Niches, NEW s \in Stages
  PROVE  \/ MarkWritten /\ n = niche /\ s = stage
         \/ /\ Complete(n, s)' => Complete(n, s)
            /\ Vouches(n, s)' => Vouches(n, s)
<1> USE DEF Vouches, Complete
<1>1. CASE UNCHANGED <<ckpt, survivors>>
  BY <1>1
<1>2. CASE ClearOne
  <2>1. PICK t \in unswept :
           File(niche, t, "absent") /\ survivors' = survivors \ {<<niche, t>>}
    BY <1>2 DEF ClearOne
  <2>2. t \in Stages /\ niche \in Niches
    BY <1>2, <2>1, Current DEF ClearOne, Typed, TypeOK
  <2>3. ckpt'[n][s] = IF n = niche /\ s = t THEN "absent" ELSE ckpt[n][s]
    BY <2>1, <2>2, ReadBack DEF File, Typed, TypeOK
  <2>. QED
    BY <2>1, <2>3
<1>3. CASE ClearFails
  <2>1. PICK t \in unswept : survivors' = survivors \cup {<<niche, t>>}
    BY <1>3 DEF ClearFails
  <2>. QED
    BY <1>3, <2>1 DEF ClearFails
<1>4. CASE ValidatePasses
  <2>1. ckpt'[n][s] = IF n = niche /\ s = stage THEN "torn" ELSE ckpt[n][s]
    BY <1>4, Current, ReadBack DEF ValidatePasses, File, Typed, TypeOK
  <2>. QED
    BY <1>4, <2>1 DEF ValidatePasses
<1>5. CASE MarkWritten
  <2>1. ckpt'[n][s] = IF n = niche /\ s = stage THEN "valid" ELSE ckpt[n][s]
    BY <1>5, Current, ReadBack DEF MarkWritten, File, Typed, TypeOK
  <2>. QED
    BY <1>5, <2>1 DEF MarkWritten
<1>. QED
  BY <1>1, <1>2, <1>3, <1>4, <1>5
     DEF Next, Runner, vars, Invoke, NextNiche, NoNicheLeft, Cleared, Skip, StartStage,
     NicheDone, ChildSucceeds, ChildRetried, ChildExhausted, ChildNotRun, ValidateFails,
     ValidateRaises, MarkRaises, Crash

\* What is marked complete has just been validated, on facts that scripts make.
LEMMA MarkedIsValidated ==
  ASSUME SInv, MarkWritten
  PROVE  /\ niche \in Niches /\ stage \in {3, 6, 7}
         /\ Validates(STAGES[stage], disk[niche])
         /\ stage = 7 => "*.sgfp4" \in disk[niche]
<1>1. Typed /\ pc = "mark" /\ stage \in {1, 3, 5, 6, 7} /\ out[niche][stage] = "valid"
  BY DEF SInv, WorkInv, MarkWritten, MarkIsJustified, OnlyScriptsThatRun
<1>2. niche \in Niches /\ stage \in Stages
  BY <1>1, Current
<1>3. Validates(STAGES[stage], disk[niche])
  BY <1>1, <1>2 DEF SInv, StagesDoNotInterfere
<1>4. {"specialists/niche", "eval:latency", "*.npz", "*.safetensors"} \cap disk[niche] = {}
  BY <1>2 DEF SInv, NeverMade
<1>5. stage # 1
  BY <1>3, <1>4, StageNames DEF Validates, ValidateDataPrep
<1>6. stage # 5
  BY <1>3, <1>4, StageNames DEF Validates, ValidateEvaluate
<1>7. stage = 7 => "*.sgfp4" \in disk[niche]
  <2>1. stage = 7 => ValidateQuantize(disk[niche])
    BY <1>3, StageNames DEF Validates
  <2>. QED
    BY <1>4, <2>1 DEF ValidateQuantize
<1>. QED
  BY <1>1, <1>2, <1>3, <1>5, <1>6, <1>7

LEMMA FourNext ==
  ASSUME SInv, [ShippedNext]_shippedVars, NEW n \in Niches
  PROVE  FourNeverComplete(n)'
<1>1. Typed /\ DiskTyped /\ FourNeverComplete(n)
  BY SInvParts DEF SInv, WorkInv
<1>2. CASE [Next]_vars
  <2> SUFFICES ASSUME NEW s \in {1, 2, 4, 5} PROVE ~Complete(n, s)'
    BY DEF FourNeverComplete
  <2>1. s \in Stages
    BY StageNames
  <2>2. ~(MarkWritten /\ s = stage)
    BY MarkedIsValidated
  <2>3. Complete(n, s)' => Complete(n, s)
    BY <1>1, <1>2, <2>1, <2>2, NewCheckpoints
  <2>. QED
    BY <1>1, <2>3 DEF FourNeverComplete
<1>3. CASE RunByHand
  BY <1>1, <1>3 DEF RunByHand, FourNeverComplete, Complete
<1>. QED
  BY <1>1, <1>2, <1>3, StepKinds, ChildEffect DEF ShippedRunner, shippedVars

LEMMA OnlyScriptsNext == SInv /\ [ShippedNext]_shippedVars => OnlyScriptsThatRun'
<1> SUFFICES ASSUME SInv, [ShippedNext]_shippedVars PROVE OnlyScriptsThatRun'
  OBVIOUS
<1>0. Typed /\ DiskTyped /\ OnlyScriptsThatRun
  BY DEF SInv, WorkInv
<1>1. CASE Worked
  <2>1. stage \in {1, 3, 5, 6, 7} /\ (pc' = "validate" => stage' = stage) /\ pc' # "mark"
    BY <1>0, <1>1, ChildEffect
  <2>. QED
    BY <2>1 DEF OnlyScriptsThatRun
<1>2. CASE ShippedRunner
  <2>1. \/ pc' \notin {"validate", "mark"}
        \/ pc' = pc /\ stage' = stage
        \/ pc = "validate" /\ pc' = "mark" /\ stage' = stage
        \/ pc = "child" /\ pc' = "validate"
    BY <1>2 DEF ShippedRunner, Next, Runner, Invoke, NextNiche, NoNicheLeft, ClearOne,
       ClearFails, Cleared, Skip, StartStage, NicheDone, ChildSucceeds, ChildRetried,
       ChildExhausted, ChildNotRun, StageFailed, ValidatePasses, ValidateFails,
       ValidateRaises, MarkWritten, MarkRaises, Crash, Exit
  <2>. QED
    BY <1>0, <1>2, <2>1 DEF ShippedRunner, OnlyScriptsThatRun
<1>3. CASE UNCHANGED <<pc, stage>>
  BY <1>0, <1>3 DEF OnlyScriptsThatRun
<1>. QED
  BY <1>1, <1>2, <1>3, StepKinds DEF RunByHand, shippedVars, vars

\* The runner's steps and the checkpoints that count.
LEMMA RunnerKeepsWorth ==
  ASSUME SInv, [Next]_vars, disk' = disk, NEW n \in Niches, NEW s \in Stages
  PROVE  ExportStays(n)' /\ VouchedOrExport(n, s)'
<1>0. Typed /\ ExportStays(n) /\ VouchedOrExport(n, s)
  BY SInvParts DEF SInv, WorkInv
<1>1. MarkWritten => /\ Validates(STAGES[stage], disk[niche])
                     /\ stage = 7 => "*.sgfp4" \in disk[niche]
  BY MarkedIsValidated
<1>2. \A t \in Stages : Vouches(n, t)' =>
         Vouches(n, t) \/ (MarkWritten /\ n = niche /\ t = stage)
  BY <1>0, NewCheckpoints
<1>3. ExportStays(n)'
  <2>1. 7 \in Stages
    BY StageNames
  <2>. QED
    BY <1>0, <1>1, <1>2, <2>1 DEF ExportStays
<1>4. VouchedOrExport(n, s)'
  BY <1>0, <1>1, <1>2 DEF VouchedOrExport
<1>. QED
  BY <1>3, <1>4

\* A script works under no checkpoint of its own, and keeps out of the others' files.
LEMMA ScriptKeepsWorth ==
  ASSUME SInv, Worked, NEW n \in Niches, NEW s \in Stages
  PROVE  ExportStays(n)' /\ VouchedOrExport(n, s)'
<1>0. Typed /\ DiskTyped /\ ExportStays(n) /\ VouchedOrExport(n, s)
  BY SInvParts DEF SInv, WorkInv
<1>1. PICK d \in Interrupted(STAGES[stage], disk[niche]) :
         disk' = [disk EXCEPT ![niche] = d] /\ disk'[niche] = d
  BY <1>0, ChildEffect
<1>2. /\ pc = "child" /\ niche \in Niches /\ stage \in 1..7
      /\ UNCHANGED <<ckpt, survivors>>
  BY <1>0, ChildEffect
<1>3. ~Vouches(niche, stage)
  BY <1>2 DEF SInv, WorkInv, NoCheckpointUnderWork
<1>4. \A t \in Stages : Vouches(n, t)' <=> Vouches(n, t)
  BY <1>2 DEF Vouches, Complete
<1>5. 7 \in Stages /\ s \in 1..7
  BY StageNames
<1>6. CASE n # niche
  <2>1. disk'[n] = disk[n]
    BY <1>0, <1>1, <1>6 DEF DiskTyped
  <2>. QED
    BY <1>0, <1>4, <1>5, <2>1 DEF ExportStays, VouchedOrExport
<1>7. CASE n = niche
  <2>1. stage # 7 => Alike(disk[n], d, Fp4Facts)
    <3>1. Alike(disk[n], d, Facts \ TouchedByStage(stage))
      BY <1>0, <1>1, <1>2, <1>7, InterruptedTouches DEF DiskTyped
    <3>2. ReadBy(7) = Fp4Facts /\ ReadBy(7) \subseteq Facts
      BY ReadsApart DEF ReadBy
    <3>3. stage # 7 => ReadBy(7) \cap TouchedByStage(stage) = {}
      BY <1>2, ReadsApart
    <3>. QED
      BY <3>1, <3>2, <3>3 DEF Alike
  <2>2. s # stage => (Validates(STAGES[s], disk[n]) <=> Validates(STAGES[s], d))
    BY <1>0, <1>1, <1>2, <1>5, <1>7, ScriptsDoNotInterfere DEF DiskTyped
  <2>3. stage # 7 => \A f \in {"*.sgfp4", "fp4/", "manifest:QUANT-03"} : f \in d <=> f \in disk[n]
    BY <2>1 DEF Alike, Fp4Facts, ManifestFacts
  <2>4. ExportStays(n)'
    BY <1>0, <1>1, <1>3, <1>4, <1>5, <1>7, <2>3 DEF ExportStays
  <2>5. VouchedOrExport(n, s)'
    BY <1>0, <1>1, <1>3, <1>4, <1>7, <2>2, <2>3 DEF VouchedOrExport
  <2>. QED
    BY <2>4, <2>5
<1>. QED
  BY <1>6, <1>7

\* What a command given by hand can do to the exports.
LEMMA HandOnExports ==
  ASSUME NEW c \in HandCommands, NEW d \in SUBSET Facts, NEW e \in ByHandOutcome(c, d)
  PROVE  \/ Alike(d, e, Fp4Facts)
         \/ "fp4/" \notin e
         \/ "*.sgfp4" \in e /\ "manifest:QUANT-03" \notin e
<1>0. Fp4Facts \subseteq Facts /\ Alike(d, e, Facts \ TouchedByHand(c))
  BY ByHandTouches DEF Facts
<1>1. CASE c = "generate"
  BY <1>0, <1>1 DEF Alike, TouchedByHand, SyntheticFacts, Fp4Facts, ManifestFacts
<1>2. CASE c = "train"
  BY <1>0, <1>2 DEF Alike, TouchedByHand, AdapterFacts, Fp4Facts, ManifestFacts
<1>3. CASE c = "train --force-retrain"
  <2> DEFINE left == d \ (AdapterFacts \cup Fp4Facts)
  <2>1. "fp4/" \notin left
    BY DEF Fp4Facts
  <2>2. e \in {left, left \cup {"adapter_config", "adapters.safetensors"},
               left \cup {"adapter_config", "adapters.safetensors",
                          "metadata", "metadata:complete"}}
    BY <1>3 DEF ByHandOutcome, TrainForced, Train
  <2>. QED
    BY <2>1, <2>2
<1>4. CASE c = "quantize --adaptive"
  <2>1. e = (d \ ManifestFacts) \cup {"fp4/", "*.sgfp4", "sgfp4:magic", "manifest",
                                      "manifest:sha256", "manifest:sha256_matches"}
    BY <1>4 DEF ByHandOutcome, QuantizeAdaptive, V2Binary
  <2>2. "manifest:QUANT-03" \notin e
    BY <2>1 DEF ManifestFacts
  <2>. QED
    BY <2>1, <2>2
<1>. QED
  BY <1>1, <1>2, <1>3, <1>4 DEF HandCommands

LEMMA HandKeepsWorth ==
  ASSUME SInv, RunByHand, NEW n \in Niches, NEW s \in Stages
  PROVE  ExportStays(n)' /\ VouchedOrExport(n, s)'
<1>0. /\ Typed /\ DiskTyped
      /\ FourNeverComplete(n) /\ ExportStays(n) /\ VouchedOrExport(n, s)
  BY SInvParts DEF SInv, WorkInv
<1>1. PICK m \in Niches, c \in HandCommands :
        \E d \in ByHandOutcome(c, disk[m]) :
           disk' = [disk EXCEPT ![m] = d] /\ disk'[m] = d
  BY <1>0, HandEffect
<1>2. PICK d \in ByHandOutcome(c, disk[m]) :
           disk' = [disk EXCEPT ![m] = d] /\ disk'[m] = d
  BY <1>1
<1>3. \A t \in Stages : Vouches(n, t)' <=> Vouches(n, t)
  BY DEF RunByHand, Vouches, Complete
<1>4. 7 \in Stages /\ s \in 1..7
  BY StageNames
<1>5. CASE n # m
  <2>1. disk'[n] = disk[n]
    BY <1>0, <1>2, <1>5 DEF DiskTyped
  <2>. QED
    BY <1>0, <1>3, <1>4, <2>1 DEF ExportStays, VouchedOrExport
<1>6. CASE n = m
  <2>1. disk[n] \in SUBSET Facts /\ disk'[n] = d /\ d \in ByHandOutcome(c, disk[n])
    BY <1>0, <1>2, <1>6 DEF DiskTyped
  <2>2. \/ Alike(disk[n], d, Fp4Facts)
        \/ "fp4/" \notin d
        \/ "*.sgfp4" \in d /\ "manifest:QUANT-03" \notin d
    BY <2>1, HandOnExports
  <2>3. Alike(disk[n], d, Fp4Facts) =>
           /\ \A f \in {"*.sgfp4", "fp4/", "manifest:QUANT-03"} : f \in d <=> f \in disk[n]
           /\ Validates(STAGES[7], disk[n]) <=> Validates(STAGES[7], d)
    <3>1. ReadBy(7) = Fp4Facts
      BY DEF ReadBy
    <3>2. ASSUME Alike(disk[n], d, Fp4Facts)
          PROVE  Validates(STAGES[7], disk[n]) <=> Validates(STAGES[7], d)
      BY <3>1, <3>2, ValidatorReads
    <3>3. Alike(disk[n], d, Fp4Facts) =>
             \A f \in {"*.sgfp4", "fp4/", "manifest:QUANT-03"} : f \in d <=> f \in disk[n]
      BY DEF Alike, Fp4Facts, ManifestFacts
    <3>. QED
      BY <3>2, <3>3
  <2>4. ExportStays(n)'
    BY <1>0, <1>3, <1>4, <2>1, <2>2, <2>3 DEF ExportStays
  <2>5. VouchedOrExport(n, s)'
    <3>1. CASE s \in {1, 2, 4, 5}
      BY <1>0, <1>3, <3>1 DEF FourNeverComplete, Vouches, VouchedOrExport
    <3>2. CASE s \in {3, 6}
      <4>1. Alike(disk[n], d, ReadBy(s))
        <5>1. Alike(disk[n], d, Facts \ TouchedByHand(c))
          BY <2>1, ByHandTouches
        <5>2. ReadBy(s) = IF s = 3 THEN DedupFacts ELSE LossFacts
          BY <3>2 DEF ReadBy
        <5>3. (DedupFacts \cup LossFacts) \cap TouchedByHand(c) = {}
          BY DEF HandCommands, TouchedByHand, DedupFacts, LossFacts, SyntheticFacts,
             AdapterFacts, Fp4Facts, ManifestFacts
        <5>4. DedupFacts \cup LossFacts \subseteq Facts
          BY DEF Facts
        <5>. QED
          BY <5>1, <5>2, <5>3, <5>4 DEF Alike
      <4>2. Validates(STAGES[s], disk[n]) <=> Validates(STAGES[s], d)
        BY <1>4, <4>1, ValidatorReads
      <4>. QED
        BY <1>0, <1>3, <2>1, <3>2, <4>2 DEF VouchedOrExport
    <3>3. CASE s = 7
      BY <1>0, <1>3, <1>4, <2>1, <2>2, <2>3, <3>3 DEF VouchedOrExport
    <3>. QED
      BY <1>4, <3>1, <3>2, <3>3
  <2>. QED
    BY <2>4, <2>5
<1>. QED
  BY <1>5, <1>6

LEMMA SInvNext == SInv /\ [ShippedNext]_shippedVars => SInv'
<1> SUFFICES ASSUME SInv, [ShippedNext]_shippedVars PROVE SInv'
  OBVIOUS
<1>1. WorkInv' /\ DiskTyped' /\ StagesDoNotInterfere'
  BY DisciplineNext, DiskNext, InterfereNext DEF SInv, WorkInv
<1>2. NeverMade' /\ OnlyScriptsThatRun'
  BY NeverMadeNext, OnlyScriptsNext
<1>3. \A n \in Niches, s \in Stages : ExportStays(n)' /\ VouchedOrExport(n, s)'
  <2>1. CASE Worked
    BY <2>1, ScriptKeepsWorth
  <2>2. CASE RunByHand
    BY <2>2, HandKeepsWorth
  <2>3. CASE [Next]_vars /\ disk' = disk
    BY <2>3, RunnerKeepsWorth
  <2>. QED
    BY <2>1, <2>2, <2>3, StepKinds DEF ShippedRunner, shippedVars
<1>4. \A n \in Niches : FourNeverComplete(n)' /\ ExportStays(n)'
  BY <1>3, FourNext, StageNames
<1>5. GapInv' /\ OnlyExportsAreUndermined'
  BY <1>3, <1>4 DEF GapInv, OnlyExportsAreUndermined, VouchedOrExport
<1>. QED
  BY <1>1, <1>2, <1>5 DEF SInv

\* Of what a checkpoint vouches for, commands given by hand can only undermine the
\* exports of quantize (train --force-retrain, quantize --adaptive).
THEOREM OnlyExportsCanBeUndermined == ShippedSpec => []OnlyExportsAreUndermined
<1>. SInv => OnlyExportsAreUndermined
  BY DEF SInv
<1>. QED
  BY SInvInit, SInvNext, PTL DEF ShippedSpec

=============================================================================
