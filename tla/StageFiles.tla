----------------------------- MODULE StageFiles -----------------------------
(***************************************************************************)
(* The contract between the seven shipped stage scripts of gnus-poc and    *)
(* the validators of pipeline/checkpoint.py: what each script leaves on    *)
(* disk for a niche, and what the validator of its stage asks for.         *)
(*                                                                         *)
(* A disk is the set of facts that hold of the niche's files.  A fact is   *)
(* named for the file, or "file:property" for what the file contains; of   *)
(* the logs and the manifest it says that the file can be parsed.          *)
(***************************************************************************)
EXTENDS Integers, Sequences

\* PipelineRunner.STAGES; Pipeline.tla knows a stage by its position in it.
STAGES == <<"data_prep", "synthetic_data", "dedup", "train", "evaluate",
            "distill", "quantize">>

SyntheticFacts == {"jsonl", "jsonl:min_rows", "jsonl:long_texts"}
DedupFacts     == {"hashes", "dedup_log"}
AdapterFacts   == {"adapter_config", "adapters.safetensors", "adapter_model.safetensors",
                   "adapter_model.npz", "metadata", "metadata:complete"}
EvalFacts      == {"eval", "eval:accuracy", "eval:perplexity", "eval:latency",
                   "eval:latency_ms_per_token"}
LossFacts      == {"loss", "loss:two_points", "loss:decreasing"}
ManifestFacts  == {"manifest", "manifest:QUANT-03", "manifest:sha256",
                   "manifest:sha256_matches"}
Fp4Facts       == {"fp4/", "*.fp4", "*.npz", "*.safetensors", "*.sgfp4", "sgfp4:magic"}
                    \cup ManifestFacts
Facts == {"specialists/niche", "specialists/niche_vDATE"}
           \cup SyntheticFacts \cup DedupFacts \cup AdapterFacts
           \cup EvalFacts \cup LossFacts \cup Fp4Facts

-----------------------------------------------------------------------------
(* The validators: CheckpointValidator._validate_<stage>                   *)

ValidateDataPrep(d) == "specialists/niche" \in d

ValidateSyntheticData(d) == SyntheticFacts \subseteq d

ValidateDedup(d) == DedupFacts \subseteq d

ValidateTrain(d) ==
    /\ {"adapter_config", "metadata", "metadata:complete"} \subseteq d
    /\ {"adapter_model.safetensors", "adapter_model.npz"} \cap d # {}

ValidateEvaluate(d) ==
    {"eval", "eval:accuracy", "eval:perplexity", "eval:latency"} \subseteq d

\* With fewer than two points the trend "cannot be verified" and passes.
ValidateDistill(d) ==
    "loss" \in d /\ ("loss:two_points" \in d => "loss:decreasing" \in d)

\* The header and the hash are checked only of what is there.
ValidateQuantize(d) ==
    /\ {"fp4/", "manifest", "manifest:QUANT-03"} \subseteq d
    /\ {"*.npz", "*.safetensors", "*.sgfp4"} \cap d # {}
    /\ "*.sgfp4" \in d =>
          /\ "sgfp4:magic" \in d
          /\ "manifest:sha256" \in d => "manifest:sha256_matches" \in d

\* validate_stage: the method is looked up by the name of the stage.
Validates(s, d) ==
    CASE s = "data_prep"      -> ValidateDataPrep(d)
      [] s = "synthetic_data" -> ValidateSyntheticData(d)
      [] s = "dedup"          -> ValidateDedup(d)
      [] s = "train"          -> ValidateTrain(d)
      [] s = "evaluate"       -> ValidateEvaluate(d)
      [] s = "distill"        -> ValidateDistill(d)
      [] s = "quantize"       -> ValidateQuantize(d)

-----------------------------------------------------------------------------
(* The scripts: the disks a run that exits 0 can leave, from disk d        *)

\* create_splits, format_for_training and save_datasets: the splits go to a directory
\* named with the date, which nothing else looks for.
SaveDatasets(d) == d \cup {"specialists/niche_vDATE"}

\* prepare_datasets.py: a niche with under 1000 samples, or not viable, is
\* passed over.
DataPrep(d) == {d, SaveDatasets(d)}

\* generate_for_niche and save_to_jsonl, called from Python: the file is
\* rewritten.  _passes_quality only lets texts of 200 characters through, but
\* nothing asks for a minimum number of them.
SyntheticData(d) ==
    {(d \ SyntheticFacts) \cup {"jsonl", "jsonl:long_texts"},
     d \cup SyntheticFacts}

\* Mutant of Dedup: its input is removed once it is deduplicated.
DedupConsuming(d) ==
    IF "jsonl" \in d THEN {(d \ SyntheticFacts) \cup DedupFacts} ELSE {d}

\* dedup.py: with no synthetic data it exits 0 and writes nothing.
Dedup(d) == IF "jsonl" \in d THEN {d \cup DedupFacts} ELSE {d}

\* train_specialists_mlx.py: complete adapters are kept; a training run saves
\* adapters.safetensors; a run that raises is reported and still exits 0, having
\* perhaps written adapter files but no metadata.
Train(d) ==
    IF {"adapters.safetensors", "metadata:complete"} \subseteq d
      THEN {d}
      ELSE {d,
            d \cup {"adapter_config", "adapters.safetensors"},
            d \cup {"adapter_config", "adapters.safetensors",
                    "metadata", "metadata:complete"}}

\* Mutant of TrainForced: everything of the niche is removed.
TrainForcedAfresh(d) == Train({})

\* --force-retrain: shutil.rmtree of the adapter directory, the exports in its
\* fp4/ subdirectory included, before anything else.
TrainForced(d) == Train(d \ (AdapterFacts \cup Fp4Facts))

\* evaluator.py __main__: a report of zeros.
Evaluate(d) ==
    {(d \ EvalFacts) \cup {"eval", "eval:accuracy", "eval:perplexity",
                           "eval:latency_ms_per_token"}}

\* distillation.py __main__: one placeholder loss.
Distill(d) == {(d \ LossFacts) \cup {"loss"}}

\* _export_v1_fixed: headers, offsets and codes, with nothing before them that says
\* what they are.
V1Binary == {"fp4/", "*.fp4"}

\* _export_v2_adaptive: the records come after a framing that begins with the magic.
V2Binary == {"fp4/", "*.sgfp4", "sgfp4:magic"}

\* fp4_exporter.py __main__ without --adaptive: a v1 .fp4 and its manifest.  A
\* .sgfp4 of an earlier export stays where it is.
Quantize(d) ==
    {(d \ ManifestFacts) \cup V1Binary \cup {"manifest", "manifest:QUANT-03"}}

\* With --adaptive: the v2 binary, and the manifest of ManifestBuilder.build.
QuantizeAdaptive(d) ==
    {(d \ ManifestFacts) \cup V2Binary
       \cup {"manifest", "manifest:sha256", "manifest:sha256_matches"}}

\* Argument parsing: an option the parser does not know ends the script with
\* exit code 2.  prepare_datasets.py has no parser and ignores its arguments.
Understands(s) == IF s = "train" THEN {"--force-retrain"} ELSE {"--niche"}

\* _STAGE_COMMANDS: each script is called with --niche and nothing else.
RunnerOptions == {"--niche"}

AcceptsArguments(s) == RunnerOptions \subseteq Understands(s)

\* synthetic.py __main__ calls TeacherClient(project_root), whose first parameter
\* is the path of the configuration; opening a directory raises.
GetsClient(s) == s # "synthetic_data"

\* The disks the runner's call of stage s can leave when it exits 0.
Outcome(s, d) ==
    IF ~(AcceptsArguments(s) /\ GetsClient(s)) THEN {} ELSE
    CASE s = "data_prep"      -> DataPrep(d)
      [] s = "dedup"          -> Dedup(d)
      [] s = "train"          -> Train(d)
      [] s = "evaluate"       -> Evaluate(d)
      [] s = "distill"        -> Distill(d)
      [] s = "quantize"       -> Quantize(d)

\* What a script that is killed can leave besides that, in the order of its writes: a
\* file that was opened and is not written is empty, and none that can be parsed.
HalfWritten(s, d) ==
    CASE s = "dedup" /\ "jsonl" \in d -> {d \cup {"hashes"}, (d \ DedupFacts) \cup {"hashes"}}
      [] s = "evaluate"               -> {d \ EvalFacts}
      [] s = "distill"                -> {d \ LossFacts}
      [] s = "quantize"               -> {d \cup {"fp4/"}, d \cup V1Binary,
                                          (d \ ManifestFacts) \cup V1Binary}
      [] OTHER                        -> {}

\* A script without an Outcome fails on its arguments or its imports, and writes nothing.
Interrupted(s, d) ==
    IF Outcome(s, d) = {} THEN {} ELSE Outcome(s, d) \cup HalfWritten(s, d)

\* Commands a user can give by hand.
HandCommands == {"generate", "train", "train --force-retrain", "quantize --adaptive"}

ByHandOutcome(command, d) ==
    CASE command = "generate"              -> SyntheticData(d)
      [] command = "train"                 -> Train(d)
      [] command = "train --force-retrain" -> TrainForced(d)
      [] command = "quantize --adaptive"   -> QuantizeAdaptive(d)
=============================================================================
