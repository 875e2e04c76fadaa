----------------------------- MODULE MCCascade ------------------------------
(* Instances of Cascade, and so of Teacher, for TLC.                       *)
EXTENDS Cascade

\* The niches of pipeline.yaml that the map changes and leaves as they are.
MCNiches == {"code", "medical"}

\* The keys of teacher_benchmark.
MCBenchmarks == {"coding", "orchestration", "medical", "qa_technical",
                 "encyclopedic", "patents"}
=============================================================================
