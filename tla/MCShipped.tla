------------------------------ MODULE MCShipped ------------------------------
(* Instances of ShippedPipeline for TLC: the seven stages of one niche.    *)
EXTENDS ShippedPipeline

CONSTANT code

MCOneNiche   == <<code>>
MCStageCount == Len(STAGES)

\* From the first stage, and from past the ones that cannot pass; a stage that fails
\* lets the runner go on to any other.
MCFlags == [start : {1, 6}, force : BOOLEAN]

\* What exits 0 is for StageFiles to say.
MCOnSuccess == [s \in 1..7 |-> {"valid", "invalid"}]
=============================================================================
