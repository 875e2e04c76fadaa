----------------------------- MODULE MCPipeline -----------------------------
(* An instance of Pipeline for TLC.                                        *)
EXTENDS Pipeline

CONSTANTS code, medical

MCTwoNiches == <<code, medical>>

\* Every combination of --from-stage and --force.
MCAllFlags == [start : Stages, force : BOOLEAN]

\* Scripts that can leave anything at all behind when they exit 0.
MCAnyContent == [s \in Stages |-> Contents]
=============================================================================
