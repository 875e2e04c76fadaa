------------------------------- MODULE Gates -------------------------------
(* The three gates of Benchmarker side by side.  They share no file, and   *)
(* none of them reads what another one decided.                            *)
EXTENDS BenchmarkGate, EvalGates

GatesInit == Init /\ EvalInit

GatesNext ==
    \/ Next /\ UNCHANGED evalVars
    \/ EvalNext /\ UNCHANGED vars

GatesSpec == GatesInit /\ [][GatesNext]_<<vars, evalVars>>

\* The files and the locals of all three gates stay what the code can make of them.
GatesTypeOK == TypeOK /\ EvalTypeOK
=============================================================================
