------------------------------- MODULE MCNode -------------------------------
(* A node that is started with one configuration or another. *)
EXTENDS Node, TLC

CONSTANTS planner, core, gmodel, mmodel

Config(sg, network, swarm) ==
    [sg |-> sg, network |-> network, swarm |-> swarm, knowledge |-> "loads",
     core |-> core, grammar |-> NoModel, math |-> NoModel, eager |-> <<>>]

Elm(r, m) == [role |-> r, model |-> m]

\* The interpreter with and without specialists, SGProcessing in the process and in
\* the network, the latter with ELMs loaded after it, some of which leave the shared
\* engine alone; a stub; no facts.
MCConfigs ==
    {[Config(FALSE, FALSE, FALSE) EXCEPT !.grammar = gmodel, !.math = mmodel],
     [Config(TRUE, FALSE, FALSE) EXCEPT !.math = mmodel],
     Config(TRUE, TRUE, TRUE),
     [Config(TRUE, TRUE, FALSE) EXCEPT !.grammar = gmodel,
          !.eager = <<Elm("code", planner), Elm("planner", planner), Elm("math", mmodel)>>],
     [Config(TRUE, TRUE, FALSE) EXCEPT
          !.eager = <<Elm("grounding", planner), Elm("toolsupport", planner)>>],
     [Config(FALSE, FALSE, FALSE) EXCEPT !.knowledge = "off",
          !.eager = <<Elm("grounding", planner), Elm("toolsupport", gmodel)>>],
     [Config(FALSE, FALSE, FALSE) EXCEPT !.core = NoModel],
     [Config(FALSE, FALSE, FALSE) EXCEPT !.knowledge = "fails"]}

\* Processes share the key file and nothing else: what one infers does not depend on
\* which, so the first is asked, when it had its key made and saved.
OnlyAsked == starts = 1 /\ ~faulty /\ passphrase = 1 /\ keyFile.is = "encrypted"

MCNext == NodeNext /\ (asked' > asked => OnlyAsked)
MCSpec == NodeInit /\ [][MCNext]_nodeVars /\ NodeFairness
=============================================================================
