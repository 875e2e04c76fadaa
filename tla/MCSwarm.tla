------------------------------ MODULE MCSwarm -------------------------------
(* Instances of Swarm for TLC.                                             *)
EXTENDS Swarm, TLC

CONSTANTS alice, bob, a1, a2, a3, b1

\* Of two nodes, one makes three requests; or one makes two and the other one.
MCThreeOfAlice == (a1 :> alice) @@ (a2 :> alice) @@ (a3 :> alice)
MCThree == (a1 :> alice) @@ (a2 :> alice) @@ (b1 :> bob)
=============================================================================
