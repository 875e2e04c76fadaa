-------------------------- MODULE MCReputationCRDT --------------------------
(* An instance of ReputationCRDT for TLC: two updates with every fault, or *)
(* more with clocks that are set back and processes that restart.          *)
EXTENDS ReputationCRDT

CONSTANTS n1, n2, k1, MaxFaultyUpdates

\* Callers can name the node a task is booked on: every node rates every key.
MCRatesAll == [n \in Nodes |-> Keys]

VARIABLE disturbed  \* whether disks and gossip may fail

MCInit == Init /\ disturbed \in BOOLEAN

Undisturbed ==
    /\ failed' = failed
    /\ \A n \in Nodes : ~Lose(n) /\ (Deliver(n) => pending' # pending)

MCNext ==
    /\ Next
    /\ IF disturbed THEN made' <= MaxFaultyUpdates ELSE Undisturbed
    /\ UNCHANGED disturbed

MCSpec == MCInit /\ [][MCNext]_<<vars, disturbed>>
=============================================================================
