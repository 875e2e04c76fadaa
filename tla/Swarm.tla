------------------------------- MODULE Swarm --------------------------------
(***************************************************************************)
(* A request in swarm mode (ApiServer::RunSwarm) on every node of a swarm: *)
(* the request thread, the gossip thread that serves the tasks of the      *)
(* topic (P2PNode, the handler RunSwarm registers) and the collection they *)
(* share (ResultAggregation: results_ and done_ under one mutex, a timed   *)
(* wait).  A text is the task whose prompt it answers, or "garbled" when   *)
(* two threads were inside an engine that keeps state.  Which output wins  *)
(* (WeightedConsensus) is left open: any of those collected may.           *)
(***************************************************************************)
EXTENDS Integers, Sequences, FiniteSets

CONSTANTS
    Nodes,
    Tasks,         \* the requests, each made once
    Asker,         \* [task -> the node it is asked of]
    Online,        \* the nodes whose P2PNode is running
    MinResponses,  \* ResultAggregation::Config::min_responses_
    MaxResponses,  \* ResultAggregation::Config::max_responses_
    Echo,          \* whether gossip hands a node what it published itself
    EngineShares,  \* whether concurrent Infer calls share an engine's state
    Faults         \* subset of {"loss", "infer"}

ASSUME SwarmAssumption ==
    /\ Asker \in [Tasks -> Nodes]
    /\ Online \subseteq Nodes
    /\ MinResponses \in Nat /\ MaxResponses \in Nat \ {0}
    /\ Echo \in BOOLEAN /\ EngineShares \in BOOLEAN
    /\ "none" \notin Tasks /\ "garbled" \notin Tasks

VARIABLES
    pc,         \* where the request thread is in RunSwarm
    current,    \* the task of its last request, or "none"
    wired,      \* whether m_taskHandler is set
    inbox,      \* the tasks gossip has still to deliver to each node
    serving,    \* the task the gossip thread is inferring on, or "none"
    overlap,    \* whether both threads were in an engine that keeps state
    results,    \* results_
    done,       \* done_
    collected,  \* the copy Collect returned, while its outputs are rated
    winner,     \* the text SelectWinner chose
    answer      \* what became of each request

vars == <<pc, current, wired, inbox, serving, overlap, results, done,
          collected, winner, answer>>

collection == <<results, done>>

Texts == Tasks \cup {"garbled"}

\* NodeOutput: the node it is from, the text, and (history) the request that was
\* under way when it was submitted.
Outputs == [node : Nodes, text : Texts, round : Tasks]

Unanswered == [how |-> "no", text |-> "none"]

Init ==
    /\ pc = [n \in Nodes |-> "idle"]
    /\ current = [n \in Nodes |-> "none"]
    /\ wired = [n \in Nodes |-> FALSE]
    /\ inbox = [n \in Nodes |-> {}]
    /\ serving = [n \in Nodes |-> "none"]
    /\ overlap = [n \in Nodes |-> FALSE]
    /\ results = [n \in Nodes |-> <<>>]
    /\ done = [n \in Nodes |-> FALSE]
    /\ collected = [n \in Nodes |-> <<>>]
    /\ winner = [n \in Nodes |-> "none"]
    /\ answer = [t \in Tasks |-> Unanswered]

-----------------------------------------------------------------------------
(* The engine *)

\* What Infer writes for task t on node n.
Inferred(n, t) == IF overlap[n] THEN {t, "garbled"} ELSE {t}

\* A thread enters the engine while the other is inside or not; when it leaves, the
\* other, if it is still inside, stays mixed up.
Enters(n, otherInside) == overlap' = [overlap EXCEPT ![n] = EngineShares /\ otherInside]
Leaves(n, otherInside) == overlap' = [overlap EXCEPT ![n] = @ /\ otherInside]

-----------------------------------------------------------------------------
(* ResultAggregation *)

\* Mutant of Submit: done_ is set one response early.
SubmitEarly(n, out) ==
    IF Len(results[n]) >= MaxResponses
      THEN UNCHANGED collection
      ELSE /\ results' = [results EXCEPT ![n] = Append(@, out)]
           /\ done' = [done EXCEPT ![n] = @ \/ Len(results[n]) + 2 >= MinResponses]

\* A full collection drops the output.
Submit(n, out) ==
    IF Len(results[n]) >= MaxResponses
      THEN UNCHANGED collection
      ELSE /\ results' = [results EXCEPT ![n] = Append(@, out)]
           /\ done' = [done EXCEPT ![n] = @ \/ Len(results'[n]) >= MinResponses]

\* Mutant of Reset: the outputs of the last round stay.
ResetDoneOnly(n) ==
    /\ done' = [done EXCEPT ![n] = FALSE]
    /\ UNCHANGED results

Reset(n) ==
    /\ results' = [results EXCEPT ![n] = <<>>]
    /\ done' = [done EXCEPT ![n] = FALSE]

\* The predicate of the wait.
Enough(n) == done[n] \/ Len(results[n]) >= MaxResponses

-----------------------------------------------------------------------------
(* RunSwarm, on the request thread *)

\* Without a running P2PNode the request is run locally at once.
Ask(t) ==
    LET n == Asker[t] IN
    /\ pc[n] = "idle"
    /\ answer[t] = Unanswered
    /\ current' = [current EXCEPT ![n] = t]
    /\ pc' = [pc EXCEPT ![n] = IF n \in Online THEN "reset" ELSE "infer"]
    /\ Enters(n, n \notin Online /\ serving[n] # "none")
    /\ UNCHANGED <<wired, inbox, serving, collection, collected, winner, answer>>

StartRound(n) ==
    /\ pc[n] = "reset"
    /\ Reset(n)
    /\ pc' = [pc EXCEPT ![n] = "register"]
    /\ UNCHANGED <<current, wired, inbox, serving, overlap, collected, winner, answer>>

\* OnTask: the handler stays when the round is over.
Register(n) ==
    /\ pc[n] = "register"
    /\ wired' = [wired EXCEPT ![n] = TRUE]
    /\ pc' = [pc EXCEPT ![n] = "broadcast"]
    /\ UNCHANGED <<current, inbox, serving, overlap, collection, collected, winner, answer>>

BroadcastTask(n) ==
    /\ pc[n] = "broadcast"
    /\ inbox' = [m \in Nodes |->
                   IF m \in Online /\ (m # n \/ Echo) THEN inbox[m] \cup {current[n]} ELSE inbox[m]]
    /\ pc' = [pc EXCEPT ![n] = "wait"]
    /\ UNCHANGED <<current, wired, serving, overlap, collection, collected, winner, answer>>

\* Collect returns a copy of what there is, and SelectWinner takes one of it.
Returns(n) ==
    /\ collected' = [collected EXCEPT ![n] = results[n]]
    /\ \E i \in 1..Len(results[n]) : winner' = [winner EXCEPT ![n] = results[n][i].text]
    /\ pc' = [pc EXCEPT ![n] = "rate"]
    /\ UNCHANGED <<current, wired, inbox, serving, overlap, collection, answer>>

Collect(n) ==
    /\ pc[n] = "wait"
    /\ Enough(n)
    /\ Returns(n)

\* Mutant of TimeOut: wait instead of wait_for.
NoTimeOut(n) ==
    /\ pc[n] = "wait"
    /\ Enough(n)
    /\ Returns(n)

\* The wait expires: with nothing collected the request is run locally.
TimeOut(n) ==
    /\ pc[n] = "wait"
    /\ ~Enough(n)
    /\ \/ results[n] # <<>> /\ Returns(n)
       \/ /\ results[n] = <<>>
          /\ pc' = [pc EXCEPT ![n] = "infer"]
          /\ Enters(n, serving[n] # "none")
          /\ UNCHANGED <<current, wired, inbox, serving, collection, collected, winner, answer>>

\* Each output is rated (ReputationCRDT has what that does), and the locals of the
\* round are gone with the answer.
SwarmAnswers(n) ==
    /\ pc[n] = "rate"
    /\ answer' = [answer EXCEPT ![current[n]] = [how |-> "swarm", text |-> winner[n]]]
    /\ collected' = [collected EXCEPT ![n] = <<>>]
    /\ winner' = [winner EXCEPT ![n] = "none"]
    /\ pc' = [pc EXCEPT ![n] = "idle"]
    /\ UNCHANGED <<current, wired, inbox, serving, overlap, collection>>

\* RunSingleNode: a failed inference fails the request.
RunSingleNode(n) ==
    /\ pc[n] = "infer"
    /\ \/ \E text \in Inferred(n, current[n]) :
             answer' = [answer EXCEPT ![current[n]] = [how |-> "local", text |-> text]]
       \/ /\ "infer" \in Faults
          /\ answer' = [answer EXCEPT ![current[n]] = [how |-> "failed", text |-> "none"]]
    /\ pc' = [pc EXCEPT ![n] = "idle"]
    /\ Leaves(n, serving[n] # "none")
    /\ UNCHANGED <<current, wired, inbox, serving, collection, collected, winner>>

-----------------------------------------------------------------------------
(* The gossip thread *)

\* The task_sub callback: without a handler the task is dropped.
TaskArrives(n) ==
    /\ serving[n] = "none"
    /\ \E t \in inbox[n] :
          /\ inbox' = [inbox EXCEPT ![n] = @ \ {t}]
          /\ serving' = [serving EXCEPT ![n] = IF wired[n] THEN t ELSE "none"]
    /\ Enters(n, wired[n] /\ pc[n] = "infer")
    /\ UNCHANGED <<pc, current, wired, collection, collected, winner, answer>>

\* Mutant of ServeTask: the result of Infer is not looked at.
ServeTaskUnchecked(n) ==
    /\ serving[n] # "none"
    /\ \E text \in Inferred(n, serving[n]) \cup {"none" : f \in Faults \cap {"infer"}} :
          Submit(n, [node |-> n, text |-> text, round |-> current[n]])
    /\ serving' = [serving EXCEPT ![n] = "none"]
    /\ Leaves(n, pc[n] = "infer")
    /\ UNCHANGED <<pc, current, wired, inbox, collected, winner, answer>>

\* The handler: the output goes into this node's own collection, under this
\* node's own id; a failed inference leaves nothing.
ServeTask(n) ==
    /\ serving[n] # "none"
    /\ \/ \E text \in Inferred(n, serving[n]) :
             Submit(n, [node |-> n, text |-> text, round |-> current[n]])
       \/ "infer" \in Faults /\ UNCHANGED collection
    /\ serving' = [serving EXCEPT ![n] = "none"]
    /\ Leaves(n, pc[n] = "infer")
    /\ UNCHANGED <<pc, current, wired, inbox, collected, winner, answer>>

Lose(n) ==
    /\ "loss" \in Faults
    /\ \E t \in inbox[n] : inbox' = [inbox EXCEPT ![n] = @ \ {t}]
    /\ UNCHANGED <<pc, current, wired, serving, overlap, collection, collected, winner,
                   answer>>

-----------------------------------------------------------------------------
RequestThread(n) ==
    \/ StartRound(n) \/ Register(n) \/ BroadcastTask(n) \/ Collect(n) \/ TimeOut(n)
    \/ SwarmAnswers(n) \/ RunSingleNode(n)

GossipThread(n) == TaskArrives(n) \/ ServeTask(n)

Next ==
    \/ \E t \in Tasks : Ask(t)
    \/ \E n \in Nodes : RequestThread(n) \/ GossipThread(n) \/ Lose(n)

Spec == Init /\ [][Next]_vars

\* Both threads run; wait_for expires; Infer returns.
FairSpec == Spec /\ \A n \in Nodes : WF_vars(RequestThread(n)) /\ WF_vars(GossipThread(n))

-----------------------------------------------------------------------------
(* Properties *)

TypeOK ==
    /\ pc \in [Nodes -> {"idle", "reset", "register", "broadcast", "wait", "rate", "infer"}]
    /\ current \in [Nodes -> Tasks \cup {"none"}]
    /\ wired \in [Nodes -> BOOLEAN]
    /\ inbox \in [Nodes -> SUBSET Tasks]
    /\ serving \in [Nodes -> Tasks \cup {"none"}]
    /\ overlap \in [Nodes -> BOOLEAN]
    /\ results \in [Nodes -> Seq(Outputs)]
    /\ done \in [Nodes -> BOOLEAN]
    /\ collected \in [Nodes -> Seq(Outputs)]
    /\ winner \in [Nodes -> Texts \cup {"none"}]
    /\ answer \in [Tasks -> [how : {"no", "swarm", "local", "failed"},
                             text : Texts \cup {"none"}]]

\* The early return of Collect is earned: done_ stands for at least min_responses_
\* results of this round, whatever the gossip thread submits between Reset and the
\* wait, or after the round (Submit, Reset, the predicate of the wait).
DoneMeansEnough ==
    \A n \in Nodes :
       /\ done[n] => Len(results[n]) >= MinResponses
       /\ Len(results[n]) <= MaxResponses

\* No output of an earlier round is in the collection a request waits on, nor in
\* the copy it rates and chooses from, although inferences begun in the earlier
\* round may still end in this one (Reset, RunSwarm).
OnlyThisRound ==
    \A n \in Nodes :
       /\ pc[n] \in {"register", "broadcast", "wait"} =>
             \A i \in 1..Len(results[n]) : results[n][i].round = current[n]
       /\ pc[n] = "rate" =>
             \A i \in 1..Len(collected[n]) : collected[n][i].round = current[n]

\* Every request ends, with an answer or an error, whatever is lost and whoever
\* does not answer (Collect waits with a timeout, and falls back).
RequestEnds ==
    \A t \in Tasks : current[Asker[t]] = t ~> answer[t] # Unanswered

\* ARCHITECTURE.md:14: "Broadcast -> [Nodes] -> Consensus -> Response": the
\* response of a swarm request is an output computed for its task.
SwarmAnswersTheTask ==
    \A t \in Tasks : answer[t].how = "swarm" => answer[t].text = t
=============================================================================
