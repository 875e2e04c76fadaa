---------------------------- MODULE SwarmProofs -----------------------------
(***************************************************************************)
(* Proofs about Swarm, for any nodes, requests, limits and faults: what    *)
(* the request thread may conclude from a collection that the gossip       *)
(* thread fills at any moment, whichever request it was working for.       *)
(***************************************************************************)
EXTENDS Swarm, TLAPS

\* A node that works for a request, its own or another's, has a request to file the
\* output under.
Begun ==
    \A n \in Nodes : pc[n] # "idle" \/ wired[n] \/ serving[n] # "none" => current[n] \in Tasks

Typed == TypeOK /\ Begun

LEMMA TypedInit == Init => Typed
<1> SUFFICES ASSUME Init PROVE Typed
  OBVIOUS
<1>1. /\ wired \in [Nodes -> BOOLEAN] /\ overlap \in [Nodes -> BOOLEAN] /\ done \in [Nodes -> BOOLEAN]
      /\ \A n \in Nodes : ~wired[n]
  BY DEF Init
<1>2. TypeOK
  BY <1>1 DEF Init, TypeOK, Unanswered
<1> QED BY <1>1, <1>2 DEF Typed, Begun, Init

\* What the gossip thread files: one output of the request under way, or nothing.
Filed(n) ==
    \/ UNCHANGED collection
    \/ \E text \in Texts :
          /\ Len(results[n]) < MaxResponses
          /\ results' = [results EXCEPT
                           ![n] = Append(@, [node |-> n, text |-> text, round |-> current[n]])]
          /\ done' = [done EXCEPT ![n] = @ \/ Len(results[n]) + 1 >= MinResponses]

LEMMA ServeTaskFiles ==
  ASSUME Typed, NEW n \in Nodes, ServeTask(n)
  PROVE  Filed(n)
<1>1. results[n] \in Seq(Outputs) /\ Len(results[n]) \in Nat /\ results \in [Nodes -> Seq(Outputs)]
  BY DEF Typed, TypeOK
<1>2. Inferred(n, serving[n]) \subseteq Texts
  BY DEF Inferred, Texts, ServeTask, Typed, TypeOK
<1>3. CASE UNCHANGED collection
  BY <1>3 DEF Filed
<1>4. CASE ~UNCHANGED collection
  <2>1. PICK text \in Texts : Submit(n, [node |-> n, text |-> text, round |-> current[n]])
    BY <1>2, <1>4 DEF ServeTask
  <2> DEFINE out == [node |-> n, text |-> text, round |-> current[n]]
  <2>2. /\ ~(Len(results[n]) >= MaxResponses)
        /\ results' = [results EXCEPT ![n] = Append(@, out)]
        /\ done' = [done EXCEPT ![n] = @ \/ Len(results'[n]) >= MinResponses]
    BY <1>4, <2>1 DEF Submit
  <2>3. out \in Outputs
    BY DEF Outputs, Typed, Begun, ServeTask
  <2>4. Len(results'[n]) = Len(results[n]) + 1
    BY <1>1, <2>2, <2>3
  <2>5. Len(results[n]) < MaxResponses
    BY <1>1, <2>2, SwarmAssumption
  <2> QED BY <2>2, <2>4, <2>5 DEF Filed
<1> QED BY <1>3, <1>4

LEMMA FiledTypes ==
  ASSUME Typed, NEW n \in Nodes, ServeTask(n)
  PROVE  results' \in [Nodes -> Seq(Outputs)] /\ done' \in [Nodes -> BOOLEAN]
<1>1. results \in [Nodes -> Seq(Outputs)] /\ done \in [Nodes -> BOOLEAN] /\ current[n] \in Tasks
  BY DEF Typed, TypeOK, Begun, ServeTask
<1>2. CASE UNCHANGED collection
  BY <1>1, <1>2 DEF collection
<1>3. CASE ~UNCHANGED collection
  <2>1. PICK text \in Texts :
          /\ results' = [results EXCEPT
                           ![n] = Append(@, [node |-> n, text |-> text, round |-> current[n]])]
          /\ done' = [done EXCEPT ![n] = @ \/ Len(results[n]) + 1 >= MinResponses]
    BY <1>3, ServeTaskFiles DEF Filed
  <2>2. [node |-> n, text |-> text, round |-> current[n]] \in Outputs
    BY <1>1 DEF Outputs
  <2>3. results' \in [Nodes -> Seq(Outputs)]
    BY <1>1, <2>1, <2>2
  <2>4. done' \in [Nodes -> BOOLEAN]
    BY <1>1, <2>1
  <2> QED BY <2>3, <2>4
<1> QED BY <1>2, <1>3

\* Entering and leaving the engine keeps the type of overlap.
LEMMA EngineTypes ==
  ASSUME TypeOK, NEW n \in Nodes, NEW inside \in BOOLEAN, Enters(n, inside) \/ Leaves(n, inside)
  PROVE  overlap' \in [Nodes -> BOOLEAN]
BY SwarmAssumption DEF TypeOK, Enters, Leaves

LEMMA TypedAsk ==
  ASSUME Typed, NEW t \in Tasks, Ask(t)
  PROVE  Typed'
<1> DEFINE n == Asker[t]
<1>1. n \in Nodes
  BY SwarmAssumption
<1>2. overlap' \in [Nodes -> BOOLEAN]
  BY <1>1, EngineTypes DEF Ask, Typed
<1>3. /\ current' = [current EXCEPT ![n] = t]
      /\ pc' = [pc EXCEPT ![n] = IF n \in Online THEN "reset" ELSE "infer"]
      /\ UNCHANGED <<wired, inbox, serving, collection, collected, winner, answer>>
  BY DEF Ask
<1>4. TypeOK'
  BY <1>1, <1>2, <1>3 DEF Typed, TypeOK, collection
<1>5. Begun'
  BY <1>1, <1>3 DEF Typed, TypeOK, Begun
<1> QED BY <1>4, <1>5 DEF Typed

LEMMA TypedReturns ==
  ASSUME Typed, NEW n \in Nodes, pc[n] = "wait", Returns(n)
  PROVE  Typed'
<1>1. results[n] \in Seq(Outputs)
  BY DEF Typed, TypeOK
<1>2. \A i \in 1..Len(results[n]) : results[n][i].text \in Texts
  <2>1. \A i \in 1..Len(results[n]) : results[n][i] \in Outputs
    BY <1>1
  <2> QED BY <2>1 DEF Outputs
<1>3. collected' \in [Nodes -> Seq(Outputs)] /\ winner' \in [Nodes -> Texts \cup {"none"}]
  BY <1>1, <1>2 DEF Returns, Typed, TypeOK
<1>4. TypeOK'
  BY <1>3 DEF Returns, Typed, TypeOK, collection
<1>5. Begun'
  BY DEF Returns, Typed, TypeOK, Begun
<1> QED BY <1>4, <1>5 DEF Typed

LEMMA TypedRequestThread ==
  ASSUME Typed, NEW n \in Nodes, RequestThread(n)
  PROVE  Typed'
<1>1. pc[n] # "idle" /\ current[n] \in Tasks
  BY DEF RequestThread, StartRound, Register, BroadcastTask, Collect, TimeOut, SwarmAnswers,
         RunSingleNode, Typed, Begun
<1>2. CASE StartRound(n)
  BY <1>1, <1>2 DEF StartRound, Reset, Typed, TypeOK, Begun
<1>3. CASE Register(n)
  <2>1. TypeOK'
    BY <1>3 DEF Register, Typed, TypeOK, collection
  <2>2. Begun'
    BY <1>1, <1>3 DEF Register, Typed, TypeOK, Begun
  <2> QED BY <2>1, <2>2 DEF Typed
<1>4. CASE BroadcastTask(n)
  <2>1. inbox' \in [Nodes -> SUBSET Tasks]
    BY <1>1, <1>4 DEF BroadcastTask, Typed, TypeOK
  <2>2. TypeOK'
    BY <1>4, <2>1 DEF BroadcastTask, Typed, TypeOK, collection
  <2>3. Begun'
    BY <1>1, <1>4 DEF BroadcastTask, Typed, TypeOK, Begun
  <2> QED BY <2>2, <2>3 DEF Typed
<1>5. CASE Collect(n) \/ (pc[n] = "wait" /\ Returns(n))
  BY <1>5, TypedReturns DEF Collect
<1>6. CASE TimeOut(n) /\ ~Returns(n)
  <2>1. overlap' \in [Nodes -> BOOLEAN]
    BY <1>6, EngineTypes DEF TimeOut, Typed
  <2>2. /\ pc' = [pc EXCEPT ![n] = "infer"]
        /\ UNCHANGED <<current, wired, inbox, serving, collection, collected, winner, answer>>
    BY <1>6 DEF TimeOut
  <2>3. TypeOK'
    BY <2>1, <2>2 DEF Typed, TypeOK, collection
  <2>4. Begun'
    BY <1>1, <2>2 DEF Typed, TypeOK, Begun
  <2> QED BY <2>3, <2>4 DEF Typed
<1>7. CASE SwarmAnswers(n)
  <2>1. TypeOK'
    BY <1>1, <1>7 DEF SwarmAnswers, Typed, TypeOK, collection
  <2>2. Begun'
    BY <1>7 DEF SwarmAnswers, Typed, TypeOK, Begun
  <2> QED BY <2>1, <2>2 DEF Typed
<1>8. CASE RunSingleNode(n)
  <2>1. overlap' \in [Nodes -> BOOLEAN]
    BY <1>8, EngineTypes DEF RunSingleNode, Typed
  <2>2. Inferred(n, current[n]) \subseteq Texts
    BY <1>1 DEF Inferred, Texts
  <2>3. answer' \in [Tasks -> [how : {"no", "swarm", "local", "failed"}, text : Texts \cup {"none"}]]
    <3>1. PICK how \in {"local", "failed"}, text \in Texts \cup {"none"} :
             answer' = [answer EXCEPT ![current[n]] = [how |-> how, text |-> text]]
      BY <1>8, <2>2 DEF RunSingleNode
    <3> QED BY <1>1, <3>1 DEF Typed, TypeOK
  <2>4. TypeOK'
    BY <1>8, <2>1, <2>3 DEF RunSingleNode, Typed, TypeOK, collection
  <2>5. Begun'
    BY <1>8 DEF RunSingleNode, Typed, TypeOK, Begun
  <2> QED BY <2>4, <2>5 DEF Typed
<1> QED BY <1>2, <1>3, <1>4, <1>5, <1>6, <1>7, <1>8 DEF RequestThread, TimeOut

LEMMA TypedGossipThread ==
  ASSUME Typed, NEW n \in Nodes, GossipThread(n)
  PROVE  Typed'
<1>1. CASE TaskArrives(n)
  <2>1. PICK t \in inbox[n] :
           /\ inbox' = [inbox EXCEPT ![n] = @ \ {t}]
           /\ serving' = [serving EXCEPT ![n] = IF wired[n] THEN t ELSE "none"]
    BY <1>1 DEF TaskArrives
  <2>2. t \in Tasks /\ wired[n] \in BOOLEAN
    BY <2>1 DEF Typed, TypeOK
  <2>3. inbox' \in [Nodes -> SUBSET Tasks] /\ serving' \in [Nodes -> Tasks \cup {"none"}]
    BY <2>1, <2>2 DEF Typed, TypeOK
  <2>4. overlap' \in [Nodes -> BOOLEAN]
    BY <1>1, <2>2, EngineTypes DEF TaskArrives, Typed
  <2>5. UNCHANGED <<pc, current, wired, collection, collected, winner, answer>>
    BY <1>1 DEF TaskArrives
  <2>6. TypeOK'
    BY <2>3, <2>4, <2>5 DEF Typed, TypeOK, collection
  <2>7. Begun'
    BY <2>1, <2>5 DEF Typed, TypeOK, Begun
  <2> QED BY <2>6, <2>7 DEF Typed
<1>2. CASE ServeTask(n)
  <2>1. results' \in [Nodes -> Seq(Outputs)] /\ done' \in [Nodes -> BOOLEAN]
    BY <1>2, FiledTypes
  <2>2. overlap' \in [Nodes -> BOOLEAN]
    BY <1>2, EngineTypes DEF ServeTask, Typed
  <2>3. /\ serving' = [serving EXCEPT ![n] = "none"]
        /\ UNCHANGED <<pc, current, wired, inbox, collected, winner, answer>>
    BY <1>2 DEF ServeTask
  <2>4. TypeOK'
    BY <2>1, <2>2, <2>3 DEF Typed, TypeOK
  <2>5. Begun'
    BY <2>3 DEF Typed, TypeOK, Begun
  <2> QED BY <2>4, <2>5 DEF Typed
<1> QED BY <1>1, <1>2 DEF GossipThread

LEMMA TypedNext == Typed /\ [Next]_vars => Typed'
<1> SUFFICES ASSUME Typed, [Next]_vars PROVE Typed'
  OBVIOUS
<1>1. CASE \E n \in Nodes : Lose(n)
  BY <1>1 DEF Lose, Typed, TypeOK, Begun, collection
<1>2. CASE UNCHANGED vars
  BY <1>2 DEF vars, Typed, TypeOK, Begun
<1> QED BY <1>1, <1>2, TypedAsk, TypedRequestThread, TypedGossipThread DEF Next

\* Every variable keeps its type; in particular an output is always filed under a request.
THEOREM TypeCorrect == Spec => []TypeOK
<1>1. Typed => TypeOK
  BY DEF Typed
<1> QED BY <1>1, TypedInit, TypedNext, PTL DEF Spec
-----------------------------------------------------------------------------
(* The collection *)

LEMMA EnoughNext == Typed /\ DoneMeansEnough /\ [Next]_vars => DoneMeansEnough'
<1> SUFFICES ASSUME Typed, DoneMeansEnough, [Next]_vars PROVE DoneMeansEnough'
  OBVIOUS
<1>1. results \in [Nodes -> Seq(Outputs)] /\ done \in [Nodes -> BOOLEAN]
      /\ MinResponses \in Nat /\ MaxResponses \in Nat \ {0}
  BY SwarmAssumption DEF Typed, TypeOK
<1>2. CASE UNCHANGED collection
  BY <1>2 DEF DoneMeansEnough, collection
<1>3. CASE \E n \in Nodes : StartRound(n)
  BY <1>1, <1>3 DEF StartRound, Reset, DoneMeansEnough
<1>4. CASE \E n \in Nodes : ServeTask(n)
  <2>1. PICK n \in Nodes : ServeTask(n)
    BY <1>4
  <2>2. CASE ~UNCHANGED collection
    <3>1. PICK text \in Texts :
            /\ Len(results[n]) < MaxResponses
            /\ results' = [results EXCEPT
                             ![n] = Append(@, [node |-> n, text |-> text, round |-> current[n]])]
            /\ done' = [done EXCEPT ![n] = @ \/ Len(results[n]) + 1 >= MinResponses]
      BY <2>1, <2>2, ServeTaskFiles DEF Filed
    <3>2. Len(results[n]) \in Nat /\ Len(results'[n]) = Len(results[n]) + 1
      <4>1. [node |-> n, text |-> text, round |-> current[n]] \in Outputs
        BY <2>1 DEF Outputs, Typed, Begun, ServeTask
      <4> QED BY <1>1, <3>1, <4>1
    <3>3. Len(results'[n]) <= MaxResponses
      BY <1>1, <3>1, <3>2
    <3>4. done'[n] => Len(results'[n]) >= MinResponses
      <4>1. done'[n] => done[n] \/ Len(results[n]) + 1 >= MinResponses
        BY <1>1, <3>1
      <4> QED BY <1>1, <3>2, <4>1 DEF DoneMeansEnough
    <3>5. \A m \in Nodes \ {n} : results'[m] = results[m] /\ done'[m] = done[m]
      BY <1>1, <3>1
    <3> QED BY <3>3, <3>4, <3>5 DEF DoneMeansEnough
  <2> QED BY <1>2, <2>2
<1>5. ASSUME NEW n \in Nodes, RequestThread(n), ~StartRound(n)
      PROVE  UNCHANGED collection
  BY <1>5 DEF RequestThread, Register, BroadcastTask, Collect, TimeOut, Returns, SwarmAnswers,
              RunSingleNode
<1>6. UNCHANGED vars => UNCHANGED collection
  BY DEF vars, collection
<1> QED BY <1>2, <1>3, <1>4, <1>5, <1>6 DEF Next, Ask, GossipThread, TaskArrives, Lose

\* Collect returns early only with min_responses_ results of its round, and the collection
\* never holds more than max_responses_, whatever the gossip thread submits and when.
THEOREM EarlyReturnIsEarned == Spec => []DoneMeansEnough
<1>1. Init => DoneMeansEnough
  BY SwarmAssumption DEF Init, DoneMeansEnough
<1> QED BY <1>1, TypedInit, TypedNext, EnoughNext, PTL DEF Spec

LEMMA ThisRoundNext == Typed /\ OnlyThisRound /\ [Next]_vars => OnlyThisRound'
<1> SUFFICES ASSUME Typed, OnlyThisRound, [Next]_vars PROVE OnlyThisRound'
  OBVIOUS
<1>1. /\ results \in [Nodes -> Seq(Outputs)] /\ collected \in [Nodes -> Seq(Outputs)]
      /\ pc \in [Nodes -> {"idle", "reset", "register", "broadcast", "wait", "rate", "infer"}]
      /\ current \in [Nodes -> Tasks \cup {"none"}]
  BY DEF Typed, TypeOK
<1>2. CASE \E t \in Tasks : Ask(t)
  <2>1. PICK t \in Tasks : Ask(t)
    BY <1>2
  <2>2. pc'[Asker[t]] \in {"reset", "infer"} /\ results' = results /\ collected' = collected
    BY <1>1, <2>1, SwarmAssumption DEF Ask, collection
  <2>3. \A m \in Nodes \ {Asker[t]} : pc'[m] = pc[m] /\ current'[m] = current[m]
    BY <1>1, <2>1 DEF Ask
  <2> QED BY <2>2, <2>3 DEF OnlyThisRound
<1>3. CASE \E n \in Nodes : RequestThread(n)
  <2>1. PICK n \in Nodes : RequestThread(n)
    BY <1>3
  <2>2. current' = current
    BY <2>1 DEF RequestThread, StartRound, Register, BroadcastTask, Collect, TimeOut, Returns,
          SwarmAnswers, RunSingleNode
  <2>3. \A m \in Nodes \ {n} : pc'[m] = pc[m] /\ results'[m] = results[m] /\ collected'[m] = collected[m]
    BY <1>1, <2>1 DEF RequestThread, StartRound, Reset, Register, BroadcastTask, Collect, TimeOut,
          Returns, SwarmAnswers, RunSingleNode, collection
  <2>4. CASE StartRound(n)
    <3>1. pc'[n] = "register" /\ results'[n] = << >>
      BY <1>1, <2>4 DEF StartRound, Reset
    <3> QED BY <2>2, <2>3, <3>1 DEF OnlyThisRound
  <2>5. CASE Register(n) \/ BroadcastTask(n)
    <3>1. /\ pc[n] \in {"register", "broadcast"} /\ pc'[n] \in {"broadcast", "wait"}
          /\ results' = results
      BY <1>1, <2>5 DEF Register, BroadcastTask, collection
    <3> QED BY <2>2, <2>3, <3>1 DEF OnlyThisRound
  <2>6. CASE pc[n] = "wait" /\ Returns(n)
    <3>1. pc'[n] = "rate" /\ collected'[n] = results[n]
      BY <1>1, <2>6 DEF Returns
    <3> QED BY <2>2, <2>3, <2>6, <3>1 DEF OnlyThisRound
  <2>7. CASE pc'[n] \in {"idle", "infer"}
    BY <2>2, <2>3, <2>7 DEF OnlyThisRound
  <2>8. (TimeOut(n) /\ ~Returns(n)) \/ SwarmAnswers(n) \/ RunSingleNode(n)
           => pc'[n] \in {"idle", "infer"}
    BY <1>1 DEF TimeOut, SwarmAnswers, RunSingleNode
  <2> QED BY <2>1, <2>4, <2>5, <2>6, <2>7, <2>8 DEF RequestThread, Collect, TimeOut
<1>4. CASE \E n \in Nodes : ServeTask(n)
  <2>1. PICK n \in Nodes : ServeTask(n)
    BY <1>4
  <2>2. UNCHANGED <<pc, current, collected>>
    BY <2>1 DEF ServeTask
  <2>3. CASE UNCHANGED collection
    BY <2>2, <2>3 DEF OnlyThisRound, collection
  <2>4. CASE ~UNCHANGED collection
    <3>1. PICK out \in Outputs :
             results' = [results EXCEPT ![n] = Append(@, out)] /\ out.round = current[n]
      <4>1. PICK text \in Texts :
               results' = [results EXCEPT
                              ![n] = Append(@, [node |-> n, text |-> text, round |-> current[n]])]
        BY <2>1, <2>4, ServeTaskFiles DEF Filed
      <4>2. [node |-> n, text |-> text, round |-> current[n]] \in Outputs
        BY <2>1 DEF Outputs, Typed, Begun, ServeTask
      <4> QED BY <4>1, <4>2
    <3>2. results'[n] = Append(results[n], out) /\ \A m \in Nodes \ {n} : results'[m] = results[m]
      BY <1>1, <3>1
    <3>3. \A i \in 1..Len(results'[n]) :
             (i \in 1..Len(results[n]) /\ results'[n][i] = results[n][i]) \/ results'[n][i] = out
      BY <1>1, <3>2
    <3> QED BY <2>2, <3>1, <3>2, <3>3 DEF OnlyThisRound
  <2> QED BY <2>3, <2>4
<1>5. CASE (\E n \in Nodes : TaskArrives(n) \/ Lose(n)) \/ UNCHANGED vars
  BY <1>5 DEF TaskArrives, Lose, vars, collection, OnlyThisRound
<1> QED BY <1>2, <1>3, <1>4, <1>5 DEF Next, GossipThread

\* A request waits on, rates and chooses from outputs submitted during it alone, although
\* inferences begun in an earlier round may end in this one.
THEOREM NoEarlierRound == Spec => []OnlyThisRound
<1>1. Init => OnlyThisRound
  BY DEF Init, OnlyThisRound
<1> QED BY <1>1, TypedInit, TypedNext, ThisRoundNext, PTL DEF Spec
=============================================================================
