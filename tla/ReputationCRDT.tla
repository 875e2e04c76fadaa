--------------------------- MODULE ReputationCRDT ---------------------------
(***************************************************************************)
(* The reputation of swarm nodes, as every node keeps it: the RocksDB      *)
(* record (ReputationStorage), the last-writer-wins replica in memory      *)
(* (ReputationCRDT) and the gossip topic that carries serialised replicas  *)
(* (P2PNode::BroadcastCRDT / OnCRDT), driven by ApiServer's                *)
(* UpdateReputation on the request thread.                                 *)
(*                                                                         *)
(* A reputation record is who rated (the scores stand for it), the number  *)
(* of tasks rated, the wall-clock millisecond of the rating, and whether   *)
(* the scores still have all their digits: Serialize prints six of them.   *)
(***************************************************************************)
EXTENDS Integers, FiniteSets

CONSTANTS
    Nodes,         \* peers of the swarm
    Keys,          \* identity keys that are rated
    Rates,         \* [node -> the keys it rates]
    HandlerWired,  \* whether somebody registered an OnCRDT handler
    MaxClock,      \* bound: the clocks go from 1 to MaxClock
    MaxUpdates,    \* bound: the updates of all nodes together
    Faults         \* subset of {"clock", "restart", "loss", "dup", "get", "put"}

NoRecord == [ts |-> 0, who |-> "nobody", tasks |-> 0, digits |-> "none"]

Records == [ts : 1..MaxClock, who : Nodes, tasks : 1..MaxUpdates,
            digits : {"all", "six"}]

\* A line of a payload, or a merge: a record under its identity key.
Lines == [key : Keys, rec : Records]

ASSUME ReputationAssumption ==
    /\ MaxClock \in Nat \ {0}
    /\ MaxUpdates \in Nat
    /\ Rates \in [Nodes -> SUBSET Keys]
    /\ HandlerWired \in BOOLEAN
    /\ "nobody" \notin Nodes

VARIABLES
    clock,    \* wall clock of each node, in ms
    storage,  \* disk: the record of each key, or NoRecord
    crdt,     \* memory: state_, the replica
    pc,       \* where the request thread is in UpdateReputation
    work,     \* the updated record it holds, with its key
    lines,    \* lines of the payload being merged by the gossip thread
    pending,  \* payloads gossip has still to deliver to each node
    made,     \* updates so far
    seen,     \* history: the lines merged into the replica in this session
    failed    \* history: the keys of which a node's disk failed to read or write a record

vars == <<clock, storage, crdt, pc, work, lines, pending, made, seen, failed>>

Init ==
    /\ clock = [n \in Nodes |-> 1]
    /\ storage = [n \in Nodes |-> [k \in Keys |-> NoRecord]]
    /\ crdt = [n \in Nodes |-> [k \in Keys |-> NoRecord]]
    /\ pc = [n \in Nodes |-> "idle"]
    /\ work \in [Nodes -> [key : Keys, rec : {NoRecord}]]
    /\ lines = [n \in Nodes |-> {}]
    /\ pending = [n \in Nodes |-> {}]
    /\ made = 0
    /\ seen = [n \in Nodes |-> {}]
    /\ failed = [n \in Nodes |-> {}]

-----------------------------------------------------------------------------
(* ReputationCRDT                                                          *)

\* Mutant of Winner: the timestamps are not compared.
WinnerIsLast(local, remote) == remote

\* Merge: a new key is inserted, an entry only gives way to a later one.
Winner(local, remote) ==
    IF local = NoRecord \/ remote.ts > local.ts THEN remote ELSE local

Merge(n, line) ==
    /\ crdt' = [crdt EXCEPT ![n][line.key] = Winner(@, line.rec)]
    /\ seen' = [seen EXCEPT ![n] = @ \cup {line}]

\* operator<< of an ostream prints a double with six significant digits.
Rounded(r) == [r EXCEPT !.digits = "six"]

Serialize(n) ==
    {[key |-> k, rec |-> Rounded(crdt[n][k])] : k \in {j \in Keys : crdt[n][j] # NoRecord}}

-----------------------------------------------------------------------------
(* ApiServer::UpdateReputation, on the request thread                      *)

\* Mutant of ReadAndScore: the new record is not built on the stored one.
ReadAndScoreAfresh(n) ==
    /\ pc[n] = "idle"
    /\ made < MaxUpdates
    /\ \E k \in Rates[n] :
          work' = [work EXCEPT ![n] =
                     [key |-> k,
                      rec |-> [ts |-> clock[n], who |-> n, tasks |-> 1, digits |-> "all"]]]
    /\ pc' = [pc EXCEPT ![n] = "put"]
    /\ made' = made + 1
    /\ UNCHANGED <<clock, storage, crdt, lines, pending, seen, failed>>

\* Mutant of ReadAndScore: the task is counted twice.
ReadAndScoreTwice(n) ==
    /\ pc[n] = "idle"
    /\ made < MaxUpdates
    /\ \E k \in Rates[n] :
          work' = [work EXCEPT ![n] =
                     [key |-> k,
                      rec |-> [ts |-> clock[n], who |-> n,
                               tasks |-> storage[n][k].tasks + 2, digits |-> "all"]]]
    /\ pc' = [pc EXCEPT ![n] = "put"]
    /\ made' = made + 1
    /\ UNCHANGED <<clock, storage, crdt, lines, pending, seen, failed>>

\* Storage is read; a key without a record, or a failed read, starts afresh.
\* The new record is stamped with the wall clock.
ReadAndScore(n) ==
    /\ pc[n] = "idle"
    /\ made < MaxUpdates
    /\ \E k \in Rates[n] :
          \E old \in {storage[n][k].tasks} \cup {0 : f \in Faults \cap {"get"}} :
             /\ work' = [work EXCEPT ![n] =
                           [key |-> k,
                            rec |-> [ts |-> clock[n], who |-> n,
                                     tasks |-> old + 1, digits |-> "all"]]]
             /\ failed' = IF old = storage[n][k].tasks THEN failed
                          ELSE [failed EXCEPT ![n] = @ \cup {k}]
    /\ pc' = [pc EXCEPT ![n] = "put"]
    /\ made' = made + 1
    /\ UNCHANGED <<clock, storage, crdt, lines, pending, seen>>

\* A synchronous write, whose failure nobody looks at.
Put(n) ==
    /\ pc[n] = "put"
    /\ \/ /\ storage' = [storage EXCEPT ![n][work[n].key] = work[n].rec]
          /\ UNCHANGED failed
       \/ /\ "put" \in Faults
          /\ failed' = [failed EXCEPT ![n] = @ \cup {work[n].key}]
          /\ UNCHANGED storage
    /\ pc' = [pc EXCEPT ![n] = "merge"]
    /\ UNCHANGED <<clock, crdt, work, lines, pending, made, seen>>

\* Mutant of MergeOwn: only a broadcast would bring the update in.
MergeOwnSkipped(n) ==
    /\ pc[n] = "merge"
    /\ seen' = [seen EXCEPT ![n] = @ \cup {work[n]}]
    /\ pc' = [pc EXCEPT ![n] = "publish"]
    /\ UNCHANGED <<clock, storage, crdt, work, lines, pending, made, failed>>

MergeOwn(n) ==
    /\ pc[n] = "merge"
    /\ Merge(n, work[n])
    /\ pc' = [pc EXCEPT ![n] = "publish"]
    /\ UNCHANGED <<clock, storage, work, lines, pending, made, failed>>

\* BroadcastCRDT: every subscriber of the topic is to get the whole replica.
Publish(n) ==
    /\ pc[n] = "publish"
    /\ pending' = [m \in Nodes |-> pending[m] \cup {Serialize(n)}]
    /\ pc' = [pc EXCEPT ![n] = "idle"]
    /\ UNCHANGED <<clock, storage, crdt, work, lines, made, seen, failed>>

-----------------------------------------------------------------------------
(* The gossip thread                                                       *)

\* The crdt_sub callback: without a handler the payload is dropped.
Deliver(n) ==
    /\ lines[n] = {}
    /\ \E p \in pending[n] :
          /\ lines' = [lines EXCEPT ![n] = IF HandlerWired THEN p ELSE {}]
          /\ \/ pending' = [pending EXCEPT ![n] = @ \ {p}]
             \/ "dup" \in Faults /\ UNCHANGED pending
    /\ UNCHANGED <<clock, storage, crdt, pc, work, made, seen, failed>>

\* DeserializeAndMerge: the mutex is taken for one line at a time.
MergeLine(n) ==
    /\ \E l \in lines[n] :
          /\ Merge(n, l)
          /\ lines' = [lines EXCEPT ![n] = @ \ {l}]
    /\ UNCHANGED <<clock, storage, pc, work, pending, made, failed>>

Lose(n) ==
    /\ "loss" \in Faults
    /\ \E p \in pending[n] : pending' = [pending EXCEPT ![n] = @ \ {p}]
    /\ UNCHANGED <<clock, storage, crdt, pc, work, lines, made, seen, failed>>

-----------------------------------------------------------------------------
(* Clocks and restarts                                                     *)

Tick(n) ==
    /\ clock[n] < MaxClock
    /\ clock' = [clock EXCEPT ![n] = @ + 1]
    /\ UNCHANGED <<storage, crdt, pc, work, lines, pending, made, seen, failed>>

\* system_clock is set back.
StepBack(n) ==
    /\ "clock" \in Faults
    /\ \E t \in 1..(clock[n] - 1) : clock' = [clock EXCEPT ![n] = t]
    /\ UNCHANGED <<storage, crdt, pc, work, lines, pending, made, seen, failed>>

\* The process ends, at any point, and Initialize makes an empty replica; what
\* gossip had for the node is gone.
Restart(n) ==
    /\ "restart" \in Faults
    /\ crdt' = [crdt EXCEPT ![n] = [k \in Keys |-> NoRecord]]
    /\ seen' = [seen EXCEPT ![n] = {}]
    /\ lines' = [lines EXCEPT ![n] = {}]
    /\ pending' = [pending EXCEPT ![n] = {}]
    /\ pc' = [pc EXCEPT ![n] = "idle"]
    /\ UNCHANGED <<clock, storage, work, made, failed>>

Next == \E n \in Nodes :
            \/ ReadAndScore(n) \/ Put(n) \/ MergeOwn(n) \/ Publish(n)
            \/ Deliver(n) \/ MergeLine(n) \/ Lose(n)
            \/ Tick(n) \/ StepBack(n) \/ Restart(n)

Spec == Init /\ [][Next]_vars

-----------------------------------------------------------------------------
(* Properties *)

RecordsOrNone == Records \cup {NoRecord}

TypeOK ==
    /\ clock \in [Nodes -> 1..MaxClock]
    /\ storage \in [Nodes -> [Keys -> RecordsOrNone]]
    /\ crdt \in [Nodes -> [Keys -> RecordsOrNone]]
    /\ pc \in [Nodes -> {"idle", "put", "merge", "publish"}]
    /\ work \in [Nodes -> [key : Keys, rec : RecordsOrNone]]
    /\ lines \in [Nodes -> SUBSET Lines]
    /\ pending \in [Nodes -> SUBSET (SUBSET Lines)]
    /\ made \in 0..MaxUpdates
    /\ seen \in [Nodes -> SUBSET Lines]
    /\ failed \in [Nodes -> SUBSET Keys]

\* The replica is a last-writer-wins register: whatever the order, the losses,
\* the repetitions and the interleaving of the two threads, the entry of a key is
\* one of the records merged since the start, and none of them is later (Merge).
ReplicaIsLatest ==
    \A n \in Nodes, k \in Keys :
       LET merged == {l \in seen[n] : l.key = k}
       IN  /\ merged = {} => crdt[n][k] = NoRecord
           /\ merged # {} =>
                 /\ [key |-> k, rec |-> crdt[n][k]] \in merged
                 /\ \A l \in merged : l.rec.ts <= crdt[n][k].ts

\* The update a record stands for: digits are lost on the way.
UpdateOf(r) == <<r.ts, r.who, r.tasks>>
UpdatesSeen(n, k) == {UpdateOf(l.rec) : l \in {j \in seen[n] : j.key = k}}

\* No two different updates of the key carry the same millisecond.
NoTies(n, k) ==
    \A l, m \in seen[n] :
       l.key = k /\ m.key = k /\ l.rec.ts = m.rec.ts => UpdateOf(l.rec) = UpdateOf(m.rec)

\* Strong convergence: two replicas that have merged the same updates of a key,
\* in whatever order and grouping, agree on it, unless two updates carry the same
\* millisecond (Merge keeps the one that came first, which need not be the same).
SameUpdatesSameState ==
    \A m, n \in Nodes, k \in Keys :
       UpdatesSeen(m, k) = UpdatesSeen(n, k) /\ NoTies(n, k)
          => UpdateOf(crdt[m][k]) = UpdateOf(crdt[n][k])

\* What a node last stored of a key it has rated since its start, its replica has
\* or knows something no older, however the clock was set and whatever it received,
\* as long as its disk works (UpdateReputation: Put, then Merge; a crash between the
\* two ends the session).
ReplicaCoversStorage ==
    \A n \in Nodes, k \in Keys :
       /\ \E l \in seen[n] : l.key = k /\ l.rec.who = n /\ l.rec.digits = "all"
       /\ ~(pc[n] = "merge" /\ work[n].key = k) /\ k \notin failed[n]
       => crdt[n][k].ts >= storage[n][k].ts

\* A node's record of a key counts every update that node has put on disk, as long as
\* its disk works: each change adds exactly one, across restarts and whatever was
\* received or lost in between (UpdateReputation).
EveryRatingCounts ==
    [][\A n \in Nodes, k \in Keys :
          storage'[n][k] # storage[n][k]
             => storage'[n][k].tasks = storage[n][k].tasks + 1 \/ k \in failed[n]]_vars
=============================================================================
