------------------------ MODULE ReputationCRDTProofs ------------------------
(***************************************************************************)
(* Proofs about ReputationCRDT, for any number of nodes and keys, any      *)
(* clocks and faults: type correctness, that every replica is a            *)
(* last-writer-wins register, strong convergence without ties, and that    *)
(* the replica and the disk keep up with the ratings.                      *)
(***************************************************************************)
EXTENDS ReputationCRDT, TLAPS

\* A record counts at most as many tasks as there were updates.
CountsAreMade ==
    \A n \in Nodes :
       /\ \A k \in Keys : storage[n][k].tasks <= made
       /\ work[n].rec.tasks <= made
       /\ pc[n] # "idle" => work[n].rec \in Records

Typed == TypeOK /\ CountsAreMade

-----------------------------------------------------------------------------
(* Facts about the data *)

LEMMA RecordFacts ==
  /\ NoRecord \notin Records
  /\ NoRecord.ts = 0 /\ NoRecord.tasks = 0
  /\ \A r \in Records :
        /\ r.ts \in 1..MaxClock /\ r.tasks \in 1..MaxUpdates
        /\ r.ts \in Int /\ r.tasks \in Int
        /\ Rounded(r) \in Records
        /\ UpdateOf(Rounded(r)) = UpdateOf(r)
  BY ReputationAssumption DEF Records, NoRecord, Rounded, UpdateOf

LEMMA Update2 ==
  ASSUME NEW X, NEW Y, NEW V, NEW f \in [X -> [Y -> V]], NEW x, NEW y, NEW v \in V
  PROVE  [f EXCEPT ![x][y] = v] \in [X -> [Y -> V]]
  OBVIOUS

LEMMA ReadBack ==
  ASSUME NEW X, NEW Y, NEW V, NEW f \in [X -> [Y -> V]],
         NEW x \in X, NEW y \in Y, NEW v
  PROVE  \A a \in X, b \in Y :
            [f EXCEPT ![x][y] = v][a][b]
               = IF a = x /\ b = y THEN v ELSE f[a][b]
  OBVIOUS

\* What Merge does to a replica, entry by entry.
LEMMA MergeEffect ==
  ASSUME TypeOK, NEW n \in Nodes, NEW line \in Lines, Merge(n, line)
  PROVE  /\ crdt' \in [Nodes -> [Keys -> RecordsOrNone]]
         /\ seen' \in [Nodes -> SUBSET Lines]
         /\ \A m \in Nodes, k \in Keys :
               crdt'[m][k] = IF m = n /\ k = line.key
                               THEN Winner(crdt[m][k], line.rec) ELSE crdt[m][k]
         /\ \A m \in Nodes :
               seen'[m] = IF m = n THEN seen[m] \cup {line} ELSE seen[m]
<1>1. line.key \in Keys /\ line.rec \in Records
  BY DEF Lines
<1>2. Winner(crdt[n][line.key], line.rec) \in RecordsOrNone
  BY <1>1 DEF TypeOK, Winner, RecordsOrNone
<1>3. crdt' = [crdt EXCEPT ![n][line.key] = Winner(crdt[n][line.key], line.rec)]
  BY DEF Merge
<1>4. crdt' \in [Nodes -> [Keys -> RecordsOrNone]]
  BY <1>2, <1>3, Update2 DEF TypeOK
<1>5. \A m \in Nodes, k \in Keys :
         crdt'[m][k] = IF m = n /\ k = line.key
                         THEN Winner(crdt[m][k], line.rec) ELSE crdt[m][k]
  BY <1>1, <1>3, ReadBack DEF TypeOK
<1>6. /\ seen' \in [Nodes -> SUBSET Lines]
      /\ \A m \in Nodes : seen'[m] = IF m = n THEN seen[m] \cup {line} ELSE seen[m]
  BY DEF Merge, TypeOK
<1>. QED
  BY <1>4, <1>5, <1>6

LEMMA SerializeType ==
  ASSUME TypeOK, NEW n \in Nodes
  PROVE  Serialize(n) \in SUBSET Lines
  BY RecordFacts DEF Serialize, TypeOK, Lines, RecordsOrNone

-----------------------------------------------------------------------------
(* Type correctness *)

LEMMA TypeInit == Init => Typed
  BY ReputationAssumption, RecordFacts
     DEF Init, Typed, TypeOK, CountsAreMade, RecordsOrNone

\* A step that touches neither the counts nor the records they are in.
LEMMA CountsKept ==
  CountsAreMade /\ UNCHANGED <<storage, work, made>>
     /\ (\A n \in Nodes : pc'[n] # "idle" => pc[n] # "idle")
  => CountsAreMade'
  BY DEF CountsAreMade

LEMMA TypeNext == Typed /\ [Next]_vars => Typed'
<1> SUFFICES ASSUME Typed, [Next]_vars PROVE Typed'
  OBVIOUS
<1> USE DEF Typed
<1>1. ASSUME NEW n \in Nodes, ReadAndScore(n) PROVE Typed'
  <2>1. PICK k \in Rates[n] :
          \E old \in {storage[n][k].tasks} \cup {0 : f \in Faults \cap {"get"}} :
             /\ work' = [work EXCEPT ![n] =
                           [key |-> k,
                            rec |-> [ts |-> clock[n], who |-> n,
                                     tasks |-> old + 1, digits |-> "all"]]]
             /\ failed' = IF old = storage[n][k].tasks THEN failed
                          ELSE [failed EXCEPT ![n] = @ \cup {k}]
    BY <1>1 DEF ReadAndScore
  <2>2. PICK old \in {storage[n][k].tasks, 0} :
             /\ work' = [work EXCEPT ![n] =
                           [key |-> k,
                            rec |-> [ts |-> clock[n], who |-> n,
                                     tasks |-> old + 1, digits |-> "all"]]]
             /\ failed' = IF old = storage[n][k].tasks THEN failed
                          ELSE [failed EXCEPT ![n] = @ \cup {k}]
    BY <2>1
  <2>3. k \in Keys
    BY ReputationAssumption
  <2>4. storage[n][k] \in RecordsOrNone /\ storage[n][k].tasks <= made
    BY <2>3 DEF TypeOK, CountsAreMade
  <2>5. storage[n][k].tasks \in Nat /\ old \in Nat /\ old <= made
    BY <2>2, <2>4, RecordFacts, ReputationAssumption DEF RecordsOrNone, TypeOK
  <2>6. /\ made \in 0..MaxUpdates /\ made < MaxUpdates /\ made' = made + 1
        /\ made' \in 0..MaxUpdates /\ old + 1 \in 1..MaxUpdates /\ old + 1 <= made'
    BY <1>1, <2>5, ReputationAssumption DEF ReadAndScore, TypeOK
  <2> DEFINE rec == [ts |-> clock[n], who |-> n, tasks |-> old + 1, digits |-> "all"]
  <2>7. rec \in Records
    BY <2>6 DEF TypeOK, Records
  <2>8. TypeOK'
    BY <1>1, <2>2, <2>3, <2>6, <2>7 DEF ReadAndScore, TypeOK, RecordsOrNone
  <2>9. CountsAreMade'
    <3>1. \A m \in Nodes : work'[m].rec = IF m = n THEN rec ELSE work[m].rec
      BY <2>2 DEF TypeOK
    <3>2. \A m \in Nodes : work[m].rec.tasks <= made'
      <4>1. \A m \in Nodes : work[m].rec.tasks \in Int
        BY RecordFacts DEF TypeOK, RecordsOrNone
      <4>. QED
        BY <2>6, <4>1 DEF CountsAreMade
    <3>3. \A m \in Nodes, j \in Keys : storage'[m][j].tasks <= made'
      <4>1. \A m \in Nodes, j \in Keys : storage[m][j].tasks \in Int
        BY RecordFacts DEF TypeOK, RecordsOrNone
      <4>. QED
        BY <1>1, <2>6, <4>1 DEF CountsAreMade, ReadAndScore
    <3>4. \A m \in Nodes : pc'[m] # "idle" => work'[m].rec \in Records
      <4>1. \A m \in Nodes : m # n => pc'[m] = pc[m]
        BY <1>1 DEF ReadAndScore, TypeOK
      <4>. QED
        BY <2>7, <3>1, <4>1 DEF CountsAreMade
    <3>5. rec.tasks <= made'
      BY <2>6
    <3>6. \A m \in Nodes : work'[m].rec.tasks <= made'
      BY <3>1, <3>2, <3>5
    <3>. QED
      BY <3>3, <3>4, <3>6 DEF CountsAreMade
  <2>. QED
    BY <2>8, <2>9
<1>2. ASSUME NEW n \in Nodes, Put(n) PROVE Typed'
  <2>1. work[n].key \in Keys /\ work[n].rec \in RecordsOrNone
    BY DEF TypeOK
  <2>2. storage' \in [Nodes -> [Keys -> RecordsOrNone]]
    <3>1. storage \in [Nodes -> [Keys -> RecordsOrNone]]
      BY DEF TypeOK
    <3>2. [storage EXCEPT ![n][work[n].key] = work[n].rec] \in [Nodes -> [Keys -> RecordsOrNone]]
      BY <2>1, <3>1, Update2
    <3>. QED
      BY <1>2, <3>1, <3>2 DEF Put
  <2>3. failed' \in [Nodes -> SUBSET Keys]
    <3>1. \/ failed' = failed
          \/ failed' = [failed EXCEPT ![n] = failed[n] \cup {work[n].key}]
      BY <1>2 DEF Put
    <3>2. failed \in [Nodes -> SUBSET Keys]
      BY DEF TypeOK
    <3>3. failed[n] \cup {work[n].key} \in SUBSET Keys
      BY <2>1, <3>2
    <3>. QED
      BY <3>1, <3>2, <3>3
  <2>4. TypeOK'
    BY <1>2, <2>2, <2>3 DEF TypeOK, Put
  <2>5. \A m \in Nodes, k \in Keys :
           storage'[m][k] \in {storage[m][k], work[m].rec}
    <3>1. CASE storage' = storage
      BY <3>1
    <3>2. CASE storage' = [storage EXCEPT ![n][work[n].key] = work[n].rec]
      BY <2>1, <3>2, ReadBack DEF TypeOK
    <3>. QED
      BY <1>2, <3>1, <3>2 DEF Put
  <2>6. CountsAreMade'
    BY <1>2, <2>5 DEF CountsAreMade, Put, TypeOK
  <2>. QED
    BY <2>4, <2>6
<1>3. ASSUME NEW n \in Nodes, MergeOwn(n) PROVE Typed'
  <2>1. work[n] \in Lines
    BY <1>3 DEF TypeOK, CountsAreMade, MergeOwn, Lines
  <2>. QED
    BY <1>3, <2>1, MergeEffect, CountsKept DEF MergeOwn, TypeOK
<1>4. ASSUME NEW n \in Nodes, Publish(n) PROVE Typed'
  BY <1>4, SerializeType, CountsKept DEF Publish, TypeOK
<1>5. ASSUME NEW n \in Nodes, Deliver(n) PROVE Typed'
  <2>1. lines' \in [Nodes -> SUBSET Lines]
    BY <1>5 DEF Deliver, TypeOK
  <2>2. pending' \in [Nodes -> SUBSET (SUBSET Lines)]
    BY <1>5 DEF Deliver, TypeOK
  <2>. QED
    BY <1>5, <2>1, <2>2, CountsKept DEF Deliver, TypeOK
<1>6. ASSUME NEW n \in Nodes, MergeLine(n) PROVE Typed'
  <2>1. PICK l \in lines[n] :
          Merge(n, l) /\ lines' = [lines EXCEPT ![n] = @ \ {l}]
    BY <1>6 DEF MergeLine
  <2>2. l \in Lines
    BY DEF TypeOK
  <2>. QED
    BY <1>6, <2>1, <2>2, MergeEffect, CountsKept DEF MergeLine, TypeOK
<1>7. ASSUME NEW n \in Nodes, Lose(n) PROVE Typed'
  BY <1>7, CountsKept DEF Lose, TypeOK
<1>8. ASSUME NEW n \in Nodes, Tick(n) PROVE Typed'
  BY <1>8, CountsKept, ReputationAssumption DEF Tick, TypeOK
<1>9. ASSUME NEW n \in Nodes, StepBack(n) PROVE Typed'
  BY <1>9, CountsKept, ReputationAssumption DEF StepBack, TypeOK
<1>10. ASSUME NEW n \in Nodes, Restart(n) PROVE Typed'
  BY <1>10, CountsKept DEF Restart, TypeOK, RecordsOrNone
<1>11. CASE UNCHANGED vars
  BY <1>11, CountsKept DEF vars, TypeOK
<1>. QED
  BY <1>1, <1>2, <1>3, <1>4, <1>5, <1>6, <1>7, <1>8, <1>9, <1>10, <1>11 DEF Next

\* The variables only ever hold values of their types: among others, a record
\* that is stored, merged or sent carries a timestamp and a task count.
THEOREM TypeCorrect == Spec => []TypeOK
<1>. Typed => TypeOK
  BY DEF Typed
<1>. QED
  BY TypeInit, TypeNext, PTL DEF Spec

-----------------------------------------------------------------------------
(* The replica is a last-writer-wins register *)

\* What ReplicaIsLatest says of one entry.
EntryIsLatest(n, k) ==
    LET merged == {l \in seen[n] : l.key = k}
    IN  /\ merged = {} => crdt[n][k] = NoRecord
        /\ merged # {} =>
              /\ [key |-> k, rec |-> crdt[n][k]] \in merged
              /\ \A l \in merged : l.rec.ts <= crdt[n][k].ts

LEMMA EntryByEntry == ReplicaIsLatest <=> \A n \in Nodes, k \in Keys : EntryIsLatest(n, k)
  BY DEF ReplicaIsLatest, EntryIsLatest

\* Merge keeps every entry the latest of the lines merged under its key.
LEMMA MergeKeepsLatest ==
  ASSUME TypeOK, ReplicaIsLatest, NEW n \in Nodes, NEW line \in Lines, Merge(n, line)
  PROVE  ReplicaIsLatest'
<1> SUFFICES ASSUME NEW m \in Nodes, NEW k \in Keys PROVE EntryIsLatest(m, k)'
  BY DEF ReplicaIsLatest, EntryIsLatest
<1>1. EntryIsLatest(m, k)
  BY EntryByEntry
<1>2. /\ crdt'[m][k] = IF m = n /\ k = line.key
                         THEN Winner(crdt[m][k], line.rec) ELSE crdt[m][k]
      /\ seen'[m] = IF m = n THEN seen[m] \cup {line} ELSE seen[m]
  <2>1. \A i \in Nodes, j \in Keys :
           crdt'[i][j] = IF i = n /\ j = line.key
                           THEN Winner(crdt[i][j], line.rec) ELSE crdt[i][j]
    BY MergeEffect
  <2>2. \A i \in Nodes : seen'[i] = IF i = n THEN seen[i] \cup {line} ELSE seen[i]
    BY MergeEffect
  <2>. QED
    BY <2>1, <2>2
<1>3. CASE ~(m = n /\ k = line.key)
  <2>1. {l \in seen'[m] : l.key = k} = {l \in seen[m] : l.key = k}
    BY <1>2, <1>3
  <2>. QED
    BY <1>1, <1>2, <1>3, <2>1 DEF EntryIsLatest
<1>4. CASE m = n /\ k = line.key
  <2> DEFINE old == crdt[n][k]
             merged == {l \in seen[n] : l.key = k}
  <2>1. /\ crdt'[m][k] = Winner(old, line.rec)
        /\ {l \in seen'[m] : l.key = k} = merged \cup {line}
    BY <1>2, <1>4
  <2>2. line = [key |-> k, rec |-> line.rec] /\ line.rec \in Records /\ line.rec.ts \in Int
    BY <1>4, RecordFacts DEF Lines
  <2>3. old \in RecordsOrNone /\ old.ts \in Int
    BY RecordFacts DEF TypeOK, RecordsOrNone
  <2>4. \A l \in merged : l.rec.ts \in Int
    BY RecordFacts DEF TypeOK, Lines
  <2>5. CASE merged = {}
    <3>1. old = NoRecord
      BY <1>1, <1>4, <2>5 DEF EntryIsLatest
    <3>2. Winner(old, line.rec) = line.rec
      BY <3>1 DEF Winner
    <3>. QED
      BY <1>4, <2>1, <2>2, <2>5, <3>2 DEF EntryIsLatest
  <2>6. CASE merged # {}
    <3>1. [key |-> k, rec |-> old] \in merged /\ \A l \in merged : l.rec.ts <= old.ts
      BY <1>1, <1>4, <2>6 DEF EntryIsLatest
    <3>2. old # NoRecord
      BY <3>1, RecordFacts DEF TypeOK, Lines
    <3>3. CASE line.rec.ts > old.ts
      <4>1. Winner(old, line.rec) = line.rec
        BY <3>3 DEF Winner
      <4>2. \A l \in merged \cup {line} : l.rec.ts <= line.rec.ts
        BY <2>2, <2>3, <2>4, <3>1, <3>3
      <4>. QED
        BY <1>4, <2>1, <2>2, <4>1, <4>2 DEF EntryIsLatest
    <3>4. CASE ~(line.rec.ts > old.ts)
      <4>1. Winner(old, line.rec) = old
        BY <3>2, <3>4 DEF Winner
      <4>2. \A l \in merged \cup {line} : l.rec.ts <= old.ts
        BY <2>2, <2>3, <3>1, <3>4
      <4>. QED
        BY <1>4, <2>1, <3>1, <4>1, <4>2 DEF EntryIsLatest
    <3>. QED
      BY <3>3, <3>4
  <2>. QED
    BY <2>5, <2>6
<1>. QED
  BY <1>3, <1>4

LEMMA LatestInit == Init => ReplicaIsLatest
  BY DEF Init, ReplicaIsLatest

LEMMA LatestNext == Typed /\ ReplicaIsLatest /\ [Next]_vars => ReplicaIsLatest'
<1> SUFFICES ASSUME Typed, ReplicaIsLatest, [Next]_vars PROVE ReplicaIsLatest'
  OBVIOUS
<1>1. ASSUME UNCHANGED <<crdt, seen>> PROVE ReplicaIsLatest'
  BY <1>1 DEF ReplicaIsLatest
<1>2. ASSUME NEW n \in Nodes, MergeOwn(n) PROVE ReplicaIsLatest'
  <2>1. work[n] \in Lines
    BY <1>2 DEF Typed, TypeOK, CountsAreMade, MergeOwn, Lines
  <2>. QED
    BY <1>2, <2>1, MergeKeepsLatest DEF MergeOwn, Typed
<1>3. ASSUME NEW n \in Nodes, MergeLine(n) PROVE ReplicaIsLatest'
  <2>1. PICK l \in lines[n] : Merge(n, l)
    BY <1>3 DEF MergeLine
  <2>2. l \in Lines
    BY DEF Typed, TypeOK
  <2>. QED
    BY <2>1, <2>2, MergeKeepsLatest DEF Typed
<1>4. ASSUME NEW n \in Nodes, Restart(n) PROVE ReplicaIsLatest'
  <2>1. \A m \in Nodes : IF m = n THEN seen'[m] = {} /\ \A k \in Keys : crdt'[m][k] = NoRecord
                                  ELSE seen'[m] = seen[m] /\ crdt'[m] = crdt[m]
    BY <1>4 DEF Restart, Typed, TypeOK
  <2>. QED
    BY <2>1 DEF ReplicaIsLatest
<1>. QED
  BY <1>1, <1>2, <1>3, <1>4
     DEF Next, vars, ReadAndScore, Put, Publish, Deliver, Lose, Tick, StepBack

\* Whatever is lost, repeated, reordered, restarted or stamped by a clock that was
\* set back, an entry of a replica is one of the records merged in the session and
\* none of them is later (ReputationCRDT::Merge under its mutex).
THEOREM ReplicaLatest == Spec => []ReplicaIsLatest
<1>. DEFINE Inv == Typed /\ ReplicaIsLatest
<1>1. Init => Inv
  BY TypeInit, LatestInit
<1>2. Inv /\ [Next]_vars => Inv'
  BY TypeNext, LatestNext
<1>3. Inv => ReplicaIsLatest
  OBVIOUS
<1>. QED
  BY <1>1, <1>2, <1>3, PTL DEF Spec

-----------------------------------------------------------------------------
(* Strong convergence *)

\* Convergence is a consequence of the register, state by state.
LEMMA LatestConverges == TypeOK /\ ReplicaIsLatest => SameUpdatesSameState
<1> SUFFICES ASSUME TypeOK, ReplicaIsLatest,
                    NEW m \in Nodes, NEW n \in Nodes, NEW k \in Keys,
                    UpdatesSeen(m, k) = UpdatesSeen(n, k), NoTies(n, k)
             PROVE  UpdateOf(crdt[m][k]) = UpdateOf(crdt[n][k])
  BY DEF SameUpdatesSameState
<1> DEFINE Of(i) == {l \in seen[i] : l.key = k}
           Mine == [key |-> k, rec |-> crdt[m][k]]
           Yours == [key |-> k, rec |-> crdt[n][k]]
<1>1. EntryIsLatest(m, k) /\ EntryIsLatest(n, k)
  BY EntryByEntry
<1>2. /\ \A l \in Of(m) : \E a \in Of(n) : UpdateOf(a.rec) = UpdateOf(l.rec)
      /\ \A l \in Of(n) : \E a \in Of(m) : UpdateOf(a.rec) = UpdateOf(l.rec)
  <2>1. \A i \in {m, n} : UpdatesSeen(i, k) = {UpdateOf(l.rec) : l \in Of(i)}
    BY DEF UpdatesSeen
  <2>2. ASSUME NEW i \in {m, n}, NEW j \in {m, n}, NEW l \in Of(i)
        PROVE  \E a \in Of(j) : UpdateOf(a.rec) = UpdateOf(l.rec)
    <3>1. UpdateOf(l.rec) \in {UpdateOf(a.rec) : a \in Of(i)}
      OBVIOUS
    <3>2. {UpdateOf(a.rec) : a \in Of(i)} = {UpdateOf(a.rec) : a \in Of(j)}
      BY <2>1
    <3>. QED
      BY <3>1, <3>2
  <2>. QED
    BY <2>2
<1>3. CASE Of(m) = {}
  <2>1. Of(n) = {}
    BY <1>2, <1>3
  <2>. QED
    BY <1>1, <1>3, <2>1 DEF EntryIsLatest
<1>4. CASE Of(m) # {}
  <2>1. Of(n) # {}
    BY <1>2, <1>4
  <2>2. Mine \in Of(m) /\ \A l \in Of(m) : l.rec.ts <= crdt[m][k].ts
    BY <1>1, <1>4 DEF EntryIsLatest
  <2>3. Yours \in Of(n) /\ \A l \in Of(n) : l.rec.ts <= crdt[n][k].ts
    BY <1>1, <2>1 DEF EntryIsLatest
  <2>4. PICK a \in Of(n) : UpdateOf(a.rec) = UpdateOf(crdt[m][k])
    <3>1. UpdateOf(Mine.rec) = UpdateOf(crdt[m][k])
      OBVIOUS
    <3>. QED
      BY <1>2, <2>2, <3>1
  <2>5. PICK b \in Of(m) : UpdateOf(b.rec) = UpdateOf(crdt[n][k])
    <3>1. UpdateOf(Yours.rec) = UpdateOf(crdt[n][k])
      OBVIOUS
    <3>. QED
      BY <1>2, <2>3, <3>1
  <2>6. a.rec.ts = crdt[m][k].ts /\ b.rec.ts = crdt[n][k].ts
    BY <2>4, <2>5 DEF UpdateOf
  <2>7. crdt[m][k].ts \in Int /\ crdt[n][k].ts \in Int
    BY RecordFacts DEF TypeOK, RecordsOrNone
  <2>8. crdt[m][k].ts = crdt[n][k].ts
    BY <2>2, <2>3, <2>6, <2>7
  <2>9. UpdateOf(a.rec) = UpdateOf(Yours.rec)
    BY <2>3, <2>6, <2>8 DEF NoTies
  <2>. QED
    BY <2>4, <2>9
<1>. QED
  BY <1>3, <1>4

\* Two replicas that merged the same updates of a key agree on it, in whatever
\* order, grouping and repetition gossip brought them, if no two of the updates
\* carry the same millisecond (ReputationCRDT::Merge, DeserializeAndMerge).
THEOREM StrongConvergence == Spec => []SameUpdatesSameState
<1>. DEFINE Inv == Typed /\ ReplicaIsLatest
<1>1. Init => Inv
  BY TypeInit, LatestInit
<1>2. Inv /\ [Next]_vars => Inv'
  BY TypeNext, LatestNext
<1>3. Inv => SameUpdatesSameState
  BY LatestConverges DEF Typed
<1>. QED
  BY <1>1, <1>2, <1>3, PTL DEF Spec

-----------------------------------------------------------------------------
(* The disk and the replica *)

\* What is ready to be put on disk counts one task more than what is there; what
\* was put there is what will be merged (UpdateReputation).
WorkMatchesStorage ==
    \A n \in Nodes :
       LET stored == storage[n][work[n].key]
       IN  work[n].key \notin failed[n] =>
              /\ pc[n] = "put" => work[n].rec.tasks = stored.tasks + 1
              /\ pc[n] = "merge" => work[n].rec = stored

\* Gossip only carries records that Serialize has rounded.
GossipIsRounded ==
    \A n \in Nodes :
       /\ \A l \in lines[n] : l.rec.digits = "six"
       /\ \A p \in pending[n] : \A l \in p : l.rec.digits = "six"

DInv == Typed /\ WorkMatchesStorage /\ GossipIsRounded /\ ReplicaCoversStorage

\* One entry of ReplicaCoversStorage.
RatedSinceStart(n, k) == \E l \in seen[n] : l.key = k /\ l.rec.who = n /\ l.rec.digits = "all"
BetweenPutAndMerge(n, k) == pc[n] = "merge" /\ work[n].key = k
EntryCoversStorage(n, k) ==
    RatedSinceStart(n, k) /\ ~BetweenPutAndMerge(n, k) /\ k \notin failed[n]
       => crdt[n][k].ts >= storage[n][k].ts

LEMMA CoverByEntry ==
  ReplicaCoversStorage <=> \A n \in Nodes, k \in Keys : EntryCoversStorage(n, k)
  BY DEF ReplicaCoversStorage, EntryCoversStorage, RatedSinceStart, BetweenPutAndMerge

LEMMA DInit == Init => DInv
  BY TypeInit DEF Init, DInv, WorkMatchesStorage, GossipIsRounded, ReplicaCoversStorage

\* Merge never makes an entry older, and an entry is no older than the line.
LEMMA WinnerIsNoOlder ==
  ASSUME NEW local \in RecordsOrNone, NEW rec \in Records
  PROVE  Winner(local, rec).ts >= local.ts /\ Winner(local, rec).ts >= rec.ts
<1>1. local.ts \in Int /\ rec.ts \in Int /\ rec.ts >= 1
  BY RecordFacts, ReputationAssumption DEF RecordsOrNone
<1>2. local = NoRecord => local.ts = 0
  BY RecordFacts
<1>. QED
  BY <1>1, <1>2 DEF Winner

LEMMA SerializeIsRounded ==
  ASSUME TypeOK, NEW n \in Nodes
  PROVE  \A l \in Serialize(n) : l.rec.digits = "six"
<1> SUFFICES ASSUME NEW k \in Keys, crdt[n][k] # NoRecord
             PROVE  Rounded(crdt[n][k]).digits = "six"
  BY DEF Serialize
<1>1. crdt[n][k] \in Records
  BY DEF TypeOK, RecordsOrNone
<1>. QED
  BY <1>1 DEF Rounded, Records

\* The rating that is about to be put on disk.
LEMMA ScoreEffect ==
  ASSUME Typed, NEW n \in Nodes, ReadAndScore(n)
  PROVE  /\ pc[n] = "idle" /\ pc' = [pc EXCEPT ![n] = "put"]
         /\ \A m \in Nodes : m # n => work'[m] = work[m] /\ failed'[m] = failed[m]
         /\ work'[n].key \in Keys /\ failed[n] \subseteq failed'[n]
         /\ work'[n].key \notin failed'[n]
               => work'[n].rec.tasks = storage[n][work'[n].key].tasks + 1
<1>1. PICK k \in Rates[n] :
        \E old \in {storage[n][k].tasks} \cup {0 : f \in Faults \cap {"get"}} :
           /\ work' = [work EXCEPT ![n] =
                         [key |-> k,
                          rec |-> [ts |-> clock[n], who |-> n,
                                   tasks |-> old + 1, digits |-> "all"]]]
           /\ failed' = IF old = storage[n][k].tasks THEN failed
                        ELSE [failed EXCEPT ![n] = @ \cup {k}]
  BY DEF ReadAndScore
<1>2. PICK old :
           /\ work' = [work EXCEPT ![n] =
                         [key |-> k,
                          rec |-> [ts |-> clock[n], who |-> n,
                                   tasks |-> old + 1, digits |-> "all"]]]
           /\ failed' = IF old = storage[n][k].tasks THEN failed
                        ELSE [failed EXCEPT ![n] = @ \cup {k}]
  BY <1>1
<1>3. /\ work'[n].key = k /\ work'[n].rec.tasks = old + 1 /\ k \in Keys
      /\ \A m \in Nodes : m # n => work'[m] = work[m]
  BY <1>2, ReputationAssumption DEF Typed, TypeOK
<1>4. /\ \A m \in Nodes : m # n => failed'[m] = failed[m]
      /\ failed[n] \subseteq failed'[n]
      /\ old # storage[n][k].tasks => k \in failed'[n]
  BY <1>2 DEF Typed, TypeOK
<1>. QED
  BY <1>3, <1>4 DEF ReadAndScore

\* What Put leaves on disk and in the history of failures.
LEMMA PutEffect ==
  ASSUME Typed, NEW n \in Nodes, Put(n)
  PROVE  /\ \A m \in Nodes, k \in Keys :
               ~(m = n /\ k = work[n].key) => storage'[m][k] = storage[m][k]
         /\ \A m \in Nodes : m # n => failed'[m] = failed[m]
         /\ failed[n] \subseteq failed'[n]
         /\ \/ storage'[n][work[n].key] = work[n].rec /\ failed' = failed
            \/ work[n].key \in failed'[n] /\ storage' = storage
<1>1. work[n].key \in Keys
  BY DEF Typed, TypeOK
<1>2. CASE storage' = [storage EXCEPT ![n][work[n].key] = work[n].rec] /\ failed' = failed
  BY <1>1, <1>2, ReadBack DEF Typed, TypeOK
<1>3. CASE failed' = [failed EXCEPT ![n] = @ \cup {work[n].key}] /\ storage' = storage
  BY <1>1, <1>3 DEF Typed, TypeOK
<1>. QED
  BY <1>2, <1>3 DEF Put

\* A merge keeps the replica abreast of the disk, if what it merges is on disk
\* whenever it counts as a rating of the node's own.
LEMMA MergeKeepsCover ==
  ASSUME Typed, ReplicaCoversStorage, NEW n \in Nodes, NEW line \in Lines, Merge(n, line),
         UNCHANGED <<storage, failed, work>>,
         \A m \in Nodes : m # n => pc'[m] = pc[m],
         \/ line.rec.digits = "six" /\ pc'[n] = pc[n]
         \/ line = work[n] /\ pc[n] = "merge" /\ WorkMatchesStorage
  PROVE  ReplicaCoversStorage'
<1> SUFFICES ASSUME NEW m \in Nodes, NEW k \in Keys, RatedSinceStart(m, k)',
                    ~BetweenPutAndMerge(m, k)', k \notin failed'[m]
             PROVE  crdt'[m][k].ts >= storage'[m][k].ts
  BY DEF ReplicaCoversStorage, RatedSinceStart, BetweenPutAndMerge
<1>1. EntryCoversStorage(m, k)
  BY CoverByEntry
<1>2. /\ \A i \in Nodes, j \in Keys :
            crdt'[i][j] = IF i = n /\ j = line.key
                            THEN Winner(crdt[i][j], line.rec) ELSE crdt[i][j]
      /\ \A i \in Nodes : seen'[i] = IF i = n THEN seen[i] \cup {line} ELSE seen[i]
  BY MergeEffect DEF Typed
<1>3. /\ crdt'[m][k] = IF m = n /\ k = line.key
                         THEN Winner(crdt[m][k], line.rec) ELSE crdt[m][k]
      /\ seen'[m] = IF m = n THEN seen[m] \cup {line} ELSE seen[m]
  BY <1>2
<1>4. /\ crdt[m][k] \in RecordsOrNone /\ storage[m][k] \in RecordsOrNone
      /\ crdt[m][k].ts \in Int /\ storage[m][k].ts \in Int
      /\ line.rec \in Records /\ line.rec.ts \in Int
  BY RecordFacts DEF Typed, TypeOK, RecordsOrNone, Lines
<1>5. crdt'[m][k].ts \in Int /\ crdt'[m][k].ts >= crdt[m][k].ts
  <2>1. Winner(crdt[m][k], line.rec).ts \in Int
    BY <1>4 DEF Winner
  <2>. QED
    BY <1>3, <1>4, <2>1, WinnerIsNoOlder
<1>6. CASE m = n /\ k = line.key /\ line = work[n] /\ pc[n] = "merge" /\ WorkMatchesStorage
  <2>1. storage[n][k] = line.rec
    BY <1>6 DEF WorkMatchesStorage
  <2>. QED
    BY <1>3, <1>4, <1>6, <2>1, WinnerIsNoOlder
<1>7. CASE \/ m # n
           \/ k # line.key
           \/ line.rec.digits = "six" /\ pc'[n] = pc[n]
  <2>1. RatedSinceStart(m, k)
    BY <1>3, <1>7 DEF RatedSinceStart
  <2>2. ~BetweenPutAndMerge(m, k)
    BY <1>7 DEF BetweenPutAndMerge
  <2>3. crdt[m][k].ts >= storage[m][k].ts
    BY <1>1, <2>1, <2>2 DEF EntryCoversStorage
  <2>. QED
    BY <1>4, <1>5, <2>3
<1>. QED
  BY <1>6, <1>7

LEMMA DNext == DInv /\ [Next]_vars => DInv'
<1> SUFFICES ASSUME DInv, [Next]_vars PROVE DInv'
  OBVIOUS
<1>0. Typed /\ Typed'
  BY TypeNext DEF DInv
<1>1. ASSUME NEW n \in Nodes, ReadAndScore(n) PROVE DInv'
  <2>1. /\ pc[n] = "idle" /\ pc' = [pc EXCEPT ![n] = "put"]
        /\ \A m \in Nodes : m # n => work'[m] = work[m] /\ failed'[m] = failed[m]
        /\ work'[n].key \in Keys /\ failed[n] \subseteq failed'[n]
        /\ work'[n].key \notin failed'[n]
              => work'[n].rec.tasks = storage[n][work'[n].key].tasks + 1
    BY <1>0, <1>1, ScoreEffect
  <2>2. \A m \in Nodes : pc'[m] = IF m = n THEN "put" ELSE pc[m]
    BY <1>0, <2>1 DEF Typed, TypeOK
  <2>3. UNCHANGED <<storage, crdt, lines, pending, seen>>
    BY <1>1 DEF ReadAndScore
  <2>4. WorkMatchesStorage'
    BY <2>1, <2>2, <2>3 DEF DInv, WorkMatchesStorage
  <2>5. ReplicaCoversStorage'
    BY <2>1, <2>2, <2>3 DEF DInv, ReplicaCoversStorage
  <2>. QED
    BY <1>0, <2>3, <2>4, <2>5 DEF DInv, GossipIsRounded
<1>2. ASSUME NEW n \in Nodes, Put(n) PROVE DInv'
  <2>1. /\ \A m \in Nodes, k \in Keys :
              ~(m = n /\ k = work[n].key) => storage'[m][k] = storage[m][k]
        /\ \A m \in Nodes : m # n => failed'[m] = failed[m]
        /\ failed[n] \subseteq failed'[n]
        /\ \/ storage'[n][work[n].key] = work[n].rec /\ failed' = failed
           \/ work[n].key \in failed'[n] /\ storage' = storage
    BY <1>0, <1>2, PutEffect
  <2>2. /\ pc[n] = "put" /\ \A m \in Nodes : pc'[m] = IF m = n THEN "merge" ELSE pc[m]
        /\ UNCHANGED <<crdt, work, lines, pending, seen>>
    BY <1>0, <1>2 DEF Put, Typed, TypeOK
  <2>3. \A m \in Nodes : work[m].key \in Keys
    BY <1>0 DEF Typed, TypeOK
  <2>4. WorkMatchesStorage'
    BY <2>1, <2>2, <2>3 DEF DInv, WorkMatchesStorage
  <2>5. ReplicaCoversStorage'
    BY <2>1, <2>2 DEF DInv, ReplicaCoversStorage
  <2>. QED
    BY <1>0, <2>2, <2>4, <2>5 DEF DInv, GossipIsRounded
<1>3. ASSUME NEW n \in Nodes, MergeOwn(n) PROVE DInv'
  <2>1. work[n] \in Lines
    BY <1>0, <1>3 DEF Typed, TypeOK, CountsAreMade, MergeOwn, Lines
  <2>2. /\ pc[n] = "merge" /\ \A m \in Nodes : pc'[m] = IF m = n THEN "publish" ELSE pc[m]
        /\ UNCHANGED <<storage, work, lines, pending, failed>> /\ Merge(n, work[n])
    BY <1>0, <1>3 DEF MergeOwn, Typed, TypeOK
  <2>3. ReplicaCoversStorage'
    BY <1>0, <2>1, <2>2, MergeKeepsCover DEF DInv
  <2>. QED
    BY <1>0, <2>2, <2>3 DEF DInv, GossipIsRounded, WorkMatchesStorage
<1>4. ASSUME NEW n \in Nodes, Publish(n) PROVE DInv'
  <2>1. /\ \A m \in Nodes : pc'[m] = IF m = n THEN "idle" ELSE pc[m]
        /\ \A m \in Nodes : pending'[m] = pending[m] \cup {Serialize(n)}
        /\ UNCHANGED <<storage, crdt, work, lines, seen, failed>> /\ pc[n] = "publish"
    BY <1>0, <1>4 DEF Publish, Typed, TypeOK
  <2>2. \A l \in Serialize(n) : l.rec.digits = "six"
    BY <1>0, SerializeIsRounded DEF Typed
  <2>3. GossipIsRounded'
    BY <2>1, <2>2 DEF DInv, GossipIsRounded
  <2>. QED
    BY <1>0, <2>1, <2>3 DEF DInv, WorkMatchesStorage, ReplicaCoversStorage
<1>5. ASSUME NEW n \in Nodes, Deliver(n) PROVE DInv'
  <2>1. PICK p \in pending[n] :
          lines' = [lines EXCEPT ![n] = IF HandlerWired THEN p ELSE {}]
    BY <1>5 DEF Deliver
  <2>2. \A m \in Nodes : pending'[m] \subseteq pending[m]
    BY <1>0, <1>5 DEF Deliver, Typed, TypeOK
  <2>3. GossipIsRounded'
    BY <1>0, <2>1, <2>2 DEF DInv, GossipIsRounded, Typed, TypeOK
  <2>. QED
    BY <1>0, <1>5, <2>3 DEF Deliver, DInv, WorkMatchesStorage, ReplicaCoversStorage
<1>6. ASSUME NEW n \in Nodes, MergeLine(n) PROVE DInv'
  <2>1. PICK l \in lines[n] :
          Merge(n, l) /\ lines' = [lines EXCEPT ![n] = @ \ {l}]
    BY <1>6 DEF MergeLine
  <2>2. l \in Lines /\ l.rec.digits = "six"
    BY <1>0 DEF Typed, TypeOK, DInv, GossipIsRounded
  <2>3. ReplicaCoversStorage'
    BY <1>0, <1>6, <2>1, <2>2, MergeKeepsCover DEF MergeLine, DInv
  <2>4. GossipIsRounded'
    BY <1>0, <1>6, <2>1 DEF MergeLine, DInv, GossipIsRounded, Typed, TypeOK
  <2>. QED
    BY <1>0, <1>6, <2>3, <2>4 DEF MergeLine, DInv, WorkMatchesStorage
<1>7. ASSUME NEW n \in Nodes, Lose(n) PROVE DInv'
  <2>1. \A m \in Nodes : pending'[m] \subseteq pending[m]
    BY <1>0, <1>7 DEF Lose, Typed, TypeOK
  <2>. QED
    BY <1>0, <1>7, <2>1 DEF Lose, DInv, WorkMatchesStorage, GossipIsRounded,
       ReplicaCoversStorage
<1>8. ASSUME NEW n \in Nodes, Restart(n) PROVE DInv'
  <2>1. \A m \in Nodes : m # n => /\ seen'[m] = seen[m] /\ crdt'[m] = crdt[m]
                                  /\ lines'[m] = lines[m] /\ pending'[m] = pending[m]
                                  /\ pc'[m] = pc[m]
    BY <1>8 DEF Restart
  <2>2. /\ seen'[n] = {} /\ lines'[n] = {} /\ pending'[n] = {} /\ pc'[n] = "idle"
        /\ UNCHANGED <<storage, work, failed>>
    BY <1>0, <1>8 DEF Restart, Typed, TypeOK
  <2>3. ReplicaCoversStorage'
    BY <2>1, <2>2 DEF DInv, ReplicaCoversStorage
  <2>. QED
    BY <1>0, <2>1, <2>2, <2>3 DEF DInv, WorkMatchesStorage, GossipIsRounded
<1>9. ASSUME UNCHANGED <<storage, crdt, pc, work, lines, pending, seen, failed>> PROVE DInv'
  BY <1>0, <1>9 DEF DInv, WorkMatchesStorage, GossipIsRounded, ReplicaCoversStorage
<1>. QED
  BY <1>1, <1>2, <1>3, <1>4, <1>5, <1>6, <1>7, <1>8, <1>9
     DEF Next, vars, Tick, StepBack

\* A node's replica is abreast of its own disk once it has rated in the session:
\* whatever the clocks, the restarts and the payloads received, what Put stored
\* is what Merge was given, unless the disk failed (UpdateReputation).
THEOREM ReplicaAlwaysCovers == Spec => []ReplicaCoversStorage
<1>. DInv => ReplicaCoversStorage
  BY DEF DInv
<1>. QED
  BY DInit, DNext, PTL DEF Spec

\* What one step does to the counts on disk.
Counted == \A n \in Nodes, k \in Keys :
              storage'[n][k] # storage[n][k]
                 => storage'[n][k].tasks = storage[n][k].tasks + 1 \/ k \in failed[n]

LEMMA CountedByStep == DInv /\ [Next]_vars => Counted
<1> SUFFICES ASSUME DInv, [Next]_vars PROVE Counted
  OBVIOUS
<1>1. ASSUME NEW n \in Nodes, Put(n) PROVE Counted
  <2>1. /\ \A m \in Nodes, k \in Keys :
              ~(m = n /\ k = work[n].key) => storage'[m][k] = storage[m][k]
        /\ \/ storage'[n][work[n].key] = work[n].rec
           \/ storage' = storage
    BY <1>1, PutEffect DEF DInv
  <2>2. work[n].key \notin failed[n]
           => work[n].rec.tasks = storage[n][work[n].key].tasks + 1
    BY <1>1 DEF Put, DInv, WorkMatchesStorage
  <2>. QED
    BY <2>1, <2>2 DEF Counted
<1>2. ASSUME UNCHANGED storage PROVE Counted
  BY <1>2 DEF Counted
<1>. QED
  BY <1>1, <1>2 DEF Next, vars, ReadAndScore, MergeOwn, Publish, Deliver, MergeLine,
     Lose, Tick, StepBack, Restart

\* Each change of a record on a node's disk counts exactly one task more, across
\* restarts and whatever gossip brought, unless the disk has failed on that key
\* (UpdateReputation: Get, the task count, Put).
THEOREM EveryRatingIsCounted == Spec => EveryRatingCounts
<1>1. DInv /\ [Next]_vars => [Counted]_vars
  BY CountedByStep
<1>. QED
  BY <1>1, DInit, DNext, PTL DEF Spec, EveryRatingCounts, Counted

=============================================================================
