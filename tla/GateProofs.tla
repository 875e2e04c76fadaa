----------------------------- MODULE GateProofs -----------------------------
(***************************************************************************)
(* Proofs about BenchmarkGate, for any tasks, scores and limits, any       *)
(* number of runs and checks, and deaths at any moment: the counters on    *)
(* disk against the failures in a row, when a pipeline is blocked, and     *)
(* that a result is compared with an older run.  The types need the first. *)
(***************************************************************************)
EXTENDS BenchmarkGate, TLAPS, WellFoundedInduction

-----------------------------------------------------------------------------
(* The counters and the failures in a row *)

\* What CountsAreStreaks says of the counters on disk, of any counters.
Follows(counts) ==
    /\ counts \in [Blocking -> Nat]
    /\ \A b \in Blocking :
          /\ counts[b] <= streak[b]
          /\ tears = 0 => counts[b] = streak[b]

Typed == streak \in [Blocking -> Nat] /\ tears \in Nat

\* Counters on disk, counters about to be written, counters that were returned.
DiskFollows == state.is = "whole" => Follows(state.counts)
SavedFollows == gate.at = "save" => gate.result.is = "judged" /\ Follows(gate.result.counts)
JudgedFollows == Judged => gate.at = "idle" /\ Follows(verdict.counts)

\* Without counters, and without a death that lost them, nothing has failed.
NoneLost ==
    state.is # "whole" /\ tears = 0 /\ gate.at # "save" => \A b \in Blocking : streak[b] = 0

CInv == Typed /\ DiskFollows /\ SavedFollows /\ JudgedFollows /\ NoneLost

LEMMA CountersFollow ==
  ASSUME CInv, gate.at # "save"
  PROVE  Follows(Counters)
<1>1. CASE state.is = "whole"
  BY <1>1 DEF CInv, DiskFollows, Counters
<1>2. CASE state.is # "whole"
  BY <1>2 DEF CInv, Typed, NoneLost, Counters, Follows
<1> QED BY <1>1, <1>2

LEMMA CInvInit == Init => CInv
BY DEF Init, CInv, Typed, DiskFollows, SavedFollows, JudgedFollows, NoneLost, Judged, Follows,
       Absent, Idle, NoVerdict

\* The steps that leave the counters and the locals of the gate alone.
LEMMA CInvElsewhere ==
  ASSUME CInv, UNCHANGED gateVars
  PROVE  CInv'
BY DEF CInv, gateVars, Typed, DiskFollows, SavedFollows, JudgedFollows, NoneLost, Judged, Follows

LEMMA CInvReturns ==
  ASSUME CInv, NEW result, result.is # "judged", Returns(result), gate.at # "save"
  PROVE  CInv'
BY DEF CInv, Returns, Typed, DiskFollows, SavedFollows, JudgedFollows, NoneLost, Judged, Follows,
       Idle

LEMMA CInvEvaluate ==
  ASSUME CInv, Evaluate
  PROVE  CInv'
<1>1. gate.at = "reference" /\ ~Judged
  BY DEF Evaluate, CInv, JudgedFollows
<1>2. CASE Returns(Raised)
  BY <1>1, <1>2, CInvReturns DEF Raised
<1>3. CASE ~Returns(Raised)
  <2>1. PICK counted : counted = Counted(gate.current)
    OBVIOUS
  <2>2. /\ gate'.at = "save"
        /\ gate'.result.is = "judged" /\ gate'.result.counts = counted
        /\ state'.is = "torn" /\ verdict' = verdict /\ tears' = tears
        /\ streak' = [b \in Blocking |-> IF FloorMet(gate.current, b) THEN 0 ELSE streak[b] + 1]
    BY <1>3, <2>1 DEF Evaluate, Torn
  <2>3. Follows(Counters) /\ Typed
    BY <1>1, CountersFollow DEF CInv
  <2>4. counted = [b \in Blocking |-> IF FloorMet(gate.current, b) THEN 0 ELSE Counters[b] + 1]
    BY <2>1 DEF Counted
  <2>5. Typed'
    BY <2>2, <2>3 DEF Typed
  <2>6. Follows(counted)'
    BY <2>2, <2>3, <2>4 DEF Follows, Typed
  <2>7. SavedFollows'
    BY <2>2, <2>6 DEF SavedFollows, Follows
  <2>8. DiskFollows' /\ NoneLost'
    BY <2>2 DEF DiskFollows, NoneLost
  <2>9. JudgedFollows'
    BY <1>1, <2>2 DEF JudgedFollows, Judged
  <2> QED BY <2>5, <2>7, <2>8, <2>9 DEF CInv
<1> QED BY <1>2, <1>3

LEMMA CInvNext == CInv /\ [Next]_vars => CInv'
<1> SUFFICES ASSUME CInv, [Next]_vars PROVE CInv'
  OBVIOUS
<1>1. CASE Runner \/ RunnerDies
  <2>1. UNCHANGED gateVars
    BY <1>1 DEF Runner, StartRun, OpenResult, WriteResult, RunnerDies
  <2> QED BY <2>1, CInvElsewhere
<1>2. CASE GateStart
  BY <1>2 DEF GateStart, CInv, Typed, DiskFollows, SavedFollows, JudgedFollows, NoneLost, Judged,
              Follows, Idle, NoVerdict
<1>3. CASE FindCurrent
  <2>1. gate.at = "find" /\ ~Judged
    BY <1>3 DEF FindCurrent, CInv, JudgedFollows
  <2>2. CASE Returns(Raised) \/ Returns(NothingToJudge)
    BY <2>1, <2>2, CInvReturns DEF Raised, NothingToJudge
  <2>3. CASE ~(Returns(Raised) \/ Returns(NothingToJudge))
    <3>1. gate'.at = "compare" /\ UNCHANGED <<state, verdict, streak, tears>>
      BY <1>3, <2>3 DEF FindCurrent
    <3> QED BY <2>1, <3>1 DEF CInv, Typed, DiskFollows, SavedFollows, JudgedFollows, NoneLost,
                              Judged, Follows
  <2> QED BY <2>2, <2>3
<1>4. CASE FindOthers
  <2>1. gate.at = "compare" /\ ~Judged
    BY <1>4 DEF FindOthers, CInv, JudgedFollows
  <2>2. gate'.at = "reference" /\ UNCHANGED <<state, verdict, streak, tears>>
    BY <1>4 DEF FindOthers
  <2> QED BY <2>1, <2>2 DEF CInv, Typed, DiskFollows, SavedFollows, JudgedFollows, NoneLost,
                            Judged, Follows
<1>5. CASE Evaluate
  BY <1>5, CInvEvaluate
<1>6. CASE Save
  <2>1. gate.at = "save" /\ Follows(gate.result.counts) /\ gate.result.is = "judged"
    BY <1>6 DEF Save, CInv, SavedFollows
  <2>2. /\ state'.is = "whole" /\ state'.counts = gate.result.counts
        /\ verdict' = gate.result /\ gate'.at = "idle" /\ UNCHANGED <<streak, tears>>
    BY <1>6 DEF Save, Idle
  <2> QED BY <2>1, <2>2 DEF CInv, Typed, DiskFollows, SavedFollows, JudgedFollows, NoneLost,
                            Judged, Follows
<1>7. CASE GateDies
  <2>1. /\ gate'.at = "idle" /\ UNCHANGED <<state, verdict, streak>>
        /\ tears' = IF gate.at = "save" THEN tears + 1 ELSE tears
    BY <1>7 DEF GateDies, Idle
  <2>2. CASE gate.at = "save"
    <3>1. ~Judged /\ tears' # 0 /\ tears' \in Nat
      BY <2>1, <2>2 DEF CInv, JudgedFollows, Typed
    <3> QED BY <2>1, <3>1 DEF CInv, Typed, DiskFollows, SavedFollows, JudgedFollows, NoneLost,
                              Judged, Follows
  <2>3. CASE gate.at # "save"
    BY <2>1, <2>3 DEF CInv, Typed, DiskFollows, SavedFollows, JudgedFollows, NoneLost,
                      Judged, Follows
  <2> QED BY <2>2, <2>3
<1>8. CASE UNCHANGED vars
  BY <1>8, CInvElsewhere DEF vars, gateVars
<1> QED BY <1>1, <1>2, <1>3, <1>4, <1>5, <1>6, <1>7, <1>8 DEF Next, Gate

\* The counters of consecutive failures on disk and in a verdict are the failures in a row,
\* or, after a check died while it wrote them, no more (_save_bench_gate_state).
THEOREM CountersFollowStreaks == Spec => []CountsAreStreaks
<1>1. CInv => CountsAreStreaks
  BY DEF CInv, DiskFollows, Follows, CountsAreStreaks
<1> QED BY <1>1, CInvInit, CInvNext, PTL DEF Spec

\* A count that has reached both limits is one of those that reach either: the larger of two.
LEMMA BothLimits ==
  ASSUME NEW counts \in [Blocking -> Nat]
  PROVE  (/\ \E b \in Blocking : counts[b] >= BlockAfter
          /\ \E b \in Blocking : counts[b] >= BlockingThreshold)
         <=> \E b \in Blocking : counts[b] >= BlockAfter /\ counts[b] >= BlockingThreshold
<1>1. BlockAfter \in Nat /\ BlockingThreshold \in Nat
  BY BenchmarkAssumption DEF BlockingThreshold
<1>2. ASSUME NEW a \in Blocking, NEW b \in Blocking,
             counts[a] >= BlockAfter, counts[b] >= BlockingThreshold
      PROVE  \E c \in {a, b} : counts[c] >= BlockAfter /\ counts[c] >= BlockingThreshold
  <2>1. counts[a] \in Nat /\ counts[b] \in Nat
    OBVIOUS
  <2>2. CASE counts[a] >= counts[b]
    BY <1>1, <1>2, <2>1, <2>2
  <2>3. CASE counts[b] >= counts[a]
    BY <1>1, <1>2, <2>1, <2>3
  <2> QED BY <2>1, <2>2, <2>3
<1> QED BY <1>2

\* A pipeline is blocked, unless by quantization, when some benchmark has failed in a row as
\* often as both the configuration and benchmark_repair say: never before, and, if no
\* counters were lost, no later (should_block_pipeline).
THEOREM BlockedInTime == Spec => []BlocksInTime
<1>1. CInv => BlocksInTime
  <2> SUFFICES ASSUME CInv, Judged PROVE BlocksInTime
    BY DEF BlocksInTime
  <2>1. Follows(verdict.counts) /\ Typed
    BY DEF CInv, JudgedFollows
  <2> DEFINE due(c) == \E b \in Blocking : c[b] >= BlockAfter /\ c[b] >= BlockingThreshold
  <2>2. ShouldBlock(verdict) <=> ~verdict.sgfp4 \/ due(verdict.counts)
    BY <2>1, BothLimits DEF Follows, ShouldBlock, GateBlocks
  <2>3. due(verdict.counts) => due(streak)
    BY <2>1, BenchmarkAssumption DEF Follows, Typed, BlockingThreshold
  <2>4. due(streak) /\ tears = 0 => due(verdict.counts)
    BY <2>1, BenchmarkAssumption DEF Follows, Typed, BlockingThreshold
  <2> QED BY <2>2, <2>3, <2>4 DEF BlocksInTime
<1> QED BY <1>1, CInvInit, CInvNext, PTL DEF Spec

-----------------------------------------------------------------------------
(* The order of the files and the run a result is compared with *)

LEMMA MaximumExists ==
  ASSUME NEW n \in Nat, NEW S \in SUBSET (1..n), S # {}
  PROVE  \E i \in S : \A j \in S : j <= i
<1> DEFINE R == OpToRel(<, Nat)
<1> DEFINE U == {n - i : i \in S}
<1>1. IsWellFoundedOn(R, Nat)
  BY NatLessThanWellFounded
<1>2. \A i \in S : i \in Int /\ n - i \in Nat
  OBVIOUS
<1>3. U \subseteq Nat /\ U # {}
  <2>1. PICK i \in S : TRUE
    OBVIOUS
  <2>2. n - i \in U
    BY <2>1
  <2> QED BY <1>2, <2>2
<1> HIDE DEF R
<1>4. PICK x \in U : \A y \in U : <<y, x>> \notin R
  BY <1>1, <1>3, WFMin, Zenon
<1>5. \A a, b \in Nat : a < b => <<a, b>> \in R
  BY DEF R, OpToRel
<1>6. \A y \in U : x <= y
  <2> TAKE y \in U
  <2>1. x \in Nat /\ y \in Nat
    BY <1>3, <1>4
  <2>2. ~(y < x)
    BY <2>1, <1>4, <1>5
  <2> QED BY <2>1, <2>2
<1>7. PICK i \in S : x = n - i
  BY <1>4
<1>8. \A j \in S : n - j \in U
  OBVIOUS
<1>9. \A j \in S : j <= i
  BY <1>2, <1>6, <1>7, <1>8
<1> QED BY <1>9

RunsTyped ==
    /\ files \in Seq(Files)
    /\ runs \in 0..MaxRuns
    /\ \/ run = Idle
       \/ /\ run \in [at : {"open", "write"}, next : 1..Len(TaskOrder),
                      canonical : BOOLEAN, quantized : BOOLEAN]
          /\ runs >= 1
          /\ run.at = "write" => Len(files) >= 1

\* The files are written run after run.
RunAfterRun ==
    /\ \A i \in 1..Len(files) : files[i].run <= runs
    /\ \A i, j \in 1..Len(files) : i <= j => files[i].run <= files[j].run

\* What the gate found is still what it would find, while no file has changed.
CurrentIsFound ==
    quiet /\ gate.at \in {"compare", "reference"} /\ gate.named = 0
       => Candidates(TRUE) # {} /\ gate.current = Newest(Candidates(TRUE))
PreviousIsFound == quiet /\ gate.at = "reference" => gate.previous = FindPrevious

FInv == RunsTyped /\ RunAfterRun /\ CurrentIsFound /\ PreviousIsFound

\* The newest of some files is one of them, and none of them is newer.
LEMMA NewestFile ==
  ASSUME RunsTyped, NEW is \in SUBSET (1..Len(files)), is # {}
  PROVE  \E i \in is : Newest(is) = files[i] /\ \A j \in is : j <= i
<1>1. Len(files) \in Nat
  BY DEF RunsTyped
<1>2. \E i \in is : \A j \in is : j <= i
  BY <1>1, MaximumExists
<1> DEFINE k == CHOOSE i \in is : \A j \in is : j <= i
<1>3. k \in is /\ \A j \in is : j <= k
  BY <1>2
<1>4. Newest(is) = files[k]
  BY DEF Newest
<1> QED BY <1>3, <1>4

LEMMA FoundIsOlder ==
  ASSUME FInv
  PROVE  PreviousIsOlder
<1> SUFFICES ASSUME gate.at = "reference", quiet, gate.named = 0, gate.previous # None
             PROVE  gate.previous.run < gate.current.run
  BY DEF PreviousIsOlder
<1> DEFINE is == Candidates(TRUE)
<1> DEFINE others == {i \in is : files[i].run # Newest(is).run}
<1>1. is \in SUBSET (1..Len(files)) /\ is # {} /\ gate.current = Newest(is)
  BY DEF FInv, CurrentIsFound, Candidates
<1>2. gate.previous = IF others = {} THEN None ELSE Newest(others)
  BY DEF FInv, PreviousIsFound, FindPrevious
<1> HIDE DEF is
<1>3. others # {} /\ gate.previous = Newest(others)
  BY <1>2
<1>4. others \in SUBSET (1..Len(files)) /\ others \subseteq is
  BY <1>1
<1>5. PICK i \in is : Newest(is) = files[i] /\ \A j \in is : j <= i
  BY <1>1, NewestFile DEF FInv
<1>6. PICK j \in others : Newest(others) = files[j]
  BY <1>3, <1>4, NewestFile DEF FInv
<1>7. j <= i /\ i \in 1..Len(files) /\ j \in 1..Len(files) /\ files[j].run # files[i].run
  BY <1>1, <1>4, <1>5, <1>6
<1>8. files[j].run <= files[i].run
  BY <1>7 DEF FInv, RunAfterRun
<1>9. files[i] \in Files /\ files[j] \in Files
  BY <1>7 DEF FInv, RunsTyped
<1>10. files[j].run \in Int /\ files[i].run \in Int
  BY <1>9 DEF Files
<1> QED BY <1>1, <1>3, <1>5, <1>6, <1>7, <1>8, <1>10

LEMMA FInvInit == Init => FInv
BY BenchmarkAssumption DEF Init, FInv, RunsTyped, RunAfterRun, CurrentIsFound, PreviousIsFound, Idle

LEMMA FInvOpen ==
  ASSUME FInv, OpenResult
  PROVE  FInv'
<1>1. run.next \in 1..Len(TaskOrder) /\ runs >= 1 /\ runs \in 1..MaxRuns
  BY BenchmarkAssumption DEF FInv, RunsTyped, OpenResult, Idle
<1>2. PICK file : /\ file = [task |-> TaskOrder[run.next], run |-> runs, canonical |-> run.canonical,
                             quantized |-> run.quantized, score |-> NoScore, whole |-> FALSE]
                  /\ files' = Append(files, file)
  BY DEF OpenResult
<1>3. TaskOrder[run.next] \in Tasks
  BY <1>1 DEF Tasks
<1>4. file \in Files /\ file.run = runs
  BY <1>1, <1>2, <1>3 DEF FInv, RunsTyped, OpenResult, Files, Idle
<1>5. files \in Seq(Files)
  BY DEF FInv, RunsTyped
<1>6. /\ files' \in Seq(Files) /\ Len(files') = Len(files) + 1
      /\ \A i \in 1..Len(files) : files'[i] = files[i]
      /\ files'[Len(files) + 1] = file
  BY <1>2, <1>4, <1>5
<1>7. run'.at = "write" /\ run'.next = run.next /\ run'.canonical = run.canonical
      /\ run'.quantized = run.quantized /\ runs' = runs /\ ~quiet'
  BY DEF OpenResult, FInv, RunsTyped, Idle
<1>8. RunsTyped'
  BY <1>1, <1>5, <1>6, <1>7 DEF FInv, RunsTyped, OpenResult, Idle
<1>9. RunAfterRun'
  <2>1. \A i \in 1..Len(files') : i \in 1..Len(files) \/ i = Len(files) + 1
    BY <1>5, <1>6
  <2>2. \A i \in 1..Len(files') : files'[i].run <= runs
    BY <1>4, <1>5, <1>6, <2>1, <1>1 DEF FInv, RunAfterRun
  <2>3. ASSUME NEW i \in 1..Len(files'), NEW j \in 1..Len(files'), i <= j
        PROVE  files'[i].run <= files'[j].run
    <3>1. CASE j = Len(files) + 1
      BY <1>4, <1>6, <2>2, <3>1
    <3>2. CASE j \in 1..Len(files)
      <4>1. i \in 1..Len(files)
        BY <1>5, <2>1, <2>3, <3>2
      <4> QED BY <1>6, <2>3, <3>2, <4>1 DEF FInv, RunAfterRun
    <3> QED BY <2>1, <3>1, <3>2
  <2> QED BY <1>7, <2>2, <2>3 DEF RunAfterRun
<1> QED BY <1>7, <1>8, <1>9 DEF FInv, CurrentIsFound, PreviousIsFound

LEMMA FInvWrite ==
  ASSUME FInv, WriteResult
  PROVE  FInv'
<1> DEFINE n == Len(files)
<1>1. files \in Seq(Files) /\ n \in 1..Len(files) /\ run.next \in 1..Len(TaskOrder)
  BY DEF FInv, RunsTyped, WriteResult, Idle
<1>2. PICK score \in Measured(TaskOrder[run.next]) :
         files' = [files EXCEPT ![n].score = score, ![n].whole = TRUE]
  BY DEF WriteResult
<1>3. score \in Scores \cup {NoScore} /\ files[n] \in Files
  BY <1>1 DEF Measured
<1>4. PICK file : file = [files[n] EXCEPT !.score = score, !.whole = TRUE]
  OBVIOUS
<1>5. file \in Files /\ file.run = files[n].run
  BY <1>3, <1>4 DEF Files
<1>6. files' = [files EXCEPT ![n] = file]
  BY <1>1, <1>2, <1>4
<1>7. /\ files' \in Seq(Files) /\ Len(files') = Len(files)
      /\ \A i \in 1..Len(files) : files'[i].run = files[i].run
  BY <1>1, <1>5, <1>6
<1>8. runs' = runs /\ ~quiet'
  BY DEF WriteResult
<1>9. RunsTyped'
  <2>1. /\ run \in [at : {"open", "write"}, next : 1..Len(TaskOrder),
                    canonical : BOOLEAN, quantized : BOOLEAN]
        /\ runs \in 0..MaxRuns /\ runs >= 1
    BY DEF FInv, RunsTyped, WriteResult, Idle
  <2>2. CASE run.next < Len(TaskOrder)
    <3>1. run' = [run EXCEPT !.at = "open", !.next = run.next + 1]
      BY <2>2 DEF WriteResult
    <3>2. run.next + 1 \in 1..Len(TaskOrder)
      BY <2>1, <2>2
    <3>3. run' \in [at : {"open", "write"}, next : 1..Len(TaskOrder),
                    canonical : BOOLEAN, quantized : BOOLEAN] /\ run'.at = "open"
      BY <2>1, <3>1, <3>2
    <3> QED BY <1>7, <1>8, <2>1, <3>3 DEF RunsTyped
  <2>3. CASE ~(run.next < Len(TaskOrder))
    <3>1. run' = Idle
      BY <2>3 DEF WriteResult
    <3> QED BY <1>7, <1>8, <2>1, <3>1 DEF RunsTyped
  <2> QED BY <2>2, <2>3
<1>10. RunAfterRun'
  BY <1>1, <1>7, <1>8 DEF FInv, RunAfterRun
<1> QED BY <1>8, <1>9, <1>10 DEF FInv, CurrentIsFound, PreviousIsFound

\* The steps that leave the files alone.
LEMMA FInvElsewhere ==
  ASSUME FInv, UNCHANGED <<files, runs, run>>
  PROVE  RunsTyped' /\ RunAfterRun' /\ Candidates(TRUE)' = Candidates(TRUE)
         /\ Newest(Candidates(TRUE))' = Newest(Candidates(TRUE)) /\ FindPrevious' = FindPrevious
<1>1. RunsTyped' /\ RunAfterRun'
  BY DEF FInv, RunsTyped, RunAfterRun
<1>2. Candidates(TRUE)' = Candidates(TRUE)
  BY DEF Candidates
<1>3. Newest(Candidates(TRUE))' = Newest(Candidates(TRUE))
  BY <1>2 DEF Newest
<1>4. FindPrevious' = FindPrevious
  BY DEF FindPrevious, Newest, Candidates
<1> QED BY <1>1, <1>2, <1>3, <1>4

LEMMA FInvNext == FInv /\ [Next]_vars => FInv'
<1> SUFFICES ASSUME FInv, [Next]_vars PROVE FInv'
  OBVIOUS
<1>1. CASE StartRun
  <2>1. /\ runs' = runs + 1 /\ files' = files /\ UNCHANGED gateVars /\ quiet' = quiet
        /\ runs \in 0..MaxRuns /\ runs < MaxRuns
    BY <1>1 DEF StartRun, FInv, RunsTyped
  <2>2. PICK canonical \in BOOLEAN, quantized \in BOOLEAN :
           run' = [at |-> "open", next |-> 1, canonical |-> canonical, quantized |-> quantized]
    BY <1>1 DEF StartRun
  <2>3. 1 \in 1..Len(TaskOrder)
    BY BenchmarkAssumption
  <2>4. RunsTyped'
    BY <2>1, <2>2, <2>3, BenchmarkAssumption DEF FInv, RunsTyped
  <2>5. RunAfterRun'
    <3>1. \A i \in 1..Len(files) : files[i] \in Files
      BY DEF FInv, RunsTyped
    <3>2. \A i \in 1..Len(files) : files[i].run \in Int
      BY <3>1 DEF Files
    <3> QED BY <2>1, <3>2 DEF FInv, RunAfterRun
  <2>6. Candidates(TRUE)' = Candidates(TRUE)
    BY <2>1 DEF Candidates
  <2>7. Newest(Candidates(TRUE))' = Newest(Candidates(TRUE))
    BY <2>1, <2>6 DEF Newest
  <2>8. FindPrevious' = FindPrevious
    BY <2>1 DEF FindPrevious, Newest, Candidates
  <2> QED BY <2>1, <2>4, <2>5, <2>6, <2>7, <2>8 DEF FInv, CurrentIsFound, PreviousIsFound, gateVars
<1>2. CASE OpenResult
  BY <1>2, FInvOpen
<1>3. CASE WriteResult
  BY <1>3, FInvWrite
<1>4. CASE RunnerDies
  <2>1. run' = Idle /\ UNCHANGED <<files, runs, gate, quiet>>
    BY <1>4 DEF RunnerDies, gateVars
  <2>2. RunsTyped' /\ RunAfterRun'
    BY <2>1 DEF FInv, RunsTyped, RunAfterRun
  <2>3. Candidates(TRUE)' = Candidates(TRUE)
    BY <2>1 DEF Candidates
  <2>4. Newest(Candidates(TRUE))' = Newest(Candidates(TRUE))
    BY <2>1, <2>3 DEF Newest
  <2>5. FindPrevious' = FindPrevious
    BY <2>1 DEF FindPrevious, Newest, Candidates
  <2> QED BY <2>1, <2>2, <2>3, <2>4, <2>5 DEF FInv, CurrentIsFound, PreviousIsFound
<1>5. CASE GateStart
  <2>1. gate'.at = "find" /\ UNCHANGED <<files, runs, run>>
    BY <1>5 DEF GateStart, runnerVars
  <2> QED BY <2>1, FInvElsewhere DEF FInv, CurrentIsFound, PreviousIsFound
<1>6. CASE FindCurrent
  <2>1. UNCHANGED <<files, runs, run, quiet>>
    BY <1>6 DEF FindCurrent, Returns, runnerVars
  <2>2. CASE gate' = Idle
    BY <2>1, <2>2, FInvElsewhere DEF FInv, CurrentIsFound, PreviousIsFound, Idle
  <2>3. CASE gate' # Idle
    <3>1. PICK current : /\ current = (IF gate.named = 0 THEN FindCanonical ELSE files[gate.named])
                         /\ current # None
                         /\ gate' = [at |-> "compare", named |-> gate.named, current |-> current]
      BY <1>6, <2>3 DEF FindCurrent, Returns
    <3>2. gate.named = 0 => Candidates(TRUE) # {} /\ current = Newest(Candidates(TRUE))
      BY <3>1 DEF FindCanonical
    <3> QED BY <2>1, <3>1, <3>2, FInvElsewhere DEF FInv, CurrentIsFound, PreviousIsFound
  <2> QED BY <2>2, <2>3
<1>7. CASE FindOthers
  <2>1. /\ UNCHANGED <<files, runs, run, quiet>> /\ gate.at = "compare"
        /\ gate' = [at |-> "reference", named |-> gate.named, current |-> gate.current,
                    previous |-> FindPrevious]
    BY <1>7 DEF FindOthers, runnerVars
  <2> QED BY <2>1, FInvElsewhere DEF FInv, CurrentIsFound, PreviousIsFound
<1>8. CASE Evaluate \/ Save \/ GateDies
  <2>1. UNCHANGED <<files, runs, run>> /\ gate'.at \in {"idle", "save"}
    BY <1>8 DEF Evaluate, Save, GateDies, Returns, runnerVars, Idle
  <2> QED BY <2>1, FInvElsewhere DEF FInv, CurrentIsFound, PreviousIsFound
<1>9. CASE UNCHANGED vars
  <2>1. UNCHANGED <<files, runs, run, gate, quiet>>
    BY <1>9 DEF vars
  <2> QED BY <2>1, FInvElsewhere DEF FInv, CurrentIsFound, PreviousIsFound
<1> QED BY <1>1, <1>2, <1>3, <1>4, <1>5, <1>6, <1>7, <1>8, <1>9 DEF Next, Runner, Gate

\* The run a result is compared with is older than its own, as long as no result is written
\* during the check and the gate chose the result itself (_find_previous_canonical).
THEOREM PreviousRunIsOlder == Spec => []PreviousIsOlder
BY FoundIsOlder, FInvInit, FInvNext, PTL DEF Spec

-----------------------------------------------------------------------------
(* The files, the locals of the gate and the bounds of the history *)

\* A check that has not counted yet has room for one more failure.
Counting == gate.at \in {"find", "compare", "reference"}

RoomToCount ==
    /\ checks \in 0..MaxChecks /\ crashes \in 0..MaxCrashes /\ tears <= crashes
    /\ \A b \in Blocking : streak[b] <= checks /\ (Counting => streak[b] < checks)

GateTyped ==
    /\ gate.at \in {"idle", "find", "compare", "reference", "save"}
    /\ state \in {Absent, Torn} \cup [is : {"whole"}, counts : [Blocking -> Nat]]
    /\ verdict.is \in {"none", "raised", "passed without results", "judged"}
    /\ quiet \in BOOLEAN

TInv == CInv /\ RunsTyped /\ RoomToCount /\ GateTyped

LEMMA TInvTypes == TInv => TypeOK
<1> SUFFICES ASSUME TInv PROVE TypeOK
  OBVIOUS
<1>1. MaxChecks \in Nat /\ MaxCrashes \in Nat
  BY BenchmarkAssumption
<1>2. streak \in [Blocking -> Nat] /\ tears \in Nat /\ checks \in 0..MaxChecks
  BY DEF TInv, CInv, Typed, RoomToCount
<1>3. \A b \in Blocking : streak[b] \in Nat /\ streak[b] <= MaxChecks
  BY <1>1, <1>2 DEF TInv, RoomToCount
<1>4. streak \in Counts
  BY <1>1, <1>2, <1>3 DEF Counts
<1>5. state \in {Absent, Torn} \cup [is : {"whole"}, counts : Counts]
  <2>1. CASE state \in {Absent, Torn}
    BY <2>1
  <2>2. CASE state \in [is : {"whole"}, counts : [Blocking -> Nat]]
    <3>1. state.is = "whole" /\ Follows(state.counts)
      BY <2>2 DEF TInv, CInv, DiskFollows
    <3>2. \A b \in Blocking : state.counts[b] \in 0..MaxChecks
      BY <1>1, <1>3, <3>1 DEF Follows
    <3>3. state.counts \in Counts
      BY <3>1, <3>2 DEF Follows, Counts
    <3> QED BY <2>2, <3>3
  <2> QED BY <2>1, <2>2 DEF TInv, GateTyped
<1>6. run.at \in {"idle", "open", "write"} /\ (run # Idle => run.next \in 1..Len(TaskOrder))
  BY DEF TInv, RunsTyped, Idle
<1>7. crashes \in 0..MaxCrashes /\ tears \in 0..MaxCrashes
  BY <1>1, <1>2 DEF TInv, RoomToCount
<1> QED BY <1>2, <1>4, <1>5, <1>6, <1>7 DEF TypeOK, TInv, RunsTyped, GateTyped

LEMMA TInvInit == Init => TInv
<1> SUFFICES ASSUME Init PROVE TInv
  OBVIOUS
<1>1. CInv /\ RunsTyped
  BY CInvInit, FInvInit DEF FInv
<1>2. RoomToCount
  BY BenchmarkAssumption DEF Init, RoomToCount, Counting, Idle
<1>3. GateTyped
  BY DEF Init, GateTyped, Idle, Absent, NoVerdict
<1> QED BY <1>1, <1>2, <1>3 DEF TInv

\* What a step of the gate does to the counts, without looking into its result.
LEMMA RoomReturns ==
  ASSUME TInv, NEW result, Returns(result),
         result.is \in {"raised", "passed without results", "judged"}
  PROVE  RoomToCount' /\ GateTyped'
<1>1. /\ gate'.at = "idle" /\ verdict' = result
      /\ UNCHANGED <<state, checks, streak, tears, crashes, quiet>>
  BY DEF Returns, Idle
<1>2. streak \in [Blocking -> Nat] /\ checks \in 0..MaxChecks /\ MaxChecks \in Nat
  BY BenchmarkAssumption DEF TInv, CInv, Typed, RoomToCount
<1>3. RoomToCount'
  BY <1>1, <1>2 DEF TInv, RoomToCount, Counting
<1>4. GateTyped'
  BY <1>1 DEF TInv, GateTyped
<1> QED BY <1>3, <1>4

LEMMA TInvNext == TInv /\ FInv /\ [Next]_vars => TInv'
<1> SUFFICES ASSUME TInv, FInv, [Next]_vars PROVE TInv'
  OBVIOUS
<1>1. CInv' /\ RunsTyped'
  BY CInvNext, FInvNext DEF TInv, FInv
<1> SUFFICES RoomToCount' /\ GateTyped'
  BY <1>1 DEF TInv
<1>2. /\ streak \in [Blocking -> Nat] /\ tears \in Nat /\ checks \in Nat /\ crashes \in Nat
      /\ MaxChecks \in Nat /\ MaxCrashes \in Nat
  BY BenchmarkAssumption DEF TInv, CInv, Typed, RoomToCount
<1>3. CASE Runner
  <2>1. UNCHANGED <<gateVars, crashes>> /\ quiet' \in BOOLEAN
    BY <1>3 DEF Runner, StartRun, OpenResult, WriteResult, TInv, GateTyped
  <2> QED BY <2>1 DEF gateVars, TInv, RoomToCount, Counting, GateTyped
<1>4. CASE RunnerDies
  <2>1. UNCHANGED <<gateVars, quiet>> /\ crashes < MaxCrashes /\ crashes' = crashes + 1
    BY <1>4 DEF RunnerDies
  <2>2. RoomToCount'
    BY <1>2, <2>1 DEF gateVars, TInv, RoomToCount, Counting
  <2>3. GateTyped'
    BY <2>1 DEF gateVars, TInv, GateTyped
  <2> QED BY <2>2, <2>3
<1>5. CASE GateStart
  <2>1. /\ gate.at = "idle" /\ gate'.at = "find" /\ checks < MaxChecks /\ checks' = checks + 1
        /\ verdict'.is = "none" /\ quiet' = TRUE /\ UNCHANGED <<state, streak, tears, crashes>>
    BY <1>5 DEF GateStart, Idle, NoVerdict
  <2>2. RoomToCount'
    BY <1>2, <2>1 DEF TInv, RoomToCount, Counting
  <2>3. GateTyped'
    BY <2>1 DEF TInv, GateTyped
  <2> QED BY <2>2, <2>3
<1>6. CASE FindCurrent
  <2>1. CASE Returns(Raised) \/ Returns(NothingToJudge)
    BY <2>1, RoomReturns DEF Raised, NothingToJudge
  <2>2. CASE ~(Returns(Raised) \/ Returns(NothingToJudge))
    <3>1. /\ gate.at = "find" /\ gate'.at = "compare"
          /\ UNCHANGED <<state, checks, verdict, streak, tears, crashes, quiet>>
      BY <1>6, <2>2 DEF FindCurrent
    <3> QED BY <1>2, <3>1 DEF TInv, RoomToCount, Counting, GateTyped
  <2> QED BY <2>1, <2>2
<1>7. CASE FindOthers
  <2>1. /\ gate.at = "compare" /\ gate'.at = "reference"
        /\ UNCHANGED <<state, checks, verdict, streak, tears, crashes, quiet>>
    BY <1>7 DEF FindOthers
  <2> QED BY <1>2, <2>1 DEF TInv, RoomToCount, Counting, GateTyped
<1>8. CASE Evaluate
  <2>1. CASE Returns(Raised)
    BY <2>1, RoomReturns DEF Raised
  <2>2. CASE ~Returns(Raised)
    <3>1. /\ gate.at = "reference" /\ gate'.at = "save" /\ state' = Torn
          /\ streak' = [b \in Blocking |-> IF FloorMet(gate.current, b) THEN 0 ELSE streak[b] + 1]
          /\ UNCHANGED <<checks, verdict, tears, crashes, quiet>>
      BY <1>8, <2>2 DEF Evaluate
    <3>2. \A b \in Blocking : streak[b] < checks
      BY <3>1 DEF TInv, RoomToCount, Counting
    <3>3. \A b \in Blocking : streak'[b] <= checks /\ streak'[b] \in Nat
      BY <1>2, <3>1, <3>2
    <3>4. RoomToCount'
      BY <1>2, <3>1, <3>3 DEF TInv, RoomToCount, Counting
    <3>5. GateTyped'
      BY <3>1 DEF TInv, GateTyped
    <3> QED BY <3>4, <3>5
  <2> QED BY <2>1, <2>2
<1>9. CASE Save
  <2>1. /\ gate.at = "save" /\ gate'.at = "idle" /\ verdict' = gate.result
        /\ state' = [is |-> "whole", counts |-> gate.result.counts]
        /\ UNCHANGED <<checks, streak, tears, crashes, quiet>>
    BY <1>9 DEF Save, Idle
  <2>2. gate.result.is = "judged" /\ gate.result.counts \in [Blocking -> Nat]
    BY <2>1 DEF TInv, CInv, SavedFollows, Follows
  <2>3. RoomToCount'
    BY <1>2, <2>1 DEF TInv, RoomToCount, Counting
  <2>4. GateTyped'
    BY <2>1, <2>2 DEF TInv, GateTyped
  <2> QED BY <2>3, <2>4
<1>10. CASE GateDies
  <2>1. /\ gate'.at = "idle" /\ crashes < MaxCrashes /\ crashes' = crashes + 1
        /\ tears' <= tears + 1 /\ UNCHANGED <<state, checks, verdict, streak, quiet>>
    BY <1>2, <1>10 DEF GateDies, Idle
  <2>2. tears' \in Int
    BY <1>2, <1>10 DEF GateDies
  <2>3. RoomToCount'
    BY <1>2, <2>1, <2>2 DEF TInv, RoomToCount, Counting
  <2>4. GateTyped'
    BY <2>1 DEF TInv, GateTyped
  <2> QED BY <2>3, <2>4
<1>11. CASE UNCHANGED vars
  BY <1>11 DEF vars, TInv, RoomToCount, Counting, GateTyped
<1> QED BY <1>3, <1>4, <1>5, <1>6, <1>7, <1>8, <1>9, <1>10, <1>11 DEF Next, Gate

\* Files, locals, counters and verdicts are what the code can make of them, and no counter
\* ever exceeds the checks that were begun (gate_check_benchmarks, run_benchmarks).
THEOREM BenchmarkTypeCorrect == Spec => []TypeOK
<1>1. TInv /\ FInv /\ [Next]_vars => (TInv /\ FInv)'
  BY TInvNext, FInvNext
<1> QED BY <1>1, TInvTypes, TInvInit, FInvInit, PTL DEF Spec
=============================================================================
