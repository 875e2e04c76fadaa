-------------------------- MODULE EvalGatesProofs ---------------------------
(***************************************************************************)
(* Proofs about the two older gates, for any dimensions, gates, limits,    *)
(* values and bounds: the counters of gate_check against the failures in a *)
(* row, the failures gate_check_eval finds again in the files of earlier   *)
(* evaluations, and, for all three gates at work in any interleaving, the  *)
(* type invariant.                                                         *)
(***************************************************************************)
EXTENDS Gates, GateProofs, FiniteSetTheorems

-----------------------------------------------------------------------------
(* gate_check: the counters and the checks in a row that failed *)

\* Counters are no more than the failures in a row, and no less if none were lost.
Fp4Follows(counts) ==
    /\ counts \in [DOMAIN Gated -> Nat]
    /\ \A d \in DOMAIN Gated :
          /\ counts[d] <= fp4Streak[d]
          /\ fp4Tears = 0 => counts[d] = fp4Streak[d]

\* A verdict of counters blocks at the limits.
Fp4Judges(v) ==
    v.is = "judged" =>
       /\ Fp4Follows(v.counts)
       /\ v.blocking <=> \E d \in DOMAIN Gated : v.counts[d] >= Gated[d].block

Fp4Typed ==
    /\ fp4Streak \in [DOMAIN Gated -> Nat] /\ fp4Tears \in Nat
    /\ fp4Gate.is \in {"nothing", "loaded", "saving"}

Fp4DiskFollows == fp4State.is = "whole" => Fp4Follows(fp4State.counts)
Fp4SavedFollows == fp4Gate.is = "saving" => Fp4Follows(fp4Gate.counts)

\* While a check is at work, the verdict of the one before is forgotten.
Fp4JudgedFollows ==
    Fp4Judges(fp4Verdict) /\ (fp4Verdict.is = "judged" => fp4Gate.is = "nothing")

\* Without counters, and without a death that lost them, nothing has failed.
Fp4NoneLost ==
    fp4State.is # "whole" /\ fp4Tears = 0 /\ fp4Gate.is # "saving" =>
       \A d \in DOMAIN Gated : fp4Streak[d] = 0

Fp4Inv == Fp4Typed /\ Fp4DiskFollows /\ Fp4SavedFollows /\ Fp4JudgedFollows /\ Fp4NoneLost

LEMMA Fp4InvInit == EvalInit => Fp4Inv
BY DEF EvalInit, Fp4Inv, Fp4Typed, Fp4DiskFollows, Fp4SavedFollows, Fp4JudgedFollows, Fp4NoneLost,
       Fp4Judges, Fp4Follows, NoFile, Nothing

LEMMA Fp4CountersFollow ==
  ASSUME Fp4Inv, fp4Gate.is # "saving"
  PROVE  Fp4Follows(Fp4Counters)
<1>1. CASE fp4State.is = "whole"
  BY <1>1 DEF Fp4Inv, Fp4DiskFollows, Fp4Counters
<1>2. CASE fp4State.is # "whole"
  BY <1>2 DEF Fp4Inv, Fp4Typed, Fp4NoneLost, Fp4Counters, Fp4Follows
<1> QED BY <1>1, <1>2

\* The steps that leave the counters, the verdict and the locals of gate_check alone.
LEMMA Fp4InvElsewhere ==
  ASSUME Fp4Inv, UNCHANGED <<fp4State, fp4Gate, fp4Verdict, fp4Streak, fp4Tears>>
  PROVE  Fp4Inv'
BY DEF Fp4Inv, Fp4Typed, Fp4DiskFollows, Fp4SavedFollows, Fp4JudgedFollows, Fp4NoneLost,
       Fp4Judges, Fp4Follows

\* Where a check of gate_check is after it read the metrics.
LEMMA CheckFp4Does ==
  ASSUME CheckFp4
  PROVE  /\ fp4Gate.is = "nothing" /\ fp4Gate'.is \in {"nothing", "loaded"}
         /\ fp4Verdict'.is \in {"nothing", "passed without metrics"}
         /\ UNCHANGED <<metrics, recording, fp4State, fp4Streak, fp4Tears, runVars>>
<1>1. /\ fp4Gate.is = "nothing"
      /\ UNCHANGED <<metrics, recording, fp4State, fp4Streak, fp4Tears, runVars>>
  BY DEF CheckFp4, Nothing
<1>2. CASE fp4Gate' = fp4Gate /\ fp4Verdict' = [is |-> "passed without metrics"]
  BY <1>1, <1>2
<1>3. CASE fp4Gate' = [is |-> "loaded", values |-> metrics.values] /\ fp4Verdict' = Nothing
  BY <1>1, <1>3 DEF Nothing
<1> QED BY <1>1, <1>2, <1>3 DEF CheckFp4

LEMMA Fp4InvCheck ==
  ASSUME Fp4Inv, CheckFp4
  PROVE  Fp4Inv'
<1>1. /\ fp4Gate.is = "nothing" /\ fp4Gate'.is \in {"nothing", "loaded"}
      /\ fp4Verdict'.is \in {"nothing", "passed without metrics"}
      /\ UNCHANGED <<fp4State, fp4Streak, fp4Tears>>
  BY CheckFp4Does
<1>2. Fp4Typed' /\ Fp4SavedFollows' /\ Fp4JudgedFollows'
  BY <1>1 DEF Fp4Inv, Fp4Typed, Fp4SavedFollows, Fp4JudgedFollows, Fp4Judges
<1>3. Fp4DiskFollows' /\ Fp4NoneLost'
  BY <1>1 DEF Fp4Inv, Fp4Typed, Fp4DiskFollows, Fp4NoneLost, Fp4Follows
<1> QED BY <1>2, <1>3 DEF Fp4Inv

LEMMA Fp4InvCount ==
  ASSUME Fp4Inv, CountFp4
  PROVE  Fp4Inv'
<1>1. PICK counted : counted = Fp4Counted(fp4Gate.values)
  OBVIOUS
<1>2. /\ fp4Gate.is = "loaded" /\ fp4Gate'.is = "saving" /\ fp4Gate'.counts = counted
      /\ fp4State'.is = "torn" /\ UNCHANGED <<fp4Verdict, fp4Tears>>
      /\ fp4Streak' = [d \in DOMAIN Gated |->
                         IF WithinGate(d, fp4Gate.values) THEN 0 ELSE fp4Streak[d] + 1]
  BY <1>1 DEF CountFp4, TornFile
<1>3. counted = [d \in DOMAIN Gated |->
                   IF WithinGate(d, fp4Gate.values) THEN 0 ELSE Fp4Counters[d] + 1]
  BY <1>1 DEF Fp4Counted
<1>4. Fp4Follows(Fp4Counters) /\ Fp4Typed /\ fp4Verdict.is # "judged"
  BY <1>2, Fp4CountersFollow DEF Fp4Inv, Fp4JudgedFollows
<1>5. Fp4Typed'
  BY <1>2, <1>4 DEF Fp4Typed
<1>6. Fp4Follows(counted)'
  BY <1>2, <1>3, <1>4 DEF Fp4Follows, Fp4Typed
<1>7. Fp4SavedFollows'
  BY <1>2, <1>6 DEF Fp4SavedFollows, Fp4Follows
<1>8. Fp4DiskFollows' /\ Fp4NoneLost' /\ Fp4JudgedFollows'
  BY <1>2, <1>4 DEF Fp4DiskFollows, Fp4NoneLost, Fp4JudgedFollows, Fp4Judges
<1> QED BY <1>5, <1>7, <1>8 DEF Fp4Inv

LEMMA Fp4InvSave ==
  ASSUME Fp4Inv, SaveFp4
  PROVE  Fp4Inv'
<1>1. Fp4Follows(fp4Gate.counts)
  BY DEF SaveFp4, Fp4Inv, Fp4SavedFollows
<1>2. PICK counts : counts = fp4Gate.counts
  OBVIOUS
<1>3. /\ fp4State'.is = "whole" /\ fp4State'.counts = counts
      /\ fp4Verdict'.counts = counts /\ fp4Gate'.is = "nothing" /\ UNCHANGED <<fp4Streak, fp4Tears>>
      /\ fp4Verdict'.blocking <=> \E d \in DOMAIN Gated : counts[d] >= Gated[d].block
  BY <1>2 DEF SaveFp4, Nothing
<1>4. Fp4Follows(counts)'
  BY <1>1, <1>2, <1>3 DEF Fp4Follows
<1>5. Fp4Judges(fp4Verdict)'
  BY <1>3, <1>4 DEF Fp4Judges, Fp4Follows
<1>6. Fp4DiskFollows'
  BY <1>3, <1>4 DEF Fp4DiskFollows, Fp4Follows
<1> QED BY <1>3, <1>5, <1>6 DEF Fp4Inv, Fp4Typed, Fp4SavedFollows, Fp4JudgedFollows, Fp4NoneLost

LEMMA Fp4InvDies ==
  ASSUME Fp4Inv, fp4Gate # Nothing, fp4Gate' = Nothing,
         fp4Tears' = IF fp4Gate.is = "saving" THEN fp4Tears + 1 ELSE fp4Tears,
         UNCHANGED <<fp4State, fp4Verdict, fp4Streak>>
  PROVE  Fp4Inv'
<1>1. fp4Gate'.is = "nothing"
  BY DEF Nothing
<1>2. CASE fp4Gate.is = "saving"
  <2>1. fp4Tears' # 0 /\ fp4Tears' \in Nat /\ fp4Verdict.is # "judged"
    BY <1>2 DEF Fp4Inv, Fp4Typed, Fp4JudgedFollows
  <2>2. Fp4DiskFollows'
    BY <2>1 DEF Fp4Inv, Fp4DiskFollows, Fp4Follows
  <2> QED BY <1>1, <2>1, <2>2 DEF Fp4Inv, Fp4Typed, Fp4SavedFollows, Fp4JudgedFollows, Fp4NoneLost,
                                  Fp4Judges
<1>3. CASE fp4Gate.is # "saving"
  BY <1>1, <1>3 DEF Fp4Inv, Fp4Typed, Fp4DiskFollows, Fp4SavedFollows, Fp4JudgedFollows,
                    Fp4NoneLost, Fp4Judges, Fp4Follows
<1> QED BY <1>2, <1>3

LEMMA Fp4InvNext == Fp4Inv /\ [EvalNext]_evalVars => Fp4Inv'
<1> SUFFICES ASSUME Fp4Inv, [EvalNext]_evalVars PROVE Fp4Inv'
  OBVIOUS
<1>1. CASE CheckFp4 \/ CountFp4 \/ SaveFp4
  BY <1>1, Fp4InvCheck, Fp4InvCount, Fp4InvSave
<1>2. CASE RecordOpen \/ RecordWrite
  BY <1>2, Fp4InvElsewhere DEF RecordOpen, RecordWrite
<1>3. CASE RunNext
  BY <1>3, Fp4InvElsewhere DEF RunNext, PersistOpen, PersistWrite, ReportOpen, ReportWrite,
                               CheckEval, fp4Vars
<1>4. CASE EvalDies
  <2>1. CASE UNCHANGED <<fp4State, fp4Gate, fp4Verdict, fp4Streak, fp4Tears>>
    BY <2>1, Fp4InvElsewhere
  <2>2. CASE ~UNCHANGED <<fp4State, fp4Gate, fp4Verdict, fp4Streak, fp4Tears>>
    BY <1>4, <2>2, Fp4InvDies DEF EvalDies, fp4Vars
  <2> QED BY <2>1, <2>2
<1>5. CASE UNCHANGED evalVars
  BY <1>5, Fp4InvElsewhere DEF evalVars
<1> QED BY <1>1, <1>2, <1>3, <1>4, <1>5 DEF EvalNext, Fp4Next

\* A dimension blocks when it failed its own number of checks in a row: never earlier,
\* whatever died while the counters were rewritten, and no later if nothing did
\* (gate_check, _update_consecutive_failures, _load_gate_state).
THEOREM Fp4BlockedInTime == EvalSpec => []Fp4BlocksInTime
<1>1. Fp4Inv => Fp4BlocksInTime
  <2> SUFFICES ASSUME Fp4Inv, fp4Verdict.is = "judged" PROVE Fp4BlocksInTime
    BY DEF Fp4BlocksInTime
  <2>1. /\ Fp4Follows(fp4Verdict.counts) /\ Fp4Typed
        /\ fp4Verdict.blocking <=> \E d \in DOMAIN Gated : fp4Verdict.counts[d] >= Gated[d].block
    BY DEF Fp4Inv, Fp4JudgedFollows, Fp4Judges
  <2>2. \A d \in DOMAIN Gated : Gated[d].block \in Nat
    BY EvalAssumption
  <2> QED BY <2>1, <2>2 DEF Fp4Follows, Fp4Typed, Fp4BlocksInTime
<1> QED BY <1>1, Fp4InvInit, Fp4InvNext, PTL DEF EvalSpec

-----------------------------------------------------------------------------
(* gate_check_eval: the failures in a row, found again in the files *)

\* The files of earlier evaluations that can be parsed, and those of them from which on
\* every one failed a gate.
WholeRuns == {i \in 1..Len(evals) : evals[i].is = "whole"}
FailedSince(g) ==
    {i \in WholeRuns : \A j \in WholeRuns : j >= i => evals[j].gates[g] = "failed"}

EvalsTyped ==
    /\ evals \in Seq({TornFile} \cup [is : {"whole"}, gates : Outcomes])
    /\ evalStreak \in [EvalGateNames -> Nat]
    /\ persisting \in BOOLEAN
    /\ persisting => Len(evals) >= 1 /\ evals[Len(evals)].is = "torn"

StreakIsOnDisk == \A g \in EvalGateNames : evalStreak[g] = Cardinality(FailedSince(g))

EvalInv == EvalsTyped /\ StreakIsOnDisk

LEMMA WholeRunsFinite ==
  ASSUME EvalsTyped, NEW g \in EvalGateNames
  PROVE  WholeRuns \in SUBSET (1..Len(evals)) /\ IsFiniteSet(FailedSince(g))
<1>1. Len(evals) \in Nat
  BY DEF EvalsTyped
<1>2. IsFiniteSet(1..Len(evals))
  BY <1>1, FS_Interval
<1>3. FailedSince(g) \subseteq 1..Len(evals) /\ WholeRuns \subseteq 1..Len(evals)
  BY DEF FailedSince, WholeRuns
<1> QED BY <1>2, <1>3, FS_Subset

LEMMA EvalInvInit == EvalInit => EvalInv
<1> SUFFICES ASSUME EvalInit PROVE EvalInv
  OBVIOUS
<1>1. EvalsTyped
  <2>1. evals = <<>> /\ persisting = FALSE /\ evalStreak = [g \in EvalGateNames |-> 0]
    BY DEF EvalInit
  <2>2. evals \in Seq({TornFile} \cup [is : {"whole"}, gates : Outcomes])
    BY <2>1
  <2>3. evalStreak \in [EvalGateNames -> Nat]
    BY <2>1
  <2> QED BY <2>1, <2>2, <2>3, Zenon DEF EvalsTyped
<1>2. WholeRuns = {}
  BY DEF EvalInit, WholeRuns
<1>3. \A g \in EvalGateNames : FailedSince(g) = {} /\ evalStreak[g] = 0
  BY <1>2 DEF FailedSince, EvalInit
<1> QED BY <1>1, <1>3, FS_EmptySet DEF EvalInv, StreakIsOnDisk

LEMMA EvalInvElsewhere ==
  ASSUME EvalInv, UNCHANGED <<evals, evalStreak>>, persisting' \in {persisting, FALSE}
  PROVE  EvalInv'
<1>1. EvalsTyped'
  <2>1. CASE persisting' = persisting
    BY <2>1 DEF EvalInv, EvalsTyped
  <2>2. CASE persisting' = FALSE
    BY <2>2 DEF EvalInv, EvalsTyped
  <2> QED BY <2>1, <2>2
<1>2. WholeRuns' = WholeRuns /\ \A g \in EvalGateNames : FailedSince(g)' = FailedSince(g)
  BY DEF WholeRuns, FailedSince
<1> QED BY <1>1, <1>2 DEF EvalInv, StreakIsOnDisk

LEMMA EvalInvOpen ==
  ASSUME EvalInv, PersistOpen
  PROVE  EvalInv'
<1> DEFINE n == Len(evals)
<1>1. evals \in Seq({TornFile} \cup [is : {"whole"}, gates : Outcomes]) /\ n \in Nat
  BY DEF EvalInv, EvalsTyped
<1>2. evals' = Append(evals, TornFile) /\ persisting' = TRUE /\ evalStreak' = evalStreak
  BY DEF PersistOpen
<1>3. /\ Len(evals') = n + 1 /\ evals'[n + 1] = TornFile
      /\ \A i \in 1..n : evals'[i] = evals[i]
      /\ evals' \in Seq({TornFile} \cup [is : {"whole"}, gates : Outcomes])
  BY <1>1, <1>2
<1>4. EvalsTyped'
  BY <1>1, <1>2, <1>3 DEF EvalInv, EvalsTyped, TornFile
<1>5. WholeRuns' = WholeRuns /\ WholeRuns \subseteq 1..n
  <2>1. \A i : i \in 1..(n + 1) <=> i \in 1..n \/ i = n + 1
    BY <1>1
  <2> QED BY <1>1, <1>3, <2>1 DEF WholeRuns, TornFile
<1>6. ASSUME NEW g \in EvalGateNames PROVE FailedSince(g)' = FailedSince(g)
  <2>1. \A i \in WholeRuns : evals'[i] = evals[i]
    BY <1>3, <1>5
  <2> QED BY <1>5, <2>1 DEF FailedSince
<1> QED BY <1>2, <1>4, <1>6 DEF EvalInv, StreakIsOnDisk

LEMMA EvalInvWrite ==
  ASSUME EvalInv, PersistWrite
  PROVE  EvalInv'
<1> DEFINE n == Len(evals)
<1>1. /\ evals \in Seq({TornFile} \cup [is : {"whole"}, gates : Outcomes])
      /\ n \in Nat /\ n >= 1 /\ evals[n].is = "torn"
      /\ evalStreak \in [EvalGateNames -> Nat]
  BY DEF EvalInv, EvalsTyped, PersistWrite
<1>2. PICK o \in Outcomes :
         /\ evals' = [evals EXCEPT ![n] = [is |-> "whole", gates |-> o]]
         /\ evalStreak' = [g \in EvalGateNames |-> IF o[g] = "failed" THEN evalStreak[g] + 1 ELSE 0]
  BY DEF PersistWrite
<1>3. PICK file \in [is : {"whole"}, gates : Outcomes] :
         file = [is |-> "whole", gates |-> o]
  OBVIOUS
<1>4. evals' = [evals EXCEPT ![n] = file] /\ file.is = "whole" /\ file.gates = o
  BY <1>2, <1>3
<1>5. /\ Len(evals') = n /\ evals'[n] = file
      /\ \A i \in 1..n : i # n => evals'[i] = evals[i]
      /\ evals' \in Seq({TornFile} \cup [is : {"whole"}, gates : Outcomes])
  BY <1>1, <1>3, <1>4
<1>6. EvalsTyped'
  <2>1. evalStreak' \in [EvalGateNames -> Nat]
    BY <1>1, <1>2
  <2>2. persisting' = FALSE
    BY DEF PersistWrite
  <2> QED BY <1>5, <2>1, <2>2 DEF EvalsTyped
<1>7. WholeRuns \in SUBSET (1..n) /\ n \notin WholeRuns
  BY <1>1 DEF WholeRuns
<1>8. WholeRuns' = WholeRuns \cup {n}
  <2>1. \A i \in 1..n : evals'[i].is = "whole" <=> i = n \/ evals[i].is = "whole"
    BY <1>1, <1>4, <1>5
  <2> QED BY <1>1, <1>5, <2>1 DEF WholeRuns
<1>9. ASSUME NEW g \in EvalGateNames
      PROVE  evalStreak'[g] = Cardinality(FailedSince(g)')
  <2>1. \A i \in WholeRuns : evals'[i] = evals[i] /\ i \in Int /\ i <= n
    BY <1>5, <1>7
  <2>2. evals'[n].gates[g] = o[g]
    BY <1>4, <1>5
  <2>3. IsFiniteSet(FailedSince(g)) /\ n \notin FailedSince(g)
    BY <1>7, WholeRunsFinite DEF EvalInv, FailedSince
  <2>4. CASE o[g] = "failed"
    <3>1. FailedSince(g)' = FailedSince(g) \cup {n}
      BY <1>1, <1>8, <2>1, <2>2, <2>4 DEF FailedSince
    <3>2. Cardinality(FailedSince(g)') = Cardinality(FailedSince(g)) + 1
      BY <2>3, <3>1, FS_AddElement
    <3> QED BY <1>2, <2>4, <3>2 DEF EvalInv, StreakIsOnDisk
  <2>5. CASE o[g] # "failed"
    <3>1. FailedSince(g)' = {}
      BY <1>1, <1>8, <2>1, <2>2, <2>5 DEF FailedSince
    <3> QED BY <1>2, <2>5, <3>1, FS_EmptySet
  <2> QED BY <2>4, <2>5
<1> QED BY <1>6, <1>9 DEF EvalInv, StreakIsOnDisk

LEMMA EvalInvNext == EvalInv /\ [EvalNext]_evalVars => EvalInv'
<1> SUFFICES ASSUME EvalInv, [EvalNext]_evalVars PROVE EvalInv'
  OBVIOUS
<1>1. CASE PersistOpen \/ PersistWrite
  BY <1>1, EvalInvOpen, EvalInvWrite
<1>2. CASE ReportOpen \/ ReportWrite \/ CheckEval
  BY <1>2, EvalInvElsewhere DEF ReportOpen, ReportWrite, CheckEval
<1>3. CASE Fp4Next
  BY <1>3, EvalInvElsewhere DEF Fp4Next, RecordOpen, RecordWrite, CheckFp4, CountFp4, SaveFp4, runVars
<1>4. CASE EvalDies
  BY <1>4, EvalInvElsewhere DEF EvalDies, runVars
<1>5. CASE UNCHANGED evalVars
  BY <1>5, EvalInvElsewhere DEF evalVars
<1> QED BY <1>1, <1>2, <1>3, <1>4, <1>5 DEF EvalNext, RunNext

\* What a count of gate_check_eval finds, where no report is.
LEMMA ConsecutiveFound ==
  ASSUME EvalInv, report # "whole", NEW g \in EvalGateNames, NEW current, current # "passed"
  PROVE  Consecutive(g, current) = 1 + evalStreak[g]
<1> DEFINE found == {i \in Prior : \A j \in Prior : j >= i => FailedIn(j, g)}
<1>1. Consecutive(g, current) = 1 + Cardinality(found)
  BY DEF Consecutive
<1>2. Len(evals) \in Nat /\ WholeRuns \in SUBSET (1..Len(evals))
  BY WholeRunsFinite DEF EvalInv, EvalsTyped
<1>3. \A j \in WholeRuns : FailedIn(j, g) <=> evals[j].gates[g] = "failed"
  BY <1>2 DEF FailedIn
<1>4. Prior = WholeRuns
  BY DEF Prior, WholeRuns
<1>5. found = FailedSince(g)
  BY <1>3, <1>4 DEF FailedSince
<1> QED BY <1>1, <1>5 DEF EvalInv, StreakIsOnDisk

\* A failing gate is reported with the failures in a row before it, found again in the files
\* among torn ones and ones that measured nothing, as long as the evaluate stage has left no
\* report among them (load_prior, _count_consecutive_failures).
THEOREM FailuresFound == EvalSpec => FailuresAreFound
<1> DEFINE Found == \A g \in EvalGateNames :
         report # "whole" /\ JudgedFailed(g) => evalVerdict'.counts[g] = 1 + evalStreak[g]
<1>1. EvalInv /\ [EvalNext]_evalVars => [Found]_evalVars
  <2> SUFFICES ASSUME EvalInv, EvalNext, evalVerdict' # evalVerdict PROVE Found
    BY DEF JudgedFailed
  <2>1. CheckEval
    BY DEF EvalNext, Fp4Next, RunNext, EvalDies, RecordOpen, RecordWrite, CheckFp4, CountFp4, SaveFp4,
           PersistOpen, PersistWrite, ReportOpen, ReportWrite, runVars
  <2>2. PICK o \in Outcomes :
           evalVerdict' = [is |-> "judged", gates |-> o,
                           counts |-> [g \in EvalGateNames |-> Consecutive(g, o[g])]]
    BY <2>1 DEF CheckEval
  <2>3. \A g \in EvalGateNames :
           evalVerdict'.gates[g] = o[g] /\ evalVerdict'.counts[g] = Consecutive(g, o[g])
    BY <2>2
  <2> QED BY <2>3, ConsecutiveFound DEF JudgedFailed
<1> QED BY <1>1, EvalInvInit, EvalInvNext, PTL DEF EvalSpec, FailuresAreFound

-----------------------------------------------------------------------------
(* The types of all three gates *)


SpentTyped ==
    /\ spent \in [records : Nat, evals : Nat, checks : Nat, crashes : Nat]
    /\ spent.evals <= MaxEvals /\ spent.checks <= MaxEvalChecks

\* A check that has not counted yet, and an evaluation not yet written, have room for
\* one more failure.
RoomToFail ==
    /\ \A d \in DOMAIN Gated :
          fp4Streak[d] <= spent.checks /\ (fp4Gate.is = "loaded" => fp4Streak[d] < spent.checks)
    /\ \A g \in EvalGateNames :
          evalStreak[g] <= spent.evals /\ (persisting => evalStreak[g] < spent.evals)

FilesTyped ==
    /\ metrics \in {NoFile, TornFile} \cup [is : {"whole"}, values : Measurements]
    /\ fp4State \in {NoFile, TornFile} \cup [is : {"whole"}, counts : [DOMAIN Gated -> Nat]]
    /\ fp4Verdict.is \in {"nothing", "passed without metrics", "judged"}
    /\ report \in {"absent", "torn", "whole"}
    /\ evalVerdict.is \in {"nothing", "judged"}
    /\ recording \in BOOLEAN

TypedInv == Fp4Inv /\ EvalInv /\ SpentTyped /\ RoomToFail /\ FilesTyped

LEMMA TypedInvTypes == TypedInv => EvalTypeOK
<1> SUFFICES ASSUME TypedInv PROVE EvalTypeOK
  OBVIOUS
<1>1. /\ MaxEvals \in Nat /\ MaxEvalChecks \in Nat
      /\ spent.checks \in Nat /\ spent.evals \in Nat
      /\ spent.checks <= MaxEvalChecks /\ spent.evals <= MaxEvals
  BY EvalAssumption DEF TypedInv, SpentTyped
<1>2. fp4Streak \in [DOMAIN Gated -> Nat] /\ evalStreak \in [EvalGateNames -> Nat]
  BY DEF TypedInv, Fp4Inv, Fp4Typed, EvalInv, EvalsTyped
<1>3. \A d \in DOMAIN Gated : fp4Streak[d] \in 0..MaxEvalChecks
  BY <1>1, <1>2 DEF TypedInv, RoomToFail
<1>4. \A g \in EvalGateNames : evalStreak[g] \in 0..MaxEvals
  BY <1>1, <1>2 DEF TypedInv, RoomToFail
<1>5. fp4State \in {NoFile, TornFile}
                     \cup [is : {"whole"}, counts : [DOMAIN Gated -> 0..MaxEvalChecks]]
  <2>1. CASE fp4State \in {NoFile, TornFile}
    BY <2>1
  <2>2. CASE fp4State \in [is : {"whole"}, counts : [DOMAIN Gated -> Nat]]
    <3>1. fp4State.is = "whole" /\ Fp4Follows(fp4State.counts)
      BY <2>2 DEF TypedInv, Fp4Inv, Fp4DiskFollows
    <3>2. \A d \in DOMAIN Gated : fp4State.counts[d] \in 0..MaxEvalChecks
      BY <1>1, <1>3, <3>1 DEF Fp4Follows
    <3>3. fp4State.counts \in [DOMAIN Gated -> 0..MaxEvalChecks]
      BY <3>1, <3>2 DEF Fp4Follows
    <3> QED BY <2>2, <3>3
  <2> QED BY <2>1, <2>2 DEF TypedInv, FilesTyped
<1>6. fp4Streak \in [DOMAIN Gated -> 0..MaxEvalChecks] /\ evalStreak \in [EvalGateNames -> 0..MaxEvals]
  BY <1>2, <1>3, <1>4
<1>7. /\ fp4Gate.is \in {"nothing", "loaded", "saving"} /\ persisting \in BOOLEAN
      /\ evals \in Seq({TornFile} \cup [is : {"whole"}, gates : Outcomes])
  BY DEF TypedInv, Fp4Inv, Fp4Typed, EvalInv, EvalsTyped
<1> QED BY <1>5, <1>6, <1>7, Zenon DEF EvalTypeOK, TypedInv, FilesTyped

LEMMA TypedInvInit == EvalInit => TypedInv
<1> SUFFICES ASSUME EvalInit PROVE TypedInv
  OBVIOUS
<1>1. Fp4Inv /\ EvalInv
  BY Fp4InvInit, EvalInvInit
<1>2. SpentTyped
  BY EvalAssumption DEF EvalInit, SpentTyped
<1>3. fp4Gate.is = "nothing" /\ persisting = FALSE /\ spent.checks = 0 /\ spent.evals = 0
  BY DEF EvalInit, Nothing
<1>4. RoomToFail
  BY <1>3 DEF EvalInit, RoomToFail
<1>5. FilesTyped
  BY DEF EvalInit, FilesTyped, NoFile, Nothing
<1> QED BY <1>1, <1>2, <1>4, <1>5 DEF TypedInv

LEMMA SpendCheck ==
  ASSUME SpentTyped, Spend("checks", MaxEvalChecks)
  PROVE  SpentTyped' /\ spent'.checks = spent.checks + 1 /\ spent'.evals = spent.evals
BY EvalAssumption DEF SpentTyped, Spend

LEMMA SpendEval ==
  ASSUME SpentTyped, Spend("evals", MaxEvals)
  PROVE  SpentTyped' /\ spent'.evals = spent.evals + 1 /\ spent'.checks = spent.checks
BY EvalAssumption DEF SpentTyped, Spend

LEMMA SpendElse ==
  ASSUME SpentTyped, NEW bound, Spend("records", bound) \/ Spend("crashes", bound)
  PROVE  SpentTyped' /\ spent'.evals = spent.evals /\ spent'.checks = spent.checks
BY DEF SpentTyped, Spend

LEMMA RoomNext ==
  ASSUME TypedInv, EvalNext
  PROVE  SpentTyped' /\ RoomToFail'
<1>1. /\ fp4Streak \in [DOMAIN Gated -> Nat] /\ evalStreak \in [EvalGateNames -> Nat]
      /\ SpentTyped /\ RoomToFail /\ spent.checks \in Nat /\ spent.evals \in Nat
  BY DEF TypedInv, Fp4Inv, Fp4Typed, EvalInv, EvalsTyped, SpentTyped
<1>2. CASE CheckFp4
  <2>1. SpentTyped' /\ spent'.checks = spent.checks + 1 /\ spent'.evals = spent.evals
    BY <1>1, <1>2, SpendCheck DEF CheckFp4
  <2>2. UNCHANGED <<fp4Streak, evalStreak, persisting>>
    BY <1>2 DEF CheckFp4, runVars
  <2> QED BY <1>1, <2>1, <2>2 DEF RoomToFail
<1>3. CASE CheckEval
  <2>1. SpentTyped' /\ spent'.checks = spent.checks + 1 /\ spent'.evals = spent.evals
    BY <1>1, <1>3, SpendCheck DEF CheckEval
  <2>2. UNCHANGED <<fp4Streak, fp4Gate, evalStreak, persisting>>
    BY <1>3 DEF CheckEval, fp4Vars
  <2> QED BY <1>1, <2>1, <2>2 DEF RoomToFail
<1>4. CASE CountFp4
  <2>1. /\ fp4Gate.is = "loaded" /\ fp4Gate'.is = "saving"
        /\ UNCHANGED <<spent, evalStreak, persisting>>
        /\ fp4Streak' = [d \in DOMAIN Gated |->
                           IF WithinGate(d, fp4Gate.values) THEN 0 ELSE fp4Streak[d] + 1]
    BY <1>4 DEF CountFp4, runVars
  <2>2. \A d \in DOMAIN Gated : fp4Streak'[d] <= spent.checks
    BY <1>1, <2>1 DEF RoomToFail
  <2> QED BY <1>1, <2>1, <2>2 DEF RoomToFail, SpentTyped
<1>5. CASE PersistOpen
  <2>1. SpentTyped' /\ spent'.evals = spent.evals + 1 /\ spent'.checks = spent.checks
    BY <1>1, <1>5, SpendEval DEF PersistOpen
  <2>2. UNCHANGED <<fp4Streak, fp4Gate, evalStreak>>
    BY <1>5 DEF PersistOpen, fp4Vars
  <2> QED BY <1>1, <2>1, <2>2 DEF RoomToFail
<1>6. CASE ReportOpen
  <2>1. SpentTyped' /\ spent'.evals = spent.evals + 1 /\ spent'.checks = spent.checks
    BY <1>1, <1>6, SpendEval DEF ReportOpen
  <2>2. UNCHANGED <<fp4Streak, fp4Gate, evalStreak, persisting>>
    BY <1>6 DEF ReportOpen, fp4Vars
  <2> QED BY <1>1, <2>1, <2>2 DEF RoomToFail
<1>7. CASE PersistWrite
  <2>1. persisting /\ ~persisting' /\ UNCHANGED <<spent, fp4Streak, fp4Gate>>
    BY <1>7 DEF PersistWrite, fp4Vars
  <2>2. PICK o \in Outcomes :
           evalStreak' = [g \in EvalGateNames |-> IF o[g] = "failed" THEN evalStreak[g] + 1 ELSE 0]
    BY <1>7 DEF PersistWrite
  <2>3. \A g \in EvalGateNames : evalStreak'[g] <= spent.evals
    BY <1>1, <2>1, <2>2 DEF RoomToFail
  <2> QED BY <1>1, <2>1, <2>3 DEF RoomToFail, SpentTyped
<1>8. CASE RecordOpen \/ EvalDies
  <2>1. SpentTyped' /\ spent'.evals = spent.evals /\ spent'.checks = spent.checks
    BY <1>1, <1>8, SpendElse DEF RecordOpen, EvalDies
  <2>2. UNCHANGED <<fp4Streak, evalStreak>> /\ (persisting' => persisting)
        /\ (fp4Gate'.is = "loaded" => fp4Gate.is = "loaded")
    BY <1>8 DEF RecordOpen, EvalDies, runVars, fp4Vars, Nothing
  <2> QED BY <1>1, <2>1, <2>2 DEF RoomToFail
<1>9. CASE RecordWrite \/ SaveFp4 \/ ReportWrite
  <2>1. UNCHANGED <<spent, fp4Streak, evalStreak, persisting>>
        /\ (fp4Gate'.is = "loaded" => fp4Gate.is = "loaded")
    BY <1>9 DEF RecordWrite, SaveFp4, ReportWrite, runVars, fp4Vars, Nothing
  <2> QED BY <1>1, <2>1 DEF RoomToFail, SpentTyped
<1> QED BY <1>2, <1>3, <1>4, <1>5, <1>6, <1>7, <1>8, <1>9 DEF EvalNext, Fp4Next, RunNext

LEMMA FilesNext ==
  ASSUME TypedInv, EvalNext
  PROVE  FilesTyped'
<1>1. FilesTyped
  BY DEF TypedInv
<1>2. CASE RecordOpen \/ RecordWrite
  <2>1. metrics' \in {NoFile, TornFile} \cup [is : {"whole"}, values : Measurements]
    BY <1>2 DEF RecordOpen, RecordWrite
  <2>2. recording' \in BOOLEAN /\ UNCHANGED <<fp4State, fp4Verdict, report, evalVerdict>>
    BY <1>2 DEF RecordOpen, RecordWrite, runVars
  <2> QED BY <1>1, <2>1, <2>2 DEF FilesTyped
<1>3. CASE CheckFp4
  <2>1. /\ fp4Verdict'.is \in {"nothing", "passed without metrics"}
        /\ UNCHANGED <<metrics, recording, fp4State, report, evalVerdict>>
    BY <1>3, CheckFp4Does DEF runVars
  <2> QED BY <1>1, <2>1 DEF FilesTyped
<1>4. CASE CountFp4
  <2>1. fp4State' = TornFile /\ UNCHANGED <<metrics, recording, fp4Verdict, report, evalVerdict>>
    BY <1>4 DEF CountFp4, runVars
  <2> QED BY <1>1, <2>1 DEF FilesTyped
<1>5. CASE SaveFp4
  <2>1. fp4Gate.counts \in [DOMAIN Gated -> Nat]
    BY <1>5 DEF SaveFp4, TypedInv, Fp4Inv, Fp4SavedFollows, Fp4Follows
  <2>2. /\ fp4State' = [is |-> "whole", counts |-> fp4Gate.counts] /\ fp4Verdict'.is = "judged"
        /\ UNCHANGED <<metrics, recording, report, evalVerdict>>
    BY <1>5 DEF SaveFp4, runVars
  <2> QED BY <1>1, <2>1, <2>2 DEF FilesTyped
<1>6. CASE PersistOpen \/ PersistWrite \/ ReportOpen \/ ReportWrite
  <2>1. report' \in {report, "torn", "whole"}
        /\ UNCHANGED <<metrics, recording, fp4State, fp4Verdict, evalVerdict>>
    BY <1>6 DEF PersistOpen, PersistWrite, ReportOpen, ReportWrite, fp4Vars
  <2> QED BY <1>1, <2>1 DEF FilesTyped
<1>7. CASE CheckEval
  <2>1. evalVerdict'.is = "judged" /\ UNCHANGED <<metrics, recording, fp4State, fp4Verdict, report>>
    BY <1>7 DEF CheckEval, fp4Vars
  <2> QED BY <1>1, <2>1 DEF FilesTyped
<1>8. CASE EvalDies
  <2>1. recording' \in {recording, FALSE}
        /\ UNCHANGED <<metrics, fp4State, fp4Verdict, report, evalVerdict>>
    BY <1>8 DEF EvalDies, runVars, fp4Vars
  <2> QED BY <1>1, <2>1 DEF FilesTyped
<1> QED BY <1>2, <1>3, <1>4, <1>5, <1>6, <1>7, <1>8 DEF EvalNext, Fp4Next, RunNext

LEMMA TypedInvNext == TypedInv /\ [EvalNext]_evalVars => TypedInv'
<1> SUFFICES ASSUME TypedInv, [EvalNext]_evalVars PROVE TypedInv'
  OBVIOUS
<1>1. Fp4Inv' /\ EvalInv'
  BY Fp4InvNext, EvalInvNext DEF TypedInv
<1>2. CASE EvalNext
  BY <1>1, <1>2, RoomNext, FilesNext DEF TypedInv
<1>3. CASE UNCHANGED evalVars
  <2>1. SpentTyped' /\ RoomToFail' /\ FilesTyped'
    BY <1>3 DEF evalVars, TypedInv, SpentTyped, RoomToFail, FilesTyped
  <2> QED BY <1>1, <2>1 DEF TypedInv
<1> QED BY <1>2, <1>3

\* A step of the three gates is a step of the one and a step of the two others, either of
\* which may be a stutter.
LEMMA GatesApart == GatesSpec => Spec /\ EvalSpec
<1>1. GatesInit => Init /\ EvalInit
  BY DEF GatesInit
<1>2. [GatesNext]_<<vars, evalVars>> => [Next]_vars /\ [EvalNext]_evalVars
  BY DEF GatesNext
<1> QED BY <1>1, <1>2, PTL DEF GatesSpec, Spec, EvalSpec

\* However the three gates, the benchmarks, the evaluations and the exports they judge are
\* interleaved, and wherever they die, their files and locals stay what the code can make of
\* them, and no counter exceeds the checks begun (gate_check, gate_check_eval,
\* gate_check_benchmarks).
THEOREM GatesTypeCorrect == GatesSpec => []GatesTypeOK
<1>1. EvalSpec => []EvalTypeOK
  BY TypedInvTypes, TypedInvInit, TypedInvNext, PTL DEF EvalSpec
<1> QED BY <1>1, BenchmarkTypeCorrect, GatesApart, PTL DEF GatesTypeOK
=============================================================================
