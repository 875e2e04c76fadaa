--------------------------- MODULE TeacherProofs ----------------------------
(***************************************************************************)
(* Proofs about the teacher client as the cascade drives it, for any cap,  *)
(* costs, retries and threshold, any number of processes, and deaths and   *)
(* failing writes at any moment: the money and the circuit breaker.        *)
(***************************************************************************)
EXTENDS Cascade, TLAPS

\* Between two steps of the client its caller takes note of what it returned.
Noted == reply' = "none" /\ UNCHANGED <<disk, total, breaker, pc, attempt>>

ClientStep == Next \/ Noted \/ UNCHANGED teacherVars

LEMMA CascadeStep == [CascadeNext]_allVars => ClientStep
BY DEF CascadeNext, StartNiche, Sample, Generator, Confident, Level1Unsure, AskLevel2, Level2Unsure,
       Level2Over, Back, Client, Stop, Next, ClientStep, Noted, allVars

LEMMA MaxCostIsMost == MaxCost \in Nat /\ \A c \in Costs : c \in Nat /\ c <= MaxCost
<1>1. \E c \in Costs : \A d \in Costs : d <= c
  BY TeacherAssumption
<1>2. MaxCost \in Costs /\ \A d \in Costs : d <= MaxCost
  BY <1>1 DEF MaxCost
<1> QED BY <1>2, TeacherAssumption

-----------------------------------------------------------------------------
(* Types *)

LEMMA TypesInit == Init => TypeOK
<1> SUFFICES ASSUME Init PROVE TypeOK
  OBVIOUS
<1>1. open \in BOOLEAN /\ halfOpen \in BOOLEAN /\ waited \in BOOLEAN
  BY DEF Init
<1>2. {MaxRuns, Threshold, MaxUnlogged, MaxRetries} \subseteq Nat
  BY TeacherAssumption
<1>3. failures \in 0..Threshold /\ unlogged \in 0..MaxUnlogged /\ runs \in 0..MaxRuns
      /\ attempt \in 0..MaxRetries
  BY <1>2 DEF Init
<1> QED BY <1>1, <1>3 DEF Init, TypeOK, Replies

LEMMA DiskTypes ==
  ASSUME TypeOK, ClientStep
  PROVE  /\ saved' \in Nat \cup {Torn} /\ total' \in Nat /\ spent' \in Nat
         /\ runs' \in 0..MaxRuns /\ mishaps' \in Nat /\ tears' \in Nat
         /\ attempt' \in 0..MaxRetries
<1>1. /\ saved \in Nat \cup {Torn} /\ total \in Nat /\ spent \in Nat
      /\ runs \in 0..MaxRuns /\ mishaps \in Nat /\ tears \in Nat
      /\ attempt \in 0..MaxRetries /\ MaxRuns \in Nat /\ MaxRetries \in Nat \ {0}
      /\ Costs \subseteq Nat
  BY TeacherAssumption DEF TypeOK
<1>2. CASE Start
  BY <1>1, <1>2 DEF Start
<1>3. CASE Send \/ FailedAndRetried
  BY <1>1, <1>3 DEF Send, FailedAndRetried, disk
<1>4. CASE Answered
  BY <1>1, <1>4 DEF Answered
<1>5. CASE OpenFile \/ WriteFile \/ LogRaises \/ Kill
  BY <1>1, <1>5 DEF OpenFile, WriteFile, LogRaises, Kill
<1>6. CASE \/ End \/ Recover \/ Call \/ CircuitRefuses \/ BudgetRefuses \/ Refused
           \/ ErrorLogRaises \/ FailedAndTripped \/ Exhausted \/ WriteRaises \/ Noted
           \/ UNCHANGED teacherVars
  BY <1>1, <1>6 DEF End, Recover, Call, CircuitRefuses, BudgetRefuses, Refused, ErrorLogRaises,
        FailedAndTripped, Exhausted, WriteRaises, Noted, disk, teacherVars
<1> QED BY <1>2, <1>3, <1>4, <1>5, <1>6 DEF ClientStep, Next, Work

LEMMA PlaceTypes ==
  ASSUME TypeOK, ClientStep
  PROVE  /\ pc' \in {"down", "idle", "check", "request", "answered", "write"}
         /\ reply' \in Replies
BY DEF TypeOK, Replies, ClientStep, Next, Work, Start, End, Kill, Down, Recover, Call,
       CircuitRefuses, BudgetRefuses, Send, Answered, Refused, ErrorLogRaises, FailedAndTripped,
       FailedAndRetried, Exhausted, LogRaises, OpenFile, WriteFile, WriteRaises, Ends, Noted,
       teacherVars

LEMMA BreakerTypes ==
  ASSUME TypeOK, ClientStep
  PROVE  /\ failures' \in 0..Threshold
         /\ open' \in BOOLEAN /\ halfOpen' \in BOOLEAN /\ waited' \in BOOLEAN
         /\ probes' \in 0..2 /\ streak' \in Nat /\ unlogged' \in 0..MaxUnlogged
<1>1. /\ failures \in 0..Threshold /\ probes \in 0..2 /\ streak \in Nat
      /\ unlogged \in 0..MaxUnlogged /\ Threshold \in Nat \ {0} /\ MaxUnlogged \in Nat
  BY TeacherAssumption DEF TypeOK
<1>2. open \in BOOLEAN /\ halfOpen \in BOOLEAN /\ waited \in BOOLEAN
  BY DEF TypeOK
<1>3. open' \in BOOLEAN /\ halfOpen' \in BOOLEAN /\ waited' \in BOOLEAN
  BY <1>2 DEF ClientStep, Next, Work, Start, End, Kill, Recover, Call, CircuitRefuses,
       BudgetRefuses, Send, Answered, Refused, ErrorLogRaises, FailedAndTripped,
       FailedAndRetried, Exhausted, LogRaises, OpenFile, WriteFile, WriteRaises, Noted,
       breaker, teacherVars
<1>4. failures' \in 0..Threshold /\ probes' \in 0..2 /\ streak' \in Nat /\ unlogged' \in 0..MaxUnlogged
  <2>1. CASE Counted
    <3>1. failures' \in 0..Threshold /\ streak' \in Nat
      BY <1>1, <2>1 DEF Counted
    <3>2. probes' \in 0..2 /\ unlogged' \in 0..MaxUnlogged
      BY <1>1, <2>1 DEF Counted, ClientStep, Next, Work, Start, End, Kill, Recover, Call,
            CircuitRefuses, BudgetRefuses, Send, Answered, Refused, ErrorLogRaises,
            FailedAndTripped, FailedAndRetried, Exhausted, LogRaises, OpenFile, WriteFile,
            WriteRaises, Noted, breaker, teacherVars
    <3> QED BY <3>1, <3>2
  <2>2. CASE ~Counted
    BY <1>1, <2>2 DEF ClientStep, Next, Work, Start, End, Kill, Recover, Call, CircuitRefuses,
         BudgetRefuses, Send, Answered, Refused, ErrorLogRaises, FailedAndTripped,
         FailedAndRetried, Exhausted, LogRaises, OpenFile, WriteFile, WriteRaises, Noted,
         breaker, teacherVars
  <2> QED BY <2>1, <2>2
<1> QED BY <1>3, <1>4

LEMMA TypesNext == TypeOK /\ ClientStep => TypeOK'
BY DiskTypes, PlaceTypes, BreakerTypes DEF TypeOK

LEMMA CascadeTypesInit == CascadeInit => CascadeTypeOK
<1> SUFFICES ASSUME CascadeInit PROVE CascadeTypeOK
  OBVIOUS
<1>1. TypeOK /\ Level2Count \in Nat
  BY TypesInit, CascadeAssumption DEF CascadeInit
<1>2. first \in BOOLEAN /\ best \in BOOLEAN
  BY DEF CascadeInit
<1> QED BY <1>1, <1>2 DEF CascadeInit, CascadeTypeOK

LEMMA CascadeTypesNext == CascadeTypeOK /\ [CascadeNext]_allVars => CascadeTypeOK'
<1> SUFFICES ASSUME CascadeTypeOK, [CascadeNext]_allVars PROVE CascadeTypeOK'
  OBVIOUS
<1>1. TypeOK'
  BY CascadeStep, TypesNext DEF CascadeTypeOK
<1>2. first' \in BOOLEAN /\ best' \in BOOLEAN
  BY DEF CascadeTypeOK, CascadeNext, StartNiche, Sample, Generator, Confident, Level1Unsure,
         AskLevel2, Level2Unsure, Level2Over, Client, Stop, cascadeVars, allVars
<1>3. niche' \in Niches /\ asked' \in 0..Level2Count
  BY CascadeAssumption
     DEF CascadeTypeOK, CascadeNext, StartNiche, Sample, Generator, Confident, Level1Unsure,
         AskLevel2, Level2Unsure, Level2Over, Back, Client, Stop, cascadeVars, allVars
<1>4. /\ level' \in {"none", "level1", "level2"}
      /\ outcome' \in {"none", "confident", "level1", "level2", "error"}
  BY DEF CascadeTypeOK, CascadeNext, StartNiche, Sample, Generator, Confident, Level1Unsure,
         AskLevel2, Level2Unsure, Level2Over, Return, Client, Stop, cascadeVars, allVars
<1> QED BY <1>1, <1>2, <1>3, <1>4 DEF CascadeTypeOK

\* The client and the cascade keep their types, however the processes end.
THEOREM CascadeTypes == CascadeSpec => []CascadeTypeOK
BY CascadeTypesInit, CascadeTypesNext, PTL DEF CascadeSpec

LEMMA ClientTypes == CascadeSpec => []TypeOK
<1>1. CascadeTypeOK => TypeOK
  BY DEF CascadeTypeOK
<1> QED BY <1>1, CascadeTypes, PTL

-----------------------------------------------------------------------------
(* The breaker *)

Coherent ==
    /\ open => failures >= Threshold
    /\ failures >= Threshold => open \/ unlogged > 0
    /\ halfOpen => open /\ waited
    /\ pc = "request" /\ open => halfOpen

\* How long the row of failures can be: as long as the breaker counted, or one for
\* each failure it did not see; since the last timeout none but those.
Row ==
    /\ ~open /\ failures < Threshold => streak <= failures
    /\ ~open /\ failures >= Threshold => streak <= Threshold + unlogged - 1
    /\ open /\ ~waited => streak <= Threshold + unlogged
    /\ open /\ waited => streak <= unlogged

BInv == Coherent /\ Row

LEMMA BInvInit == Init => BInv
BY TeacherAssumption DEF Init, BInv, Coherent, Row

\* Steps the breaker is not part of.
LEMMA BInvElsewhere ==
  ASSUME BInv, UNCHANGED breaker, pc' # "request" \/ pc' = pc
  PROVE  BInv'
BY DEF BInv, Coherent, Row, breaker

LEMMA BInvCounted ==
  ASSUME TypeOK, BInv, pc = "request",
         ErrorLogRaises \/ FailedAndTripped \/ FailedAndRetried \/ Exhausted
  PROVE  BInv'
<1>1. /\ failures \in 0..Threshold /\ streak \in Nat /\ unlogged \in Nat /\ Threshold \in Nat \ {0}
      /\ failures' = (IF failures < Threshold THEN failures + 1 ELSE failures)
      /\ streak' = streak + 1
  BY TeacherAssumption
     DEF TypeOK, ErrorLogRaises, FailedAndTripped, FailedAndRetried, Exhausted, Counted
<1>2. open => halfOpen /\ waited
  BY DEF BInv, Coherent
<1>3. CASE ErrorLogRaises
  <2>1. unlogged' = unlogged + 1 /\ UNCHANGED <<open, halfOpen, waited>> /\ pc' = "idle"
    BY <1>3 DEF ErrorLogRaises, Ends
  <2>2. Coherent'
    BY <1>1, <2>1 DEF BInv, Coherent
  <2>3. Row'
    BY <1>1, <2>1 DEF BInv, Coherent, Row
  <2> QED BY <2>2, <2>3 DEF BInv
<1>4. CASE FailedAndTripped
  <2>1. /\ failures + 1 >= Threshold /\ open' = TRUE /\ halfOpen' = FALSE /\ waited' = FALSE
        /\ unlogged' = unlogged /\ pc' = "idle"
    BY <1>4 DEF FailedAndTripped, Trips, Ends
  <2>2. Coherent'
    BY <1>1, <2>1 DEF Coherent
  <2>3. Row'
    BY <1>1, <1>2, <2>1 DEF BInv, Row
  <2> QED BY <2>2, <2>3 DEF BInv
<1>5. CASE FailedAndRetried \/ Exhausted
  <2>1. ~Trips /\ UNCHANGED <<open, halfOpen, waited, unlogged>>
    BY <1>5 DEF FailedAndRetried, Exhausted
  <2>2. failures + 1 < Threshold /\ ~open
    BY <1>1, <1>2, <2>1 DEF Trips, BInv, Coherent
  <2> QED BY <1>1, <2>1, <2>2 DEF BInv, Coherent, Row
<1> QED BY <1>3, <1>4, <1>5

LEMMA BInvNext == TypeOK /\ BInv /\ ClientStep => BInv'
<1> SUFFICES ASSUME TypeOK, BInv, ClientStep PROVE BInv'
  OBVIOUS
<1>1. failures \in 0..Threshold /\ streak \in Nat /\ unlogged \in Nat /\ Threshold \in Nat \ {0}
  BY TeacherAssumption DEF TypeOK
<1>2. CASE Start
  BY <1>1, <1>2 DEF Start, BInv, Coherent, Row
<1>3. CASE Recover
  BY <1>1, <1>3 DEF Recover, BInv, Coherent, Row
<1>4. CASE BudgetRefuses \/ Send
  <2>1. /\ ~Blocked /\ halfOpen' = open /\ UNCHANGED <<failures, open, waited, streak, unlogged>>
    BY <1>4 DEF BudgetRefuses, Send
  <2> QED BY <2>1 DEF Blocked, BInv, Coherent, Row
<1>5. CASE Answered
  <2>1. /\ failures' = 0 /\ streak' = 0 /\ ~open' /\ ~halfOpen' /\ unlogged' = unlogged
    BY <1>5 DEF Answered, BInv, Coherent
  <2> QED BY <1>1, <2>1 DEF BInv, Coherent, Row
<1>6. CASE ErrorLogRaises \/ FailedAndTripped \/ FailedAndRetried \/ Exhausted
  BY <1>6, BInvCounted DEF ErrorLogRaises, FailedAndTripped, FailedAndRetried, Exhausted
<1>7. CASE \/ End \/ Kill \/ Call \/ CircuitRefuses \/ Refused \/ LogRaises \/ OpenFile \/ WriteFile
           \/ WriteRaises \/ Noted \/ UNCHANGED teacherVars
  <2>1. UNCHANGED breaker /\ (pc' # "request" \/ pc' = pc)
    BY <1>7 DEF End, Kill, Call, CircuitRefuses, Refused, LogRaises, OpenFile, WriteFile,
          WriteRaises, Noted, Down, Ends, disk, teacherVars
  <2> QED BY <2>1, BInvElsewhere
<1> QED BY <1>2, <1>3, <1>4, <1>5, <1>6, <1>7 DEF ClientStep, Next, Work

LEMMA BInvAlways == CascadeSpec => [](TypeOK /\ BInv)
<1>1. CascadeInit => BInv
  BY BInvInit DEF CascadeInit
<1>2. TypeOK /\ BInv /\ [CascadeNext]_allVars => BInv'
  BY BInvNext, CascadeStep
<1> QED BY <1>1, <1>2, ClientTypes, PTL DEF CascadeSpec

\* The flags of the breaker agree between calls, whatever was raised in a call.
THEOREM BreakerIsCoherent == CascadeSpec => []BreakerCoherent
<1>1. BInv => BreakerCoherent
  BY DEF BInv, Coherent, BreakerCoherent
<1> QED BY <1>1, BInvAlways, PTL

\* An endpoint that is down gets no more requests in a row, without a recovery timeout
\* between them, than the threshold and those that could not be logged.
THEOREM EndpointIsLeftAlone == CascadeSpec => []NoHammering
<1>1. TypeOK /\ BInv => NoHammering
  <2> SUFFICES ASSUME TypeOK, BInv PROVE NoHammering
    OBVIOUS
  <2>1. failures \in 0..Threshold /\ streak \in Nat /\ unlogged \in Nat /\ Threshold \in Nat \ {0}
    BY TeacherAssumption DEF TypeOK
  <2> QED BY <2>1 DEF BInv, Row, NoHammering
<1> QED BY <1>1, BInvAlways, PTL
-----------------------------------------------------------------------------
(* The money *)

\* What a process can have spent: less than the cap, and one request.
Most == Cap - 1 + MaxCost

\* What was spent and is not in the total: a total per torn file, a request per mishap.
Lost == tears * Most + mishaps * MaxCost

\* The total in memory and the total on disk both cover what was spent, but for what was
\* lost; between the answer and the save the one on disk is a request behind.
Covered ==
    /\ spent <= total + Lost
    /\ saved # Torn => spent <= saved + Lost + (IF pc = "answered" THEN MaxCost ELSE 0)

Bounded ==
    /\ total <= Most
    /\ saved # Torn => saved <= Most
    /\ pc = "request" => total < Cap

MInv == Covered /\ Bounded

LEMMA Distributes == \A a, b \in Nat : (a + 1) * b = a * b + b
OBVIOUS

LEMMA MoneyNumbers ==
  ASSUME TypeOK
  PROVE  /\ Cap \in Nat \ {0} /\ MaxCost \in Nat /\ Most \in Nat /\ Lost \in Nat
         /\ saved \in Nat \cup {Torn} /\ total \in Nat /\ spent \in Nat
         /\ tears \in Nat /\ mishaps \in Nat
<1>1. /\ Cap \in Nat \ {0} /\ MaxCost \in Nat /\ tears \in Nat /\ mishaps \in Nat
  BY TeacherAssumption, MaxCostIsMost DEF TypeOK
<1>2. Most \in Nat
  BY <1>1 DEF Most
<1>3. \A a, b \in Nat : a * b \in Nat
  OBVIOUS
<1>4. Lost \in Nat
  BY <1>1, <1>2, <1>3 DEF Lost
<1> QED BY <1>1, <1>2, <1>4 DEF TypeOK

LEMMA MInvInit == Init => MInv
<1> SUFFICES ASSUME Init PROVE MInv
  OBVIOUS
<1>1. TypeOK
  BY TypesInit
<1> QED BY <1>1, MoneyNumbers DEF Init, MInv, Covered, Bounded, Torn

\* A step that loses what a request has cost.
LEMMA LostWithMishap ==
  ASSUME TypeOK, mishaps' = mishaps + 1, tears' = tears
  PROVE  Lost' = Lost + MaxCost
<1>1. mishaps' * MaxCost = mishaps * MaxCost + MaxCost
  BY MoneyNumbers, Distributes
<1>2. tears * Most \in Nat /\ mishaps * MaxCost \in Nat
  BY MoneyNumbers
<1> QED BY <1>1, <1>2, MoneyNumbers DEF Lost, Most

\* A start that finds a torn file.
LEMMA LostWithTear ==
  ASSUME TypeOK, tears' = tears + 1, mishaps' = mishaps
  PROVE  Lost' = Lost + Most
<1>1. tears' * Most = tears * Most + Most
  BY MoneyNumbers, Distributes
<1>2. tears * Most \in Nat /\ mishaps * MaxCost \in Nat
  BY MoneyNumbers
<1> QED BY <1>1, <1>2, MoneyNumbers DEF Lost, Most

LEMMA MInvNext == TypeOK /\ MInv /\ ClientStep => MInv'
<1> SUFFICES ASSUME TypeOK, MInv, ClientStep PROVE MInv'
  OBVIOUS
<1>1. Most = Cap - 1 + MaxCost /\ MaxCost' = MaxCost /\ Most' = Most
  BY DEF Most, MaxCost
<1>2. UNCHANGED <<tears, mishaps>> => Lost' = Lost
  BY <1>1 DEF Lost
<1>3. CASE Start
  <2>1. /\ pc' = "idle" /\ UNCHANGED <<saved, spent, mishaps>> /\ pc = "down"
        /\ total' = (IF saved = Torn THEN 0 ELSE saved)
        /\ tears' = (IF saved = Torn THEN tears + 1 ELSE tears)
    BY <1>3 DEF Start
  <2>2. CASE saved = Torn
    BY <1>1, <2>1, <2>2, MoneyNumbers, LostWithTear DEF MInv, Covered, Bounded
  <2>3. CASE saved # Torn
    BY <1>1, <1>2, <2>1, <2>3, MoneyNumbers DEF MInv, Covered, Bounded
  <2> QED BY <2>2, <2>3
<1>4. CASE Kill \/ LogRaises
  <2>1. /\ pc' \in {"down", "idle"} /\ UNCHANGED <<saved, spent, total>> /\ Lost' = Lost + MaxCost
    BY <1>4, LostWithMishap DEF Kill, LogRaises, Down, Ends
  <2> QED BY <1>1, <2>1, MoneyNumbers DEF MInv, Covered, Bounded
<1>5. CASE Answered
  <2>1. PICK c \in Costs : spent' = spent + c /\ total' = total + c
    BY <1>5 DEF Answered
  <2>2. /\ pc = "request" /\ pc' = "answered" /\ saved' = saved /\ Lost' = Lost
    BY <1>2, <1>5 DEF Answered
  <2>3. c \in Nat /\ c <= MaxCost
    BY MaxCostIsMost
  <2> QED BY <1>1, <2>1, <2>2, <2>3, MoneyNumbers DEF MInv, Covered, Bounded
<1>6. CASE OpenFile
  <2>1. saved' = Torn /\ pc' = "write" /\ UNCHANGED <<spent, total>> /\ Lost' = Lost
    BY <1>2, <1>6 DEF OpenFile
  <2> QED BY <1>1, <2>1 DEF MInv, Covered, Bounded, Torn
<1>7. CASE WriteFile
  <2>1. saved' = total /\ pc' = "idle" /\ UNCHANGED <<spent, total>> /\ Lost' = Lost
    BY <1>2, <1>7 DEF WriteFile, Ends
  <2> QED BY <1>1, <2>1, MoneyNumbers DEF MInv, Covered, Bounded
<1>8. CASE \/ End \/ Recover \/ Call \/ CircuitRefuses \/ BudgetRefuses \/ Send \/ Refused
           \/ ErrorLogRaises \/ FailedAndTripped \/ FailedAndRetried \/ Exhausted
           \/ WriteRaises \/ Noted \/ UNCHANGED teacherVars
  <2>1. UNCHANGED <<saved, spent, total, tears, mishaps>>
    BY <1>8 DEF End, Recover, Call, CircuitRefuses, BudgetRefuses, Send, Refused, ErrorLogRaises,
          FailedAndTripped, FailedAndRetried, Exhausted, WriteRaises, Noted, disk, teacherVars
  <2>2. /\ pc' = "answered" <=> pc = "answered"
        /\ pc' = "request" => pc = "request" \/ total < Cap
    BY <1>8 DEF End, Down, Recover, Call, CircuitRefuses, BudgetRefuses, Send, Refused,
          ErrorLogRaises, FailedAndTripped, FailedAndRetried, Exhausted, WriteRaises, Ends, Noted,
          teacherVars
  <2> QED BY <1>1, <1>2, <2>1, <2>2 DEF MInv, Covered, Bounded, Torn
<1> QED BY <1>3, <1>4, <1>5, <1>6, <1>7, <1>8 DEF ClientStep, Next, Work

\* The cap holds across processes: what was ever spent is less than the cap and a request,
\* but for a request per killed process or failing write, and a whole cap per torn file.
THEOREM SpendingIsCapped == CascadeSpec => []SpendingCapped
<1>1. CascadeInit => MInv
  BY MInvInit DEF CascadeInit
<1>2. TypeOK /\ MInv /\ [CascadeNext]_allVars => MInv'
  BY MInvNext, CascadeStep
<1>3. TypeOK /\ MInv => SpendingCapped
  <2> SUFFICES ASSUME TypeOK, MInv PROVE SpendingCapped
    OBVIOUS
  <2>1. (1 + tears) * Most = Most + tears * Most
    BY MoneyNumbers, Distributes
  <2>2. spent <= Most + Lost
    BY MoneyNumbers DEF MInv, Covered, Bounded
  <2>3. tears * Most \in Nat /\ mishaps * MaxCost \in Nat
    BY MoneyNumbers
  <2>4. spent <= (1 + tears) * Most + mishaps * MaxCost
    BY <2>1, <2>2, <2>3, MoneyNumbers DEF Lost
  <2> QED BY <2>4 DEF SpendingCapped, Most
<1> QED BY <1>1, <1>2, <1>3, ClientTypes, PTL DEF CascadeSpec
=============================================================================
