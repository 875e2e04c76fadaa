------------------------------- MODULE Cascade -------------------------------
(***************************************************************************)
(* The teacher cascade (distill/cascade.py) over the client of Teacher, as *)
(* SyntheticDataGenerator.generate_for_niche drives it: the fast teacher   *)
(* first, and when it is not confident the teachers of the domain, best    *)
(* score first.  Of a confidence only matters whether it reaches the       *)
(* threshold.  The cascade catches whatever the client raises.             *)
(***************************************************************************)
EXTENDS Teacher

CONSTANTS
    Niches,      \* the niches samples are generated for
    Benchmarks,  \* the keys of teacher_benchmark in pipeline.yaml
    Level2Count  \* how many teachers each of them lists

ASSUME CascadeAssumption == Level2Count \in Nat

\* _DOMAIN_MAP
DomainMap == [code         |-> "coding",
              medical      |-> "medical",
              qa_technical |-> "qa_technical",
              encyclopedic |-> "encyclopedic",
              patents      |-> "patents"]

VARIABLES
    niche,   \* the niche of the sample
    level,   \* how far the cascade is
    first,   \* whether Level 1 gave content
    best,    \* whether a Level 2 teacher did
    asked,   \* the Level 2 teachers asked
    outcome  \* what the last cascade returned, or "error"

cascadeVars == <<niche, level, first, best, asked, outcome>>
allVars     == <<teacherVars, cascadeVars>>

CascadeInit ==
    /\ Init
    /\ niche \in Niches
    /\ level = "none" /\ first = FALSE /\ best = FALSE /\ asked = 0
    /\ outcome = "none"

-----------------------------------------------------------------------------
\* The domain generate_for_niche passes on.
Domain(n) == IF n \in DOMAIN DomainMap THEN DomainMap[n] ELSE "encyclopedic"

\* execute: the domain is looked up in the same map again, where "coding" is not found,
\* although teachers were scored for it.
Routed(n) ==
    /\ Domain(n) \in DOMAIN DomainMap
    /\ DomainMap[Domain(n)] \in Benchmarks

\* A process generates for one niche.
StartNiche ==
    /\ Start
    /\ niche' \in Niches
    /\ UNCHANGED <<level, first, best, asked, outcome>>

\* generate_for_niche goes on to the next sample until a cascade raises.
Sample ==
    /\ level = "none" /\ outcome # "error"
    /\ Call
    /\ level' = "level1"
    /\ first' = FALSE /\ best' = FALSE /\ asked' = 0
    /\ outcome' = "none"
    /\ UNCHANGED niche

\* The client is back with content or an exception; it is taken note of once.
Back(l) ==
    /\ level = l /\ pc = "idle" /\ reply # "none"
    /\ reply' = "none"
    /\ UNCHANGED <<disk, total, breaker, pc, attempt, niche>>

Return(how) == level' = "none" /\ outcome' = how

\* At either level a confident answer is returned at once.
Confident ==
    /\ \E l \in {"level1", "level2"} : Back(l)
    /\ reply = "content"
    /\ Return("confident")
    /\ UNCHANGED <<first, best, asked>>

Level1Unsure ==
    /\ Back("level1")
    /\ first' = (reply = "content")
    /\ IF Routed(niche)
         THEN level' = "level2" /\ UNCHANGED outcome
         ELSE Return(IF reply = "content" THEN "level1" ELSE "error")
    /\ UNCHANGED <<best, asked>>

AskLevel2 ==
    /\ level = "level2" /\ reply = "none" /\ asked < Level2Count
    /\ Call
    /\ asked' = asked + 1
    /\ UNCHANGED <<niche, level, first, best, outcome>>

\* Mutant of Level2Unsure: the same teacher is asked again.
Level2UnsureAgain ==
    /\ Back("level2")
    /\ best' = (best \/ reply = "content")
    /\ asked' = asked - 1
    /\ UNCHANGED <<level, first, outcome>>

Level2Unsure ==
    /\ Back("level2")
    /\ best' = (best \/ reply = "content")
    /\ UNCHANGED <<level, first, asked, outcome>>

\* The best of the Level 2 answers; what Level 1 answered is not looked at.
Level2Over ==
    /\ level = "level2" /\ pc = "idle" /\ reply = "none" /\ asked = Level2Count
    /\ Return(IF best THEN "level2" ELSE "error")
    /\ UNCHANGED <<teacherVars, niche, first, best, asked>>

\* The process ends between two samples, or is killed in the middle of one.
Stop ==
    /\ \/ End /\ (level = "none" \/ "kill" \in Faults)
       \/ Kill
    /\ level' = "none" /\ outcome' = "none"
    /\ first' = FALSE /\ best' = FALSE /\ asked' = 0
    /\ UNCHANGED niche

Client == (Recover \/ Work) /\ UNCHANGED cascadeVars

Generator == Confident \/ Level1Unsure \/ AskLevel2 \/ Level2Unsure \/ Level2Over

CascadeNext == StartNiche \/ Sample \/ Generator \/ Client \/ Stop

CascadeSpec == CascadeInit /\ [][CascadeNext]_allVars

\* The process runs, and every request ends: the SDKs have a timeout.
CascadeFairSpec ==
    CascadeSpec /\ WF_allVars(Generator \/ (Work /\ UNCHANGED cascadeVars))

-----------------------------------------------------------------------------
(* Properties *)

CascadeTypeOK ==
    /\ TypeOK
    /\ niche \in Niches
    /\ level \in {"none", "level1", "level2"}
    /\ first \in BOOLEAN /\ best \in BOOLEAN
    /\ asked \in 0..Level2Count
    /\ outcome \in {"none", "confident", "level1", "level2", "error"}

\* A sample is done with, one way or another, or the process is killed: whatever
\* the breaker, the budget and the teachers do, no cascade goes on for ever
\* (execute, the loop of _call_api).
CascadeEnds == level # "none" ~> level = "none"
=============================================================================
