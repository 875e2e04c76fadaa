------------------------------- MODULE Teacher -------------------------------
(***************************************************************************)
(* The teacher API client of gnus-poc (distill/teacher.py): a call passes  *)
(* the circuit breaker and the budget gate, is tried up to max_retries     *)
(* times, and what it cost is added to a total kept in a file, which the   *)
(* next process loads.  A process can be killed at any point: the pipeline *)
(* runner kills a stage that exceeds its hour.  Money is in whole units.   *)
(***************************************************************************)
EXTENDS Integers

CONSTANTS
    Cap,         \* budget_cap_usd
    Costs,       \* what an answered request can cost
    MaxRetries,  \* max_retries: attempts of one call
    Threshold,   \* circuit_breaker_failure_threshold
    MaxRuns,     \* bound: the processes of a behaviour
    MaxUnlogged, \* bound: the failures of a process the error log did not take
    Faults       \* subset of {"kill", "write"}

ASSUME TeacherAssumption ==
    /\ Cap \in Nat \ {0}
    /\ Costs \subseteq Nat /\ \E c \in Costs : \A d \in Costs : d <= c
    /\ MaxRetries \in Nat \ {0}
    /\ Threshold \in Nat \ {0}
    /\ MaxRuns \in Nat /\ MaxUnlogged \in Nat

\* The contents of a file that was truncated and not written.
Torn == -1

VARIABLES
    saved,     \* disk: .budget_state.json, 0 when there is none, or Torn
    total,     \* _total_cost
    failures,  \* _consecutive_failures, counted up to Threshold
    open,      \* _circuit_open
    halfOpen,  \* _circuit_half_open
    waited,    \* whether the recovery timeout is over since _circuit_opened_at
    pc,        \* where the process is
    attempt,   \* the attempt of this call
    reply,     \* what the last call returned or raised, until it is looked at
    runs,      \* processes so far
    spent,     \* history: what all answered requests have cost
    mishaps,   \* history: processes killed, and lines the cost log did not take
    tears,     \* history: starts that found a torn file
    probes,    \* history: calls let through since the timer was last set, up to 2
    streak,    \* history: failures in a row with no recovery timeout between
    unlogged   \* history: failures of this process the error log did not take

disk    == <<saved, runs, spent, mishaps, tears>>
breaker == <<failures, open, halfOpen, waited, probes, streak, unlogged>>
teacherVars == <<disk, total, breaker, pc, attempt, reply>>

Replies == {"none", "content", "circuit", "budget", "refused", "exhausted", "unsaved"}

Init ==
    /\ saved = 0 /\ runs = 0 /\ spent = 0 /\ mishaps = 0 /\ tears = 0
    /\ total = 0
    /\ failures = 0 /\ open = FALSE /\ halfOpen = FALSE /\ waited = FALSE
    /\ probes = 0 /\ streak = 0 /\ unlogged = 0
    /\ pc = "down" /\ attempt = 0 /\ reply = "none"

-----------------------------------------------------------------------------
(* Processes and time *)

\* Mutant of Start: a file that is there is not loaded.
StartAfresh ==
    /\ pc = "down"
    /\ runs < MaxRuns
    /\ total' = 0
    /\ pc' = "idle"
    /\ runs' = runs + 1
    /\ failures' = 0 /\ open' = FALSE /\ halfOpen' = FALSE /\ waited' = FALSE
    /\ probes' = 0 /\ streak' = 0 /\ unlogged' = 0
    /\ UNCHANGED <<saved, spent, mishaps, tears, attempt, reply>>

\* __init__ and _load_budget_state: a torn file is no JSON and counts as nothing;
\* the breaker is closed again.
Start ==
    /\ pc = "down"
    /\ runs < MaxRuns
    /\ total' = IF saved = Torn THEN 0 ELSE saved
    /\ tears' = IF saved = Torn THEN tears + 1 ELSE tears
    /\ pc' = "idle"
    /\ runs' = runs + 1
    /\ failures' = 0 /\ open' = FALSE /\ halfOpen' = FALSE /\ waited' = FALSE
    /\ probes' = 0 /\ streak' = 0 /\ unlogged' = 0
    /\ UNCHANGED <<saved, spent, mishaps, attempt, reply>>

\* The process ends between two calls, or is killed.
Down == pc' = "down" /\ reply' = "none"

End ==
    /\ pc = "idle"
    /\ Down
    /\ UNCHANGED <<disk, total, breaker, attempt>>

Kill ==
    /\ "kill" \in Faults
    /\ pc \notin {"down", "idle"}
    /\ Down
    /\ mishaps' = mishaps + 1
    /\ UNCHANGED <<saved, runs, spent, tears, total, breaker, attempt>>

\* The recovery timeout of an open circuit is over.
Recover ==
    /\ pc # "down" /\ open /\ ~waited
    /\ waited' = TRUE
    /\ streak' = 0
    /\ UNCHANGED <<disk, total, failures, open, halfOpen, probes, unlogged, pc, attempt,
                   reply>>

-----------------------------------------------------------------------------
(* generate and _call_api: the gates *)

Call ==
    /\ pc = "idle"
    /\ pc' = "check"
    /\ reply' = "none"
    /\ UNCHANGED <<disk, total, breaker, attempt>>

Ends(r) == pc' = "idle" /\ reply' = r

\* Mutant of Blocked: an open circuit lets every call through as a probe.
NeverBlocked == FALSE

\* _check_circuit
Blocked == open /\ ~waited

CircuitRefuses ==
    /\ pc = "check"
    /\ Blocked
    /\ Ends("circuit")
    /\ UNCHANGED <<disk, total, breaker, attempt>>

\* Past the first gate an open circuit is half-open.
BudgetRefuses ==
    /\ pc = "check"
    /\ ~Blocked
    /\ total >= Cap
    /\ halfOpen' = open
    /\ Ends("budget")
    /\ UNCHANGED <<disk, total, failures, open, waited, probes, streak, unlogged, attempt>>

Send ==
    /\ pc = "check"
    /\ ~Blocked
    /\ total < Cap
    /\ halfOpen' = open
    /\ probes' = IF open THEN (IF probes < 2 THEN probes + 1 ELSE 2) ELSE 0
    /\ attempt' = 1
    /\ pc' = "request"
    /\ UNCHANGED <<disk, total, failures, open, waited, streak, unlogged, reply>>

-----------------------------------------------------------------------------
(* _call_api: the attempts *)

\* Mutant of Answered: the failures are counted on.
AnsweredCountingOn ==
    /\ pc = "request"
    /\ \E c \in Costs :
          /\ spent' = spent + c
          /\ total' = total + c
    /\ streak' = 0
    /\ open' = (open /\ ~halfOpen) /\ waited' = (waited /\ ~halfOpen)
    /\ halfOpen' = FALSE
    /\ probes' = 0
    /\ pc' = "answered"
    /\ UNCHANGED <<saved, runs, mishaps, tears, failures, unlogged, attempt, reply>>

\* An answer closes a half-open circuit and ends the row of failures; its cost is
\* known to this process only, so far.
Answered ==
    /\ pc = "request"
    /\ \E c \in Costs :
          /\ spent' = spent + c
          /\ total' = total + c
    /\ failures' = 0 /\ streak' = 0
    /\ open' = (open /\ ~halfOpen) /\ waited' = (waited /\ ~halfOpen)
    /\ halfOpen' = FALSE
    /\ probes' = 0
    /\ pc' = "answered"
    /\ UNCHANGED <<saved, runs, mishaps, tears, unlogged, attempt, reply>>

\* An HTTP status in HTTP_NON_RETRYABLE is raised as it is, and counts nowhere.
Refused ==
    /\ pc = "request"
    /\ Ends("refused")
    /\ UNCHANGED <<disk, total, breaker, attempt>>

\* Any other exception is one more failure in the row.
Counted ==
    /\ failures' = IF failures < Threshold THEN failures + 1 ELSE failures
    /\ streak' = streak + 1

\* An OSError of _log_error is raised before the breaker is looked at.
ErrorLogRaises ==
    /\ "write" \in Faults
    /\ pc = "request"
    /\ unlogged < MaxUnlogged
    /\ Counted
    /\ unlogged' = unlogged + 1
    /\ Ends("unsaved")
    /\ UNCHANGED <<disk, total, open, halfOpen, waited, probes, attempt>>

Trips == failures + 1 >= Threshold /\ (halfOpen \/ ~open)

\* The circuit opens, or the half-open one opens again: the timer is set.
FailedAndTripped ==
    /\ pc = "request"
    /\ Counted
    /\ Trips
    /\ open' = TRUE /\ halfOpen' = FALSE /\ waited' = FALSE
    /\ probes' = 0
    /\ Ends("circuit")
    /\ UNCHANGED <<disk, total, unlogged, attempt>>

\* Mutant of FailedAndRetried: one attempt too many.
FailedAndRetriedOnceMore ==
    /\ pc = "request"
    /\ Counted
    /\ ~Trips
    /\ attempt <= MaxRetries
    /\ attempt' = attempt + 1
    /\ UNCHANGED <<disk, total, open, halfOpen, waited, probes, unlogged, pc, reply>>

FailedAndRetried ==
    /\ pc = "request"
    /\ Counted
    /\ ~Trips
    /\ attempt < MaxRetries
    /\ attempt' = attempt + 1
    /\ UNCHANGED <<disk, total, open, halfOpen, waited, probes, unlogged, pc, reply>>

Exhausted ==
    /\ pc = "request"
    /\ Counted
    /\ ~Trips
    /\ attempt = MaxRetries
    /\ Ends("exhausted")
    /\ UNCHANGED <<disk, total, open, halfOpen, waited, probes, unlogged, attempt>>

-----------------------------------------------------------------------------
(* generate: _log_cost, and _save_budget_state, whose write_text truncates the *)
(* file before it writes it                                                    *)

\* An OSError of either goes to the caller in place of the answer.
LogRaises ==
    /\ "write" \in Faults
    /\ pc = "answered"
    /\ mishaps' = mishaps + 1
    /\ Ends("unsaved")
    /\ UNCHANGED <<saved, runs, spent, tears, total, breaker, attempt>>

OpenFile ==
    /\ pc = "answered"
    /\ saved' = Torn
    /\ pc' = "write"
    /\ UNCHANGED <<runs, spent, mishaps, tears, total, breaker, attempt, reply>>

WriteFile ==
    /\ pc = "write"
    /\ saved' = total
    /\ Ends("content")
    /\ UNCHANGED <<runs, spent, mishaps, tears, total, breaker, attempt>>

WriteRaises ==
    /\ "write" \in Faults
    /\ pc = "write"
    /\ Ends("unsaved")
    /\ UNCHANGED <<disk, total, breaker, attempt>>

-----------------------------------------------------------------------------
\* The process at work on a call.
Work ==
    \/ CircuitRefuses \/ BudgetRefuses \/ Send
    \/ Answered \/ Refused \/ ErrorLogRaises \/ FailedAndTripped \/ FailedAndRetried \/ Exhausted
    \/ LogRaises \/ OpenFile \/ WriteFile \/ WriteRaises

Next == Start \/ End \/ Kill \/ Recover \/ Call \/ Work

Spec == Init /\ [][Next]_teacherVars

-----------------------------------------------------------------------------
(* Properties *)

MaxCost == CHOOSE c \in Costs : \A d \in Costs : d <= c

TypeOK ==
    /\ saved \in Nat \cup {Torn}
    /\ total \in Nat /\ spent \in Nat
    /\ runs \in 0..MaxRuns /\ mishaps \in Nat /\ tears \in Nat
    /\ failures \in 0..Threshold
    /\ open \in BOOLEAN /\ halfOpen \in BOOLEAN /\ waited \in BOOLEAN
    /\ probes \in 0..2 /\ streak \in Nat /\ unlogged \in 0..MaxUnlogged
    /\ pc \in {"down", "idle", "check", "request", "answered", "write"}
    /\ attempt \in 0..MaxRetries
    /\ reply \in Replies

\* The cap holds across processes: all that was ever spent exceeds it by less than
\* one request, but for a request per killed process or failed write of the cost log,
\* whose cost was not saved, and a whole cap per torn file (_check_budget,
\* _save_budget_state, generate).
SpendingCapped ==
    spent <= (1 + tears) * (Cap - 1 + MaxCost) + mishaps * MaxCost

\* The flags of the breaker agree between calls, whatever was raised in a call: it
\* is open only when the row of failures has its length, closed then only because
\* of a failure that could not be logged, and half-open only when open and past its
\* timeout (_check_circuit, _call_api).
BreakerCoherent ==
    pc # "down" =>
       /\ open => failures >= Threshold
       /\ failures >= Threshold => open \/ unlogged > 0
       /\ halfOpen => open /\ waited
       /\ pc = "request" /\ open => halfOpen

\* An endpoint that is down is left alone: never more than `threshold` failures in
\* a row without a recovery timeout between them, over calls, retries and models,
\* but for those that could not be logged (_check_circuit, _call_api).
NoHammering == streak <= Threshold + unlogged

\* teacher.py:358: "a single probe call is permitted": since the timer was set, at
\* most one call has been let through to an open circuit.
OneProbePerTimeout == open => probes <= 1
=============================================================================
