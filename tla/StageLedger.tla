----------------------------- MODULE StageLedger -----------------------------
(***************************************************************************)
(* What the pipeline's checkpoints promise, without the runner: a ledger   *)
(* of (niche, stage) entries.  An entry is certified only while its        *)
(* outputs are sound, the outputs of a certified entry are not touched,    *)
(* and a certificate is only revoked by a forced invocation.               *)
(***************************************************************************)
CONSTANT Entries

VARIABLES
    certified,  \* entries with a checkpoint
    sound,      \* entries whose outputs pass validation
    forced      \* whether the invocation in charge was given --force

vars == <<certified, sound, forced>>

Init ==
    /\ certified = {}
    /\ sound = {}
    /\ forced \in BOOLEAN

\* A user starts another invocation.
TakeOver ==
    /\ forced' \in BOOLEAN
    /\ UNCHANGED <<certified, sound>>

\* A stage script works on its outputs, for better or for worse.
Work(e) ==
    /\ e \notin certified
    /\ sound' \in {sound \cup {e}, sound \ {e}}
    /\ UNCHANGED <<certified, forced>>

Certify(e) ==
    /\ e \in sound
    /\ certified' = certified \cup {e}
    /\ UNCHANGED <<sound, forced>>

Revoke(e) ==
    /\ forced
    /\ certified' = certified \ {e}
    /\ UNCHANGED <<sound, forced>>

Next == TakeOver \/ \E e \in Entries : Work(e) \/ Certify(e) \/ Revoke(e)

Spec == Init /\ [][Next]_vars

\* What the ledger is for: a certified entry is sound.
CertifiedAreSound == certified \subseteq sound
=============================================================================
