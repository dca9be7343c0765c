---------------------------- MODULE ExternalWrite ----------------------------
(***************************************************************************)
(* What an audited external write promises: a request has an effect at     *)
(* most once, is tried again only when it is known to have had none, and   *)
(* is called done only when it had it.  No locks, threads or restarts.     *)
(***************************************************************************)
EXTENDS Naturals

CONSTANT Requests

VARIABLES
    phase,         \* what the audit says of a request
    effects        \* how often the provider carried it out

vars == <<phase, effects>>

Init ==
    /\ phase = [r \in Requests |-> "open"]
    /\ effects = [r \in Requests |-> 0]

Attempt(r) ==
    /\ phase[r] = "open"
    /\ phase' = [phase EXCEPT ![r] = "doubt"]
    /\ UNCHANGED effects

\* The provider acts while the outcome is in doubt, or after the audit is gone.
Apply(r) ==
    /\ phase[r] \in {"doubt", "gone"}
    /\ effects[r] = 0
    /\ effects' = [effects EXCEPT ![r] = 1]
    /\ UNCHANGED phase

Confirm(r) ==
    /\ phase[r] = "doubt"
    /\ effects[r] = 1
    /\ phase' = [phase EXCEPT ![r] = "done"]
    /\ UNCHANGED effects

\* The provider refused, and it is not known whether it did so in time.
Refuse(r) ==
    /\ phase[r] = "doubt"
    /\ phase' = [phase EXCEPT ![r] = "refused"]
    /\ UNCHANGED effects

Reopen(r) ==
    /\ phase[r] = "doubt"
    /\ effects[r] = 0
    /\ phase' = [phase EXCEPT ![r] = "open"]
    /\ UNCHANGED effects

\* The draft is deleted with all its requests.
Forget ==
    /\ phase' = [r \in Requests |-> "gone"]
    /\ UNCHANGED effects

Next ==
    \/ \E r \in Requests : Attempt(r) \/ Apply(r) \/ Confirm(r) \/ Refuse(r) \/ Reopen(r)
    \/ Forget

Spec == Init /\ [][Next]_vars
=============================================================================
