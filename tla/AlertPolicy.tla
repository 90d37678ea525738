----------------------------- MODULE AlertPolicy -----------------------------
(***************************************************************************)
(* What the operational alerts of ZaBot promise of each condition of each  *)
(* user (a key): an alert is raised at most once in a cooldown of one      *)
(* process, and again and again for as long as the condition lasts.        *)
(***************************************************************************)
EXTENDS Naturals

CONSTANTS
    Keys,       \* the kind of a condition and its user
    Cooldown    \* ALERTS_COOLDOWN_MS, in ticks

VARIABLES
    lasting,   \* the conditions that hold
    quiet,     \* ticks since the last alert of each key, counted up to the cooldown
    alerts     \* parity of the number of alerts of each key

policyVars == <<lasting, quiet, alerts>>

PolicyInit ==
    /\ lasting = [key \in Keys |-> FALSE]
    /\ quiet = [key \in Keys |-> Cooldown]
    /\ alerts = [key \in Keys |-> 0]

\* Time passes for all.
PolicyTick ==
    /\ quiet' = [key \in Keys |-> IF quiet[key] < Cooldown THEN quiet[key] + 1 ELSE Cooldown]
    /\ UNCHANGED <<lasting, alerts>>

\* A condition comes or goes.
PolicyChange(key) ==
    /\ lasting' = [lasting EXCEPT ![key] = ~@]
    /\ UNCHANGED <<quiet, alerts>>

\* An alert, if the last one of its key is not too recent.
PolicyAlert(key) ==
    /\ quiet[key] = Cooldown
    /\ quiet' = [quiet EXCEPT ![key] = 0]
    /\ alerts' = [alerts EXCEPT ![key] = 1 - @]
    /\ UNCHANGED lasting

\* A restarted process has forgotten its alerts: the cooldowns are over.
PolicyRestart ==
    /\ quiet' = [key \in Keys |-> Cooldown]
    /\ UNCHANGED <<lasting, alerts>>

PolicyNext ==
    \/ PolicyTick \/ PolicyRestart
    \/ \E key \in Keys : PolicyChange(key) \/ PolicyAlert(key)

PolicySpec ==
    /\ PolicyInit /\ [][PolicyNext]_policyVars
    /\ \A key \in Keys : WF_policyVars(lasting[key] /\ PolicyAlert(key))
=============================================================================
