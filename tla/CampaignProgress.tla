-------------------------- MODULE CampaignProgress --------------------------
(***************************************************************************)
(* What the app promises about a campaign, as its progress bar shows it:   *)
(* it is created with a number of contacts, all pending; each contact      *)
(* leaves "pending" once, for "sent" or for "failed"; the campaign is done *)
(* exactly when none is pending; a campaign the user cleared never comes   *)
(* back.  How jobs, attempts and handlers make that happen is not said     *)
(* here: SendPipeline is shown to implement this specification.            *)
(***************************************************************************)
EXTENDS Integers

CONSTANTS
    Campaigns,  \* the campaigns
    Sizes       \* how many contacts a campaign may have: positive naturals

VARIABLE progress  \* what the front reads of every campaign

Absent(status) ==
    [status |-> status, total |-> 0, pending |-> 0, sent |-> 0, failed |-> 0]

Init == progress = [c \in Campaigns |-> Absent("none")]

Create(c) ==
    \E n \in Sizes :
        /\ progress[c].status = "none"
        /\ progress' = [progress EXCEPT ![c] =
               [status |-> "PENDENTE", total |-> n, pending |-> n, sent |-> 0, failed |-> 0]]

\* One contact of the campaign reaches its final outcome.
Resolve(c) ==
    LET left == progress[c].pending - 1
        done == IF left = 0 THEN "ENVIADA" ELSE "PENDENTE"
    IN  /\ progress[c].pending > 0
        /\ \/ progress' = [progress EXCEPT ![c].pending = left, ![c].status = done, ![c].sent = @ + 1]
           \/ progress' = [progress EXCEPT ![c].pending = left, ![c].status = done, ![c].failed = @ + 1]

Clear ==
    progress' = [c \in Campaigns |-> IF progress[c].status = "none" THEN progress[c]
                                                                    ELSE Absent("deleted")]

Next == Clear \/ \E c \in Campaigns : Create(c) \/ Resolve(c)

Spec == Init /\ [][Next]_progress
=============================================================================
