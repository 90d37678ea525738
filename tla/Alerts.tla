------------------------------- MODULE Alerts -------------------------------
(***************************************************************************)
(* The operational alerts of ZaBot (AlertsService): a timer starts a cycle *)
(* of checks, one loop over all users for each kind of condition.          *)
(*                                                                         *)
(* The timer does not wait for the last cycle to end, so cycles overlap;   *)
(* what keeps them from raising the same alert twice is a map of the times *)
(* of the last alerts, read and written without an await in between.  A    *)
(* query that fails ends the loop of its kind; a failing e-mail does not.  *)
(* A restarted process has lost the map.                                   *)
(*                                                                         *)
(* Left out: how each kind of condition is counted, and the e-mail's text. *)
(***************************************************************************)
EXTENDS Naturals, FiniteSets

CONSTANTS
    Kinds,       \* session_down, stuck_queue, failure_rate
    LastUser,    \* users are 1 .. LastUser, in the order the query lists them
    Cycles,      \* bound: cycles that may overlap
    Cooldown,    \* ALERTS_COOLDOWN_MS, in ticks
    MaxMishaps   \* bound: failing queries and restarts

ASSUME AlertsAssumption == LastUser \in Nat \ {0} /\ Cooldown \in Nat \ {0} /\ MaxMishaps \in Nat

VARIABLES
    condition,   \* condition[k, u]: what the tables say
    loop,        \* loop[c][k]: where the loop of this kind is in this cycle
    since,       \* since[k, u]: ticks since lastAlertAt, up to the cooldown
    unalerted,   \* history: ticks since the last alert was raised, up to the cooldown
    raised,      \* history: parity of the alerts raised
    mishaps      \* failing queries and restarts left

alertVars == <<condition, loop, since, unalerted, raised, mishaps>>

Users == 1 .. LastUser
Ended == [pc |-> "ended", user |-> 1, seen |-> FALSE]
EachKey(x) == [key \in Kinds \X Users |-> x]
NoLoop == [c \in Cycles |-> [k \in Kinds |-> Ended]]

AlertsInit ==
    /\ condition = EachKey(FALSE)
    /\ loop = NoLoop
    /\ since = EachKey(Cooldown)
    /\ unalerted = EachKey(Cooldown)
    /\ raised = EachKey(0)
    /\ mishaps = MaxMishaps

Mishap ==
    /\ mishaps > 0
    /\ mishaps' = mishaps - 1

-----------------------------------------------------------------------------
\* A tick of the clock.
TickClock ==
    LET Older(ages) == [key \in Kinds \X Users |-> IF ages[key] < Cooldown THEN ages[key] + 1 ELSE Cooldown]
    IN  /\ since' = Older(since)
        /\ unalerted' = Older(unalerted)
        /\ UNCHANGED <<condition, loop, raised, mishaps>>

\* The user's rows change.
ConditionChanges(k, u) ==
    /\ condition' = [condition EXCEPT ![<<k, u>>] = ~@]
    /\ UNCHANGED <<loop, since, unalerted, raised, mishaps>>

\* The timer, runChecks: the loops of all kinds begin.
StartCycle(c) ==
    /\ \A k \in Kinds : loop[c][k] = Ended
    /\ loop' = [loop EXCEPT ![c] = [k \in Kinds |-> [Ended EXCEPT !.pc = "asking"]]]
    /\ UNCHANGED <<condition, since, unalerted, raised, mishaps>>

\* The query of one user is answered by the database.
Ask(c, k) ==
    LET l == loop[c][k]
    IN  /\ l.pc = "asking"
        /\ loop' = [loop EXCEPT ![c][k] = [l EXCEPT !.pc = "telling", !.seen = condition[k, l.user]]]
        /\ UNCHANGED <<condition, since, unalerted, raised, mishaps>>

\* The query fails: nobody else is checked for this kind in this cycle.
AskFails(c, k) ==
    /\ loop[c][k].pc = "asking"
    /\ loop' = [loop EXCEPT ![c][k] = Ended]
    /\ Mishap
    /\ UNCHANGED <<condition, since, unalerted, raised>>

NextUser(l) == IF l.user < LastUser THEN [Ended EXCEPT !.pc = "asking", !.user = l.user + 1] ELSE Ended

\* The alert is raised: the log line.
Raise(k, u) ==
    /\ raised' = [raised EXCEPT ![<<k, u>>] = 1 - @]
    /\ unalerted' = [unalerted EXCEPT ![<<k, u>>] = 0]

\* Mutation of TriggerAlert: the time of the alert is kept only once the e-mail has left.
TriggerAlertLate(c, k) ==
    LET l == loop[c][k]
    IN  /\ \/ /\ l.pc = "telling"
              /\ l.seen /\ since[k, l.user] = Cooldown
              /\ Raise(k, l.user)
              /\ loop' = [loop EXCEPT ![c][k].pc = "mailing"]
              /\ UNCHANGED since
           \/ /\ l.pc = "mailing"
              /\ since' = [since EXCEPT ![<<k, l.user>>] = 0]
              /\ loop' = [loop EXCEPT ![c][k] = NextUser(l)]
              /\ UNCHANGED <<raised, unalerted>>
        /\ UNCHANGED <<condition, mishaps>>

\* triggerAlert up to its await: the cooldown is checked and started in one go.
TriggerAlert(c, k) ==
    LET l == loop[c][k]
    IN  /\ l.pc = "telling"
        /\ l.seen /\ since[k, l.user] = Cooldown
        /\ since' = [since EXCEPT ![<<k, l.user>>] = 0]
        /\ Raise(k, l.user)
        /\ loop' = [loop EXCEPT ![c][k].pc = "mailing"]
        /\ UNCHANGED <<condition, mishaps>>

\* No condition, or the cooldown lasts.
NothingToTell(c, k) ==
    LET l == loop[c][k]
    IN  /\ l.pc = "telling"
        /\ ~l.seen \/ since[k, l.user] < Cooldown
        /\ loop' = [loop EXCEPT ![c][k] = NextUser(l)]
        /\ UNCHANGED <<condition, since, unalerted, raised, mishaps>>

\* The e-mail has left, or failed: the loop goes on either way.
Mailed(c, k) ==
    /\ loop[c][k].pc = "mailing"
    /\ loop' = [loop EXCEPT ![c][k] = NextUser(@)]
    /\ UNCHANGED <<condition, since, unalerted, raised, mishaps>>

\* The process restarts.
Restart ==
    /\ Mishap
    /\ loop' = NoLoop
    /\ since' = EachKey(Cooldown)
    /\ unalerted' = EachKey(Cooldown)
    /\ UNCHANGED <<condition, raised>>

LoopStep(c, k) == Ask(c, k) \/ TriggerAlert(c, k) \/ NothingToTell(c, k) \/ Mailed(c, k)

AlertsNext ==
    \/ TickClock \/ Restart
    \/ \E k \in Kinds, u \in Users : ConditionChanges(k, u)
    \/ \E c \in Cycles : StartCycle(c)
    \/ \E c \in Cycles, k \in Kinds : LoopStep(c, k) \/ AskFails(c, k)

\* The timer fires again and again, time goes on, and awaits settle.
AlertsFairness ==
    /\ WF_alertVars(TickClock)
    /\ \A c \in Cycles : WF_alertVars(StartCycle(c))
    /\ \A c \in Cycles, k \in Kinds : WF_alertVars(LoopStep(c, k))

AlertsSpec == AlertsInit /\ [][AlertsNext]_alertVars /\ AlertsFairness

-----------------------------------------------------------------------------
Policy ==
    INSTANCE AlertPolicy WITH Keys <- Kinds \X Users, lasting <- condition, quiet <- unalerted, alerts <- raised

\* However cycles overlap, queries fail and processes restart, each condition of each user is alerted at most
\* once in a cooldown of a process, and again and again while it lasts (class comment of alerts.service.ts).
ImplementsPolicy == Policy!PolicySpec
=============================================================================
