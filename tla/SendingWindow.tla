---------------------------- MODULE SendingWindow ----------------------------
(***************************************************************************)
(* When a message of a campaign may leave: the hours in which ZaBot sends, *)
(* on the contact's own clock, and the pause before each send.             *)
(*                                                                         *)
(* The processor looks at the clock once.  Outside the window it puts the  *)
(* job back in the queue with a delay that must end when the window opens; *)
(* inside it, it pauses for as long as the age of the session requires and *)
(* sends.  The window's hours come from the environment, whose validation  *)
(* lets fractions of an hour and a beginning after the end pass.           *)
(*                                                                         *)
(* Time is counted in minutes.  Left out: seconds, and the calendar, which *)
(* has no summer time since 2019.                                          *)
(***************************************************************************)
EXTENDS Integers

CONSTANTS
    Arrivals,      \* minutes (UTC) at which a job may be taken up for the first time
    Ages,          \* ages of a session, in minutes
    Areas,         \* area codes (DDD) of contacts; 0 for a contact without a number
    Openings,      \* SEND_WINDOW_START_HOUR, in minutes
    Closings,      \* SEND_WINDOW_END_HOUR, in minutes
    WarmupDays, WarmupMin, WarmupMax, MatureMin, MatureMax,   \* SEND_WARMUP_DAYS and so on, in minutes
    Lateness       \* how long a due job may wait for the other jobs of its session

VARIABLES
    window,    \* the hours of the environment
    job,       \* the job, with the area code and the age of the session it concerns
    clock,     \* the time (UTC)
    looked     \* when the processor last looked at the clock

windowVars == <<window, job, clock, looked>>

Hour == 60
Day == 24 * Hour

ASSUME WindowAssumption ==
    /\ Arrivals \subseteq Int /\ Ages \subseteq Nat /\ Areas \subseteq Nat
    /\ Openings \subseteq 0 .. 23 * Hour
    /\ Closings \subseteq Hour .. Day
    /\ {WarmupDays, WarmupMin, WarmupMax, MatureMin, MatureMax} \subseteq Nat /\ Lateness \subseteq Nat

WindowTypeOK ==
    /\ window \in [opens : 0 .. 23 * Hour, closes : Hour .. Day]
    /\ job \in [state : {"new", "waiting", "postponed", "pausing", "sent"}, area : Nat, age : Nat]
    /\ clock \in Int /\ looked \in Int

-----------------------------------------------------------------------------
\* The offset of an area code, in minutes.
OffsetFor(area) ==
    Hour * (CASE area = 68 -> -5
              [] area \in {65, 66, 67, 69, 92, 95, 97} -> -4
              [] OTHER -> -3)

\* The minute of the day of a local time, and its hour (getUTCHours), in minutes.
MinuteOf(local) == local % Day
HourOf(local) == (MinuteOf(local) \div Hour) * Hour

\* isWithinSendingWindow: whole hours are compared with the limits.
IsWithin(area, t) ==
    LET local == t + OffsetFor(area)
    IN  HourOf(local) >= window.opens /\ HourOf(local) < window.closes

\* Mutation of PastTheEnd: the closing hour itself is taken for the day's window.
PastTheEndStrictly(local) == HourOf(local) > window.closes

\* The window of the day of this local time is over.
PastTheEnd(local) == HourOf(local) >= window.closes

\* msUntilNextWindow; the Date is built with the whole hours of the opening.
OpeningFor(local) ==
    local - MinuteOf(local) + (window.opens \div Hour) * Hour + (IF PastTheEnd(local) THEN Day ELSE 0)
UntilNextWindow(area, t) ==
    LET wait == OpeningFor(t + OffsetFor(area)) - (t + OffsetFor(area))
    IN  IF IsWithin(area, t) \/ wait < 0 THEN 0 ELSE wait

\* computeDelayMs: bounds in the wrong order give the lower one.
Pauses(age) ==
    LET AtLeast(low, high) == low .. (IF high > low THEN high ELSE low)
    IN  IF age < WarmupDays * Day THEN AtLeast(WarmupMin, WarmupMax) ELSE AtLeast(MatureMin, MatureMax)

-----------------------------------------------------------------------------
WindowInit ==
    /\ window = [opens |-> 8 * Hour, closes |-> 20 * Hour]
    /\ job = [state |-> "new", area |-> 0, age |-> 0]
    /\ clock = 0
    /\ looked = 0

\* A job of some session is due, in some environment.
Arrive(t, area, age, opens, closes) ==
    /\ job.state = "new"
    /\ window' = [opens |-> opens, closes |-> closes]
    /\ job' = [state |-> "waiting", area |-> area, age |-> age]
    /\ clock' = t
    /\ looked' = t

\* process, outside the window: reschedule; the clock moves to when the job is due again.
Postpone ==
    /\ job.state = "waiting"
    /\ ~IsWithin(job.area, clock)
    /\ looked' = clock
    /\ clock' = clock + UntilNextWindow(job.area, clock)
    /\ job' = [job EXCEPT !.state = "postponed"]
    /\ UNCHANGED window

\* The worker comes to the job that is due, perhaps after others of the session.
TakeUp(late) ==
    /\ job.state = "postponed"
    /\ clock' = clock + late
    /\ job' = [job EXCEPT !.state = "waiting"]
    /\ UNCHANGED <<window, looked>>

\* process, inside the window.
Pause ==
    /\ job.state = "waiting"
    /\ IsWithin(job.area, clock)
    /\ looked' = clock
    /\ job' = [job EXCEPT !.state = "pausing"]
    /\ UNCHANGED <<window, clock>>

\* process, after the pause: the clock is not read again.
Send(pause) ==
    /\ job.state = "pausing"
    /\ clock' = clock + pause
    /\ job' = [job EXCEPT !.state = "sent"]
    /\ UNCHANGED <<window, looked>>

\* The clock is not bounded: a job taken up late is postponed to the next day, and so on; StopAt bounds it.
StopAt == 4 * Day

WindowNext ==
    \/ \E t \in Arrivals, area \in Areas, age \in Ages, opens \in Openings, closes \in Closings :
          Arrive(t, area, age, opens, closes)
    \/ clock < StopAt /\ Postpone
    \/ \E late \in Lateness : TakeUp(late)
    \/ Pause
    \/ \E pause \in Pauses(job.age) : Send(pause)

WindowSpec == WindowInit /\ [][WindowNext]_windowVars

-----------------------------------------------------------------------------
\* The hours of an environment that makes sense, as the defaults do: the window opens on the hour, before it closes.
Regular == window.opens % Hour = 0 /\ window.opens < window.closes

\* A postponed job is due at the first minute at which the contact's window is open.
DueAtOpening ==
    job.state = "postponed" =>
        /\ IsWithin(job.area, clock)
        /\ \A t \in looked .. clock - 1 : ~IsWithin(job.area, t)

\* A message leaves after a look at the clock inside the window, not sooner than the age of its session asks
\* for (bounds in the right order), and not later than the longest of the pauses.
Patience == IF job.age < WarmupDays * Day THEN [least |-> WarmupMin, most |-> WarmupMax]
                                          ELSE [least |-> MatureMin, most |-> MatureMax]
LeavesSoonAfter ==
    job.state = "sent" =>
        /\ IsWithin(job.area, looked)
        /\ clock - looked >= Patience.least
        /\ Patience.least <= Patience.most => clock - looked <= Patience.most

\* Messages respect the contact's hours (timezone.service.ts), however late the queue is:
\* a job waits for exactly the next opening, and a send trails its look at the clock by the pause alone.
SentOnTime == Regular => DueAtOpening /\ LeavesSoonAfter
=============================================================================
